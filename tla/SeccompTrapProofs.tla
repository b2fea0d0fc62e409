------------------------- MODULE SeccompTrapProofs -------------------------
(***************************************************************************)
(* Theorems about SeccompTrap, for any set of threads, any number of       *)
(* frames and any calls of the guest.  TypeOK is inductive: it says of     *)
(* each place which calls can be there, which is what the other two        *)
(* invariants need of the handler's program.                               *)
(***************************************************************************)
EXTENDS SeccompTrap, TLAPS

(* What TypeOK says of one thread's stack.                                 *)
StackOK(s) ==
  /\ s \in Seq(Frames) /\ Len(s) <= MaxFrames
  /\ \A i \in 1..Len(s) : FrameOK(s[i])
  /\ \A i \in 1..Len(s) : i < Len(s) => s[i].at \in Calling

(* The frame that has gone on to a place, and the stack whose running      *)
(* frame has.                                                              *)
At(f, place) == [nr |-> f.nr, path |-> f.path, at |-> place]
Moved(s, place) == [s EXCEPT ![Len(s)] = At(@, place)]

Settings ==
  /\ rootfsOpen \in BOOLEAN /\ logFile \in BOOLEAN /\ alive \in BOOLEAN
  /\ vfsLock \in Threads \cup {NoThread}

LEMMA TypeOKByStack ==
  TypeOK <=> /\ Settings
             /\ stack \in [Threads -> Seq(Frames)]
             /\ \A t \in Threads : StackOK(stack[t])
  BY DEF TypeOK, StackOK, Settings, Depth

-----------------------------------------------------------------------------
(* Stacks.                                                                 *)

LEMMA MovedStack ==
  ASSUME NEW s \in Seq(Frames), Len(s) > 0, NEW place \in Places
  PROVE  /\ Moved(s, place) \in Seq(Frames)
         /\ Len(Moved(s, place)) = Len(s)
         /\ \A i \in 1..Len(s) : i < Len(s) => Moved(s, place)[i] = s[i]
         /\ Moved(s, place)[Len(s)] = At(s[Len(s)], place)
<1>1. Len(s) \in 1..Len(s) /\ s[Len(s)] \in Frames
  OBVIOUS
<1>2. At(s[Len(s)], place) \in Frames
  BY <1>1 DEF Frames, At
<1> QED
  BY <1>1, <1>2 DEF Moved

(* Going on to a place where the call may be keeps the stack in order.     *)
LEMMA MovedStackOK ==
  ASSUME NEW s, StackOK(s), Len(s) > 0, NEW place \in Places,
         FrameOK(At(s[Len(s)], place))
  PROVE  StackOK(Moved(s, place))
<1>1. s \in Seq(Frames) /\ Len(s) \in Nat
  BY DEF StackOK
<1>2. PICK r \in Seq(Frames) : r = Moved(s, place)
  BY <1>1, MovedStack
<1>3. /\ Len(r) = Len(s)
      /\ \A i \in 1..Len(s) : i < Len(s) => r[i] = s[i]
      /\ r[Len(s)] = At(s[Len(s)], place)
  BY <1>1, <1>2, MovedStack
<1>4. \A i \in 1..Len(r) : FrameOK(r[i])
  <2> TAKE i \in 1..Len(r)
  <2>1. CASE i < Len(s)
    BY <1>1, <1>3, <2>1 DEF StackOK
  <2>2. CASE i = Len(s)
    BY <1>3, <2>2
  <2> QED
    BY <1>1, <1>3, <2>1, <2>2
<1>5. \A i \in 1..Len(r) : i < Len(r) => r[i].at \in Calling
  BY <1>1, <1>3 DEF StackOK
<1> QED
  BY <1>1, <1>2, <1>3, <1>4, <1>5 DEF StackOK

(* A handler interrupts the running frame, which is in a call.             *)
LEMMA PushedStackOK ==
  ASSUME NEW s, StackOK(s), Len(s) < MaxFrames,
         Len(s) > 0 => s[Len(s)].at \in Calling,
         NEW f \in Frames, FrameOK(f)
  PROVE  StackOK(Append(s, f))
<1>1. s \in Seq(Frames) /\ Len(s) \in Nat
  BY DEF StackOK
<1>2. PICK r \in Seq(Frames) : r = Append(s, f)
  <2>1. Append(s, f) \in Seq(Frames)
    BY <1>1
  <2> QED
    BY <2>1
<1>3. /\ Len(r) = Len(s) + 1
      /\ \A i \in 1..Len(s) : r[i] = s[i]
      /\ r[Len(s) + 1] = f
  BY <1>1, <1>2
<1>4. \A i \in 1..Len(r) : FrameOK(r[i])
  <2> TAKE i \in 1..Len(r)
  <2>1. CASE i \in 1..Len(s)
    BY <1>3, <2>1 DEF StackOK
  <2>2. CASE i = Len(s) + 1
    BY <1>3, <2>2
  <2> QED
    BY <1>1, <1>3, <2>1, <2>2
<1>5. \A i \in 1..Len(r) : i < Len(r) => r[i].at \in Calling
  <2> SUFFICES ASSUME NEW i \in 1..Len(s) PROVE r[i].at \in Calling
    BY <1>1, <1>3
  <2>1. CASE i < Len(s)
    BY <1>3, <2>1 DEF StackOK
  <2>2. CASE i = Len(s)
    BY <1>1, <1>3, <2>2
  <2> QED
    BY <1>1, <2>1, <2>2
<1>6. Len(r) <= MaxFrames
  BY <1>1, <1>3, SeccompTrapAssumption
<1> QED
  BY <1>2, <1>4, <1>5, <1>6 DEF StackOK

(* The stack without its running frame.                                    *)
Popped(s) == [i \in 1..(Len(s) - 1) |-> s[i]]

LEMMA PoppedStackOK ==
  ASSUME NEW s, StackOK(s), Len(s) > 1
  PROVE  /\ StackOK(Popped(s))
         /\ Len(Popped(s)) = Len(s) - 1
         /\ \A i \in 1..(Len(s) - 1) : Popped(s)[i] = s[i]
         /\ s[Len(s) - 1].at \in Calling
<1>1. s \in Seq(Frames) /\ Len(s) \in Nat /\ Len(s) <= MaxFrames
  BY DEF StackOK
<1>2. PICK r : r = Popped(s)
  OBVIOUS
<1>3. r \in Seq(Frames) /\ Len(r) = Len(s) - 1 /\ \A i \in 1..(Len(s) - 1) : r[i] = s[i]
  BY <1>1, <1>2 DEF Popped
<1>4. \A i \in 1..Len(r) : FrameOK(r[i]) /\ r[i].at \in Calling
  BY <1>1, <1>3 DEF StackOK
<1>5. Len(r) <= MaxFrames
  BY <1>1, <1>3, SeccompTrapAssumption
<1>6. s[Len(s) - 1].at \in Calling
  BY <1>1 DEF StackOK
<1> QED
  BY <1>1, <1>2, <1>3, <1>4, <1>5, <1>6 DEF StackOK
-----------------------------------------------------------------------------
(* Frames: where the handler's program takes them.                         *)

LEMMA FirstOK ==
  ASSUME NEW f \in Frames, f.at = "start", NEW place \in First(f)
  PROVE  /\ place \in Places /\ place \notin Holding
         /\ FrameOK(At(f, place))
<1>1. /\ f.nr \in Numbers
      /\ place \in {"return", "reissue", "log", "lock"}
      /\ place = "reissue" => f.nr = "ioctl"
      /\ place = "log" => f.nr \in {"mount", "mknodat", "ioctl"}
      /\ place = "lock" =>
           f.nr \in {"openat", "faccessat", "readlinkat", "execve"} /\ f.path # "null"
  BY DEF First, Frames, Numbers
<1> QED
  BY <1>1 DEF FrameOK, At, Places, Calling, Holding, Logging

LEMMA AfterOK ==
  ASSUME NEW f \in Frames, FrameOK(f), f.at \in Calling, NEW place \in After(f)
  PROVE  /\ place \in Places
         /\ place \in Holding <=> f.at \in Holding
         /\ FrameOK(At(f, place))
<1>1. CASE f.at \in {"access", "accessHost"}
  BY <1>1 DEF After, FrameOK, At, Places, Calling, Holding
<1>2. CASE f.at = "reissue"
  BY <1>2 DEF After, FrameOK, At, Places, Calling, Holding, Logging
<1>3. CASE f.at = "log"
  <2>1. /\ place = AfterLog(f)
        /\ f.nr \in Logging
        /\ f.path = "null" => f.nr \in {"mount", "mknodat", "ioctl"}
    BY <1>3 DEF After, FrameOK
  <2>2. /\ place \in {"return", "load", "touch"}
        /\ place = "load" => f.nr = "execve"
        /\ place = "touch" => f.nr = "mknodat" /\ f.path # "null"
    BY <2>1 DEF AfterLog, Logging
  <2> QED
    BY <1>3, <2>1, <2>2 DEF FrameOK, At, Places, Calling, Holding, Logging
<1>4. CASE f.at \in {"touch", "load", "interp"}
  BY <1>4 DEF After, FrameOK, At, Places, Calling, Holding
<1> QED
  BY <1>1, <1>2, <1>3, <1>4 DEF Calling

LEMMA LockedOK ==
  ASSUME NEW f \in Frames, FrameOK(f), f.at \in {"lock", "lockRoot"}
  PROVE  LET place == CASE f.at = "lockRoot" -> "unlockRoot"
                        [] f.at = "lock" /\ f.path = "below" -> "access"
                        [] OTHER -> "unlock"
         IN /\ place \in Places
            /\ FrameOK(At(f, place))
<1>1. CASE f.at = "lockRoot"
  BY <1>1 DEF FrameOK, At, Places, Calling
<1>2. CASE f.at = "lock"
  BY <1>2 DEF FrameOK, At, Places, Calling
<1> QED
  BY <1>1, <1>2

LEMMA UnlockedOK ==
  ASSUME NEW f \in Frames, FrameOK(f), f.at \in {"unlock", "unlockRoot"}
  PROVE  LET place == CASE f.nr # "execve" -> "reissue"
                        [] f.nr = "execve" /\ f.at = "unlock" /\ rootfsOpen -> "lockRoot"
                        [] OTHER -> "log"
         IN /\ place \in Places /\ place \notin Holding
            /\ FrameOK(At(f, place))
<1>1. CASE f.nr # "execve"
  BY <1>1 DEF FrameOK, At, Places, Calling, Holding
<1>2. CASE f.nr = "execve" /\ f.at = "unlock" /\ rootfsOpen
  BY <1>2 DEF FrameOK, At, Places, Calling, Holding
<1>3. CASE f.nr = "execve" /\ ~(f.at = "unlock" /\ rootfsOpen)
  BY <1>3 DEF FrameOK, At, Places, Calling, Holding, Logging
<1> QED
  BY <1>1, <1>2, <1>3

LEMMA CallAtIsCall ==
  ASSUME NEW f \in Frames, f.at \in Calling
  PROVE  CallAt(f) \in Calls
  BY DEF CallAt, Calls, Frames, Calling, Numbers, Paths, Dirs

(* The frame of a call that is trapped: a handler at its start.            *)
LEMMA StartOK ==
  ASSUME NEW c \in Calls
  PROVE  LET f == [nr |-> c.nr, path |-> c.path, at |-> "start"]
         IN f \in Frames /\ FrameOK(f)
  BY DEF Calls, Frames, FrameOK, Places, Calling

(* The calls of a handler that are trapped are those Nests names.          *)
LEMMA TrappedCallNests ==
  ASSUME NEW f \in Frames, FrameOK(f), f.at \in Calling,
         f.at = "log" => logFile, Traps(CallAt(f))
  PROVE  Nests(f)
<1>1. CASE f.at \in {"access", "accessHost"}
  BY <1>1 DEF FrameOK, Nests
<1>2. CASE f.at = "reissue"
  <2>1. CASE f.nr \in {"ioctl", "readlinkat"}
    BY <1>2, <2>1 DEF FrameOK, Nests
  <2>2. CASE f.nr \in {"openat", "faccessat"}
    <3>1. f.path \in {"relative", "empty", "plain", "below"}
      BY <1>2, <2>2 DEF FrameOK, Frames, Paths
    <3>2. CASE f.path = "relative" /\ rootfsOpen
      BY <1>2, <2>2, <3>2 DEF Traps, CallAt, Bypassable
    <3> QED
      BY <2>2, <3>1, <3>2 DEF Nests
  <2> QED
    BY <1>2, <2>1, <2>2 DEF FrameOK
<1>3. CASE f.at = "log"
  BY <1>3 DEF FrameOK, Nests, Logging
<1>4. CASE f.at \in {"touch", "load", "interp"}
  BY <1>4 DEF FrameOK, Nests
<1> QED
  BY <1>1, <1>2, <1>3, <1>4 DEF Calling
-----------------------------------------------------------------------------
(* Steps.  What every step does to the stacks and the mutex: the running   *)
(* frame of a thread goes on, a handler interrupts it, a handler returns   *)
(* to it, the stack is left behind, or nothing of this changes.            *)

Move(t, place) ==
  /\ Depth(t) > 0
  /\ place \in Places /\ FrameOK(At(Top(t), place))
  /\ stack' = [stack EXCEPT ![t] = Moved(stack[t], place)]
  /\ \/ vfsLock' = vfsLock /\ (place \in Holding => Top(t).at \in Holding)
     \/ vfsLock = NoThread /\ vfsLock' = t
     \/ vfsLock' = NoThread /\ Top(t).at \in Holding /\ place \notin Holding

Interrupt(t, f) ==
  /\ Depth(t) < MaxFrames
  /\ Depth(t) > 0 => Top(t).at \in Calling /\ Nests(Top(t))
  /\ f \in Frames /\ FrameOK(f) /\ f.at = "start"
  /\ stack' = [stack EXCEPT ![t] = Append(stack[t], f)]
  /\ UNCHANGED vfsLock

Resume(t, place) ==
  /\ Depth(t) > 1
  /\ place \in After(stack[t][Depth(t) - 1])
  /\ stack' = [stack EXCEPT ![t] = Moved(Popped(stack[t]), place)]
  /\ UNCHANGED vfsLock

Leave(t) == stack' = [stack EXCEPT ![t] = <<>>] /\ UNCHANGED vfsLock

Steps(t) ==
  \/ \E place \in Places : Move(t, place)
  \/ \E f \in Frames : Interrupt(t, f)
  \/ \E place \in Places : Resume(t, place)
  \/ Leave(t)
  \/ UNCHANGED <<stack, vfsLock>>

LEMMA RunningFrame ==
  ASSUME TypeOK, NEW t \in Threads, Depth(t) > 0
  PROVE  /\ stack[t] \in Seq(Frames) /\ Depth(t) \in 1..Len(stack[t])
         /\ Top(t) \in Frames /\ FrameOK(Top(t))
  BY DEF TypeOK, Depth, Top

LEMMA GotoIsMoved ==
  ASSUME TypeOK, NEW t \in Threads, Depth(t) > 0, NEW place
  PROVE  Goto(t, Depth(t), place) = [stack EXCEPT ![t] = Moved(stack[t], place)]
<1>1. /\ stack \in [Threads -> Seq(Frames)]
      /\ stack[t] \in Seq(Frames) /\ Depth(t) \in 1..Len(stack[t])
      /\ stack[t][Depth(t)] \in Frames
  BY RunningFrame DEF TypeOK, Top
<1>2. [stack[t][Depth(t)] EXCEPT !.at = place] = At(stack[t][Depth(t)], place)
  BY <1>1 DEF Frames, At
<1> QED
  BY <1>1, <1>2 DEF Goto, Moved, Depth

LEMMA TrapStep ==
  ASSUME TypeOK, NEW t \in Threads, NEW c \in Calls, Trap(t, c),
         Depth(t) > 0 => Top(t).at \in Calling /\ Nests(Top(t))
  PROVE  Steps(t) /\ UNCHANGED settings /\ alive' \in BOOLEAN
<1>1. CASE Depth(t) < MaxFrames
  <2> DEFINE f == [nr |-> c.nr, path |-> c.path, at |-> "start"]
  <2>1. f \in Frames /\ FrameOK(f) /\ f.at = "start"
    BY StartOK
  <2>2. stack' = [stack EXCEPT ![t] = Append(stack[t], f)] /\ UNCHANGED <<settings, vfsLock, alive>>
    BY <1>1 DEF Trap
  <2> HIDE DEF f
  <2>3. Interrupt(t, f)
    BY <1>1, <2>1, <2>2 DEF Interrupt
  <2>4. alive' \in BOOLEAN
    BY <2>2 DEF TypeOK
  <2> QED
    BY <2>1, <2>2, <2>3, <2>4 DEF Steps
<1>2. CASE ~(Depth(t) < MaxFrames)
  <2>1. alive' = FALSE /\ UNCHANGED <<stack, settings, vfsLock>>
    BY <1>2 DEF Trap
  <2> QED
    BY <2>1 DEF Steps
<1> QED
  BY <1>1, <1>2

(* A step that moves the running frame to a place and keeps the settings.  *)
LEMMA MoveStep ==
  ASSUME TypeOK, NEW t \in Threads, Depth(t) > 0, NEW place \in Places,
         FrameOK(At(Top(t), place)),
         stack' = Goto(t, Depth(t), place), UNCHANGED <<settings, alive>>,
         \/ vfsLock' = vfsLock /\ (place \in Holding => Top(t).at \in Holding)
         \/ vfsLock = NoThread /\ vfsLock' = t
         \/ vfsLock' = NoThread /\ Top(t).at \in Holding /\ place \notin Holding
  PROVE  Steps(t) /\ UNCHANGED settings /\ alive' \in BOOLEAN
<1>1. stack' = [stack EXCEPT ![t] = Moved(stack[t], place)]
  BY GotoIsMoved
<1>2. Move(t, place)
  BY <1>1 DEF Move
<1>3. alive' \in BOOLEAN
  BY DEF TypeOK
<1> QED
  BY <1>2, <1>3 DEF Steps

LEMMA EveryStep ==
  ASSUME TypeOK, Next
  PROVE  \E t \in Threads : Steps(t) /\ UNCHANGED settings /\ alive' \in BOOLEAN
<1>1. PICK t \in Threads : GuestCall(t) \/ HandlerStep(t)
  BY DEF Next
<1>2. ASSUME Depth(t) > 0
      PROVE  Top(t) \in Frames /\ FrameOK(Top(t))
  BY <1>2, RunningFrame
<1> SUFFICES Steps(t) /\ UNCHANGED settings /\ alive' \in BOOLEAN
  OBVIOUS
<1>3. CASE GuestCall(t)
  <2>1. PICK c \in Asked : Depth(t) = 0 /\ Trap(t, c)
    BY <1>3 DEF GuestCall
  <2>2. c \in Calls
    BY <2>1, SeccompTrapAssumption
  <2> QED
    BY <2>1, <2>2, TrapStep
<1>4. CASE Dispatch(t)
  <2>1. Depth(t) > 0 /\ Top(t).at = "start"
    BY <1>4 DEF Dispatch, Runs
  <2>2. PICK place \in First(Top(t)) : stack' = Goto(t, Depth(t), place)
    BY <1>4 DEF Dispatch
  <2>3. place \in Places /\ place \notin Holding /\ FrameOK(At(Top(t), place))
    BY <1>2, <2>1, FirstOK
  <2>4. UNCHANGED <<settings, alive>> /\ vfsLock' = vfsLock
    BY <1>4 DEF Dispatch
  <2> QED
    BY <2>1, <2>2, <2>3, <2>4, MoveStep
<1>5. CASE Lock(t)
  <2> DEFINE place == CASE Top(t).at = "lockRoot" -> "unlockRoot"
                        [] Top(t).at = "lock" /\ Top(t).path = "below" -> "access"
                        [] OTHER -> "unlock"
  <2>1. Depth(t) > 0 /\ Top(t).at \in {"lock", "lockRoot"}
    BY <1>5 DEF Lock, Runs
  <2>2. place \in Places /\ FrameOK(At(Top(t), place))
    BY <1>2, <2>1, LockedOK
  <2>3. stack' = Goto(t, Depth(t), place) /\ UNCHANGED <<settings, alive>>
    BY <1>5 DEF Lock
  <2>4. vfsLock = NoThread /\ vfsLock' = t
    BY <1>5 DEF Lock
  <2> HIDE DEF place
  <2> QED
    BY <2>1, <2>2, <2>3, <2>4, MoveStep
<1>6. CASE Unlock(t)
  <2> DEFINE place == CASE Top(t).nr # "execve" -> "reissue"
                        [] Top(t).nr = "execve" /\ Top(t).at = "unlock" /\ rootfsOpen -> "lockRoot"
                        [] OTHER -> "log"
  <2>1. Depth(t) > 0 /\ Top(t).at \in {"unlock", "unlockRoot"}
    BY <1>6 DEF Unlock, Runs
  <2>2. place \in Places /\ place \notin Holding /\ FrameOK(At(Top(t), place))
    BY <1>2, <2>1, UnlockedOK
  <2>3. stack' = Goto(t, Depth(t), place) /\ UNCHANGED <<settings, alive>>
    BY <1>6 DEF Unlock
  <2>4. vfsLock' = NoThread /\ Top(t).at \in Holding
    BY <1>6, <2>1 DEF Unlock, Holding
  <2> HIDE DEF place
  <2> QED
    BY <2>1, <2>2, <2>3, <2>4, MoveStep
<1>7. CASE Issue(t)
  <2>1. Depth(t) > 0 /\ Top(t).at \in Calling /\ (Top(t).at = "log" => logFile)
    BY <1>7 DEF Issue, Runs
  <2>2. CASE Trap(t, CallAt(Top(t)))
    <3>1. CallAt(Top(t)) \in Calls
      BY <1>2, <2>1, CallAtIsCall
    <3>2. Nests(Top(t))
      BY <1>2, <2>1, <2>2, TrappedCallNests DEF Trap
    <3> QED
      BY <2>1, <2>2, <3>1, <3>2, TrapStep
  <2>3. CASE ~Trap(t, CallAt(Top(t)))
    <3>1. PICK place \in After(Top(t)) :
            stack' = Goto(t, Depth(t), place) /\ UNCHANGED <<settings, vfsLock, alive>>
      BY <1>7, <2>3 DEF Issue
    <3>2. /\ place \in Places /\ FrameOK(At(Top(t), place))
          /\ place \in Holding => Top(t).at \in Holding
      BY <1>2, <2>1, AfterOK
    <3> QED
      BY <2>1, <3>1, <3>2, MoveStep
  <2> QED
    BY <2>2, <2>3
<1>8. CASE SkipLog(t)
  <2>1. Depth(t) > 0 /\ Top(t).at = "log"
    BY <1>8 DEF SkipLog, Runs
  <2>2. AfterLog(Top(t)) \in After(Top(t)) /\ Top(t).at \in Calling
    BY <2>1 DEF After, Calling
  <2>3. /\ AfterLog(Top(t)) \in Places /\ FrameOK(At(Top(t), AfterLog(Top(t))))
        /\ AfterLog(Top(t)) \in Holding => Top(t).at \in Holding
    BY <1>2, <2>1, <2>2, AfterOK
  <2>4. stack' = Goto(t, Depth(t), AfterLog(Top(t))) /\ UNCHANGED <<settings, vfsLock, alive>>
    BY <1>8 DEF SkipLog
  <2> QED
    BY <2>1, <2>3, <2>4, MoveStep
<1>9. CASE Jump(t)
  <2>1. Leave(t) /\ UNCHANGED <<settings, alive>>
    BY <1>9 DEF Jump, Leave
  <2>2. alive' \in BOOLEAN
    BY <2>1 DEF TypeOK
  <2> QED
    BY <2>1, <2>2 DEF Steps
<1>10. CASE Return(t)
  <2>0. Depth(t) \in Nat /\ stack \in [Threads -> Seq(Frames)]
    BY DEF TypeOK, Depth
  <2>1. Depth(t) > 0 /\ UNCHANGED <<settings, vfsLock, alive>> /\ alive' \in BOOLEAN
    BY <1>10 DEF Return, Runs, TypeOK
  <2>2. CASE Depth(t) = 1
    <3>1. stack' = [stack EXCEPT ![t] = <<>>]
      BY <1>10, <2>2 DEF Return
    <3>2. Leave(t)
      BY <2>1, <3>1 DEF Leave
    <3> QED
      BY <2>1, <3>2 DEF Steps
  <2>3. CASE Depth(t) > 1
    <3> DEFINE r == [i \in 1..(Depth(t) - 1) |-> stack[t][i]]
    <3>0. r = Popped(stack[t])
      BY DEF Popped, Depth
    <3>a. Depth(t) # 1
      BY <2>0, <2>3
    <3>1. PICK place \in After(r[Depth(t) - 1]) :
            stack' = [stack EXCEPT ![t] = [r EXCEPT ![Depth(t) - 1].at = place]]
      BY <1>10, <3>a, Zenon DEF Return
    <3> HIDE DEF r
    <3>2. StackOK(stack[t])
      BY TypeOKByStack
    <3>3. /\ StackOK(r) /\ Len(r) = Depth(t) - 1
          /\ r[Depth(t) - 1] = stack[t][Depth(t) - 1]
          /\ r[Depth(t) - 1].at \in Calling
      BY <2>0, <2>3, <3>0, <3>2, PoppedStackOK DEF Depth
    <3>4. /\ r[Depth(t) - 1] \in Frames /\ FrameOK(r[Depth(t) - 1])
          /\ r \in Seq(Frames) /\ Depth(t) - 1 \in 1..Len(r)
      BY <2>0, <2>3, <3>3 DEF StackOK
    <3>5. place \in Places
      BY <3>1, <3>3, <3>4, AfterOK
    <3>6. [r[Depth(t) - 1] EXCEPT !.at = place] = At(r[Depth(t) - 1], place)
      BY <3>4 DEF Frames, At
    <3>7. [r EXCEPT ![Depth(t) - 1].at = place] = Moved(r, place)
      BY <3>3, <3>4, <3>6 DEF Moved
    <3>8. Resume(t, place)
      BY <2>1, <2>3, <3>0, <3>1, <3>3, <3>7 DEF Resume
    <3> QED
      BY <2>1, <3>5, <3>8 DEF Steps
  <2> QED
    BY <2>0, <2>1, <2>2, <2>3
<1> QED
  BY <1>1, <1>3, <1>4, <1>5, <1>6, <1>7, <1>8, <1>9, <1>10 DEF HandlerStep
-----------------------------------------------------------------------------
(* The type invariant.                                                     *)

(* What becomes of the stack of the thread that takes a step.              *)
LEMMA StackStep ==
  ASSUME TypeOK, NEW t \in Threads, Steps(t)
  PROVE  /\ \E r : StackOK(r) /\ stack' = [stack EXCEPT ![t] = r]
         /\ vfsLock' \in Threads \cup {NoThread}
<1>1. /\ stack \in [Threads -> Seq(Frames)] /\ StackOK(stack[t])
      /\ vfsLock \in Threads \cup {NoThread}
  BY TypeOKByStack DEF Settings
<1>2. ASSUME NEW place \in Places, Move(t, place)
      PROVE  /\ \E r : StackOK(r) /\ stack' = [stack EXCEPT ![t] = r]
             /\ vfsLock' \in Threads \cup {NoThread}
  <2>1. StackOK(Moved(stack[t], place))
    BY <1>1, <1>2, MovedStackOK DEF Move, Depth, Top
  <2>2. vfsLock' \in Threads \cup {NoThread}
    BY <1>1, <1>2 DEF Move
  <2> QED
    BY <1>2, <2>1, <2>2 DEF Move
<1>3. ASSUME NEW f \in Frames, Interrupt(t, f)
      PROVE  /\ \E r : StackOK(r) /\ stack' = [stack EXCEPT ![t] = r]
             /\ vfsLock' \in Threads \cup {NoThread}
  <2>1. StackOK(Append(stack[t], f))
    BY <1>1, <1>3, PushedStackOK DEF Interrupt, Depth, Top
  <2> QED
    BY <1>1, <1>3, <2>1 DEF Interrupt
<1>4. ASSUME NEW place \in Places, Resume(t, place)
      PROVE  /\ \E r : StackOK(r) /\ stack' = [stack EXCEPT ![t] = r]
             /\ vfsLock' \in Threads \cup {NoThread}
  <2> DEFINE s == stack[t]
             f == s[Len(s) - 1]
  <2>1. /\ StackOK(Popped(s)) /\ Len(Popped(s)) = Len(s) - 1 /\ Len(s) > 1
        /\ Popped(s)[Len(s) - 1] = f /\ f.at \in Calling
        /\ s \in Seq(Frames) /\ Len(s) - 1 \in 1..Len(s)
    <3>1. Len(s) > 1 /\ s \in Seq(Frames) /\ Len(s) \in Nat
      BY <1>1, <1>4 DEF Resume, Depth
    <3> QED
      BY <1>1, <3>1, PoppedStackOK
  <2>2. f \in Frames /\ FrameOK(f)
    BY <1>1, <2>1 DEF StackOK
  <2>3. place \in After(f)
    BY <1>4 DEF Resume, Depth
  <2>4. FrameOK(At(f, place))
    BY <2>1, <2>2, <2>3, AfterOK
  <2> HIDE DEF f, s
  <2>5. StackOK(Moved(Popped(s), place))
    BY <2>1, <2>4, MovedStackOK
  <2>6. stack' = [stack EXCEPT ![t] = Moved(Popped(s), place)] /\ UNCHANGED vfsLock
    BY <1>4 DEF Resume, s
  <2> QED
    BY <1>1, <2>5, <2>6
<1>5. ASSUME Leave(t)
      PROVE  /\ \E r : StackOK(r) /\ stack' = [stack EXCEPT ![t] = r]
             /\ vfsLock' \in Threads \cup {NoThread}
  <2>1. StackOK(<<>>)
    BY SeccompTrapAssumption DEF StackOK
  <2> QED
    BY <1>1, <1>5, <2>1 DEF Leave
<1>6. ASSUME UNCHANGED <<stack, vfsLock>>
      PROVE  /\ \E r : StackOK(r) /\ stack' = [stack EXCEPT ![t] = r]
             /\ vfsLock' \in Threads \cup {NoThread}
  <2>1. stack' = [stack EXCEPT ![t] = stack[t]]
    BY <1>1, <1>6
  <2> QED
    BY <1>1, <1>6, <2>1
<1> QED
  BY <1>2, <1>3, <1>4, <1>5, <1>6 DEF Steps

LEMMA InitTypeOK == Init => TypeOK
  BY SeccompTrapAssumption DEF Init, TypeOK, Depth

LEMMA NextTypeOK == TypeOK /\ [Next]_vars => TypeOK'
<1> SUFFICES ASSUME TypeOK, [Next]_vars PROVE TypeOK'
  OBVIOUS
<1>1. CASE Next
  <2>1. PICK t \in Threads : Steps(t) /\ UNCHANGED settings /\ alive' \in BOOLEAN
    BY <1>1, EveryStep
  <2>2. PICK r : StackOK(r) /\ stack' = [stack EXCEPT ![t] = r]
    BY <2>1, StackStep
  <2>3. vfsLock' \in Threads \cup {NoThread}
    BY <2>1, StackStep
  <2>4. stack \in [Threads -> Seq(Frames)] /\ r \in Seq(Frames)
    BY <2>2 DEF TypeOK, StackOK
  <2>5. stack' \in [Threads -> Seq(Frames)]
    BY <2>2, <2>4
  <2>6. ASSUME NEW u \in Threads PROVE StackOK(stack'[u])
    <3>1. StackOK(stack[u])
      BY TypeOKByStack
    <3> QED
      BY <2>2, <2>4, <3>1
  <2>7. rootfsOpen' \in BOOLEAN /\ logFile' \in BOOLEAN
    BY <2>1 DEF TypeOK, settings
  <2> QED
    BY <2>1, <2>3, <2>5, <2>6, <2>7 DEF TypeOK, StackOK, Depth
<1>2. CASE UNCHANGED vars
  BY <1>2 DEF vars, settings, TypeOK, Depth
<1> QED
  BY <1>1, <1>2

(* TypeOK holds of every process: the handler's program keeps each call at *)
(* the places meant for it (sigsysHandler), and only calls are interrupted.*)
THEOREM TypeCorrect == Spec => []TypeOK
  BY InitTypeOK, NextTypeOK, PTL DEF Spec
-----------------------------------------------------------------------------
(* The mutex of the VFS router.                                            *)

(* The frames of a stack that are inside resolvePath.                      *)
Inside(s) == {i \in 1..Len(s) : s[i].at \in Holding}

LEMMA MovedInside ==
  ASSUME NEW s \in Seq(Frames), Len(s) > 0, NEW place \in Places
  PROVE  /\ Inside(Moved(s, place)) \subseteq Inside(s) \cup {Len(s)}
         /\ place \notin Holding => Inside(Moved(s, place)) = Inside(s) \ {Len(s)}
         /\ Len(s) \in Inside(s) <=> s[Len(s)].at \in Holding
<1>1. PICK r \in Seq(Frames) : r = Moved(s, place)
  BY MovedStack
<1>2. /\ Len(r) = Len(s)
      /\ \A i \in 1..Len(s) : i < Len(s) => r[i] = s[i]
      /\ r[Len(s)] = At(s[Len(s)], place)
  BY <1>1, MovedStack
<1>3. r[Len(s)].at = place
  BY <1>2 DEF At
<1>4. Len(s) \in Nat
  OBVIOUS
<1> HIDE DEF Moved
<1>5. Inside(r) \subseteq Inside(s) \cup {Len(s)}
  BY <1>2, <1>4 DEF Inside
<1>6. place \notin Holding => Inside(r) = Inside(s) \ {Len(s)}
  BY <1>2, <1>3, <1>4 DEF Inside
<1>7. Len(s) \in Inside(s) <=> s[Len(s)].at \in Holding
  BY <1>4 DEF Inside
<1> QED
  BY <1>1, <1>5, <1>6, <1>7

LEMMA ExclusiveByInside ==
  ResolveIsExclusive <=>
    \A t \in Threads : \A i \in Inside(stack[t]) :
      vfsLock = t /\ Inside(stack[t]) = {i}
  BY DEF ResolveIsExclusive, Inside, Depth

(* A step of a thread keeps its own frames out of the other's way, and     *)
(* touches no other thread's stack.                                        *)
LEMMA InsideStep ==
  ASSUME TypeOK, ResolveIsExclusive, NEW t \in Threads, Steps(t)
  PROVE  \A u \in Threads : \A i \in Inside(stack'[u]) :
           vfsLock' = u /\ Inside(stack'[u]) = {i}
<1> DEFINE s == stack[t]
<1>1. /\ stack \in [Threads -> Seq(Frames)] /\ s \in Seq(Frames) /\ StackOK(s)
      /\ Len(s) \in Nat /\ Depth(t) = Len(s) /\ Top(t) = s[Len(s)]
  BY TypeOKByStack DEF Depth, Top, TypeOK
<1>2. \A u \in Threads : \A i \in Inside(stack[u]) :
        vfsLock = u /\ Inside(stack[u]) = {i}
  BY ExclusiveByInside
<1>3. NoThread \notin Threads
  BY SeccompTrapAssumption
<1>4. ASSUME NEW place \in Places, Move(t, place)
      PROVE  \A u \in Threads : \A i \in Inside(stack'[u]) :
               vfsLock' = u /\ Inside(stack'[u]) = {i}
  <2> DEFINE r == Moved(s, place)
  <2>1. Len(s) > 0 /\ stack' = [stack EXCEPT ![t] = r]
    BY <1>1, <1>4 DEF Move
  <2>2. /\ Inside(r) \subseteq Inside(s) \cup {Len(s)}
        /\ place \notin Holding => Inside(r) = Inside(s) \ {Len(s)}
        /\ Len(s) \in Inside(s) <=> Top(t).at \in Holding
    BY <1>1, <2>1, MovedInside
  <2>3. stack'[t] = r /\ \A u \in Threads \ {t} : stack'[u] = stack[u]
    BY <1>1, <2>1
  <2> HIDE DEF r, s
  <2>4. CASE vfsLock' = vfsLock /\ (place \in Holding => Top(t).at \in Holding)
    <3>1. Inside(r) \subseteq Inside(s)
      BY <2>2, <2>4
    <3> QED
      BY <1>2, <2>3, <2>4, <3>1 DEF s
  <2>5. CASE vfsLock = NoThread /\ vfsLock' = t
    <3>1. \A u \in Threads : Inside(stack[u]) = {}
      BY <1>2, <1>3, <2>5
    <3>2. Inside(r) \subseteq {Len(s)}
      BY <2>2, <3>1 DEF s
    <3> QED
      BY <2>3, <2>5, <3>1, <3>2
  <2>6. CASE vfsLock' = NoThread /\ Top(t).at \in Holding /\ place \notin Holding
    <3>1. vfsLock = t /\ Inside(s) = {Len(s)}
      BY <1>2, <2>2, <2>6 DEF s
    <3>2. Inside(r) = {} /\ \A u \in Threads \ {t} : Inside(stack[u]) = {}
      BY <1>2, <2>2, <2>6, <3>1
    <3> QED
      BY <2>3, <3>2
  <2> QED
    BY <1>4, <2>4, <2>5, <2>6 DEF Move
<1>5. ASSUME NEW f \in Frames, Interrupt(t, f)
      PROVE  \A u \in Threads : \A i \in Inside(stack'[u]) :
               vfsLock' = u /\ Inside(stack'[u]) = {i}
  <2>1. PICK r \in Seq(Frames) : r = Append(s, f)
    <3>1. Append(s, f) \in Seq(Frames)
      BY <1>1
    <3> QED
      BY <3>1
  <2>2. /\ Len(r) = Len(s) + 1 /\ r[Len(s) + 1] = f
        /\ \A i \in 1..Len(s) : r[i] = s[i]
    BY <1>1, <2>1
  <2>3. f.at \notin Holding
    BY <1>5 DEF Interrupt, Holding
  <2>4. Inside(r) = Inside(s)
    BY <1>1, <2>2, <2>3 DEF Inside
  <2>5. stack' = [stack EXCEPT ![t] = r] /\ vfsLock' = vfsLock
    BY <1>5, <2>1 DEF Interrupt
  <2> QED
    BY <1>1, <1>2, <2>4, <2>5
<1>6. ASSUME NEW place \in Places, Resume(t, place)
      PROVE  \A u \in Threads : \A i \in Inside(stack'[u]) :
               vfsLock' = u /\ Inside(stack'[u]) = {i}
  <2> DEFINE q == Popped(s)
             r == Moved(q, place)
  <2>1. Len(s) > 1 /\ stack' = [stack EXCEPT ![t] = r] /\ vfsLock' = vfsLock
    BY <1>1, <1>6 DEF Resume
  <2>2. /\ StackOK(q) /\ Len(q) = Len(s) - 1 /\ q \in Seq(Frames)
        /\ \A i \in 1..(Len(s) - 1) : q[i] = s[i]
        /\ q[Len(q)] = s[Len(s) - 1] /\ q[Len(q)].at \in Calling
    <3>1. /\ StackOK(q) /\ Len(q) = Len(s) - 1 /\ s[Len(s) - 1].at \in Calling
          /\ \A i \in 1..(Len(s) - 1) : q[i] = s[i]
      BY <1>1, <2>1, PoppedStackOK
    <3>2. q \in Seq(Frames)
      BY <3>1 DEF StackOK
    <3> HIDE DEF q
    <3> QED
      BY <1>1, <2>1, <3>1, <3>2
  <2>3. place \in After(q[Len(q)])
    BY <1>1, <1>6, <2>2 DEF Resume
  <2>4. q[Len(q)] \in Frames /\ FrameOK(q[Len(q)]) /\ Len(q) > 0
    <3> HIDE DEF q
    <3> QED
      BY <1>1, <2>1, <2>2 DEF StackOK
  <2>5. place \in Holding <=> q[Len(q)].at \in Holding
    BY <2>2, <2>3, <2>4, AfterOK
  <2>6. /\ Inside(r) \subseteq Inside(q) \cup {Len(q)}
        /\ place \notin Holding => Inside(r) = Inside(q) \ {Len(q)}
        /\ Len(q) \in Inside(q) <=> q[Len(q)].at \in Holding
    BY <2>2, <2>4, MovedInside
  <2>7. Inside(q) \subseteq Inside(s)
    <3> HIDE DEF q
    <3> QED
      BY <1>1, <2>1, <2>2 DEF Inside
  <2>8. stack'[t] = r /\ \A u \in Threads \ {t} : stack'[u] = stack[u]
    BY <1>1, <2>1
  <2> HIDE DEF r, q, s
  <2>9. Inside(r) \subseteq Inside(s)
    BY <2>5, <2>6, <2>7
  <2> QED
    BY <1>2, <2>1, <2>8, <2>9 DEF s
<1>7. ASSUME Leave(t)
      PROVE  \A u \in Threads : \A i \in Inside(stack'[u]) :
               vfsLock' = u /\ Inside(stack'[u]) = {i}
  <2>1. Inside(<<>>) = {}
    BY DEF Inside
  <2> QED
    BY <1>1, <1>2, <1>7, <2>1 DEF Leave
<1>8. ASSUME UNCHANGED <<stack, vfsLock>>
      PROVE  \A u \in Threads : \A i \in Inside(stack'[u]) :
               vfsLock' = u /\ Inside(stack'[u]) = {i}
  BY <1>2, <1>8
<1> QED
  BY <1>4, <1>5, <1>6, <1>7, <1>8 DEF Steps

LEMMA InitExclusive == Init => ResolveIsExclusive
  BY DEF Init, ResolveIsExclusive, Depth

LEMMA NextExclusive == TypeOK /\ ResolveIsExclusive /\ [Next]_vars => ResolveIsExclusive'
<1> SUFFICES ASSUME TypeOK, ResolveIsExclusive, [Next]_vars PROVE ResolveIsExclusive'
  OBVIOUS
<1>1. CASE Next
  <2>1. PICK t \in Threads : Steps(t)
    BY <1>1, EveryStep
  <2>2. \A u \in Threads : \A i \in Inside(stack'[u]) :
          vfsLock' = u /\ Inside(stack'[u]) = {i}
    BY <2>1, InsideStep
  <2> QED
    BY <2>2 DEF ResolveIsExclusive, Inside, Depth
<1>2. CASE UNCHANGED vars
  BY <1>2 DEF vars, ResolveIsExclusive, Depth
<1> QED
  BY <1>1, <1>2

(* At most one frame of the process is inside resolvePath, and the mutex   *)
(* is its thread's, however handlers interrupt handlers.                   *)
THEOREM ExclusiveCorrect == Spec => []ResolveIsExclusive
<1>1. Init => TypeOK /\ ResolveIsExclusive
  BY InitTypeOK, InitExclusive
<1>2. TypeOK /\ ResolveIsExclusive /\ [Next]_vars => TypeOK' /\ ResolveIsExclusive'
  BY NextTypeOK, NextExclusive
<1> QED
  BY <1>1, <1>2, PTL DEF Spec
-----------------------------------------------------------------------------
(* Recursive traps.                                                        *)

(* A stack whose first call explains the second.                           *)
Caused(s) == Len(s) > 1 => Nests(s[1])

LEMMA CausedStep ==
  ASSUME TypeOK, RecursionHasCause, NEW t \in Threads, Steps(t)
  PROVE  \A u \in Threads : Caused(stack'[u])
<1> DEFINE s == stack[t]
<1>1. /\ stack \in [Threads -> Seq(Frames)] /\ s \in Seq(Frames) /\ StackOK(s)
      /\ Len(s) \in Nat /\ Depth(t) = Len(s) /\ Top(t) = s[Len(s)]
  BY TypeOKByStack DEF Depth, Top, TypeOK
<1>2. \A u \in Threads : Caused(stack[u])
  BY DEF RecursionHasCause, Caused, Depth
<1>3. ASSUME NEW r, Caused(r), stack' = [stack EXCEPT ![t] = r]
      PROVE  \A u \in Threads : Caused(stack'[u])
  BY <1>1, <1>2, <1>3
<1>4. ASSUME NEW place \in Places, Move(t, place)
      PROVE  \A u \in Threads : Caused(stack'[u])
  <2>1. Len(s) > 0 /\ stack' = [stack EXCEPT ![t] = Moved(s, place)]
    BY <1>1, <1>4 DEF Move
  <2>2. PICK r \in Seq(Frames) : r = Moved(s, place)
    BY <1>1, <2>1, MovedStack
  <2>3. Len(r) = Len(s) /\ \A i \in 1..Len(s) : i < Len(s) => r[i] = s[i]
    BY <1>1, <2>1, <2>2, MovedStack
  <2> HIDE DEF s
  <2>4. Caused(r)
    BY <1>1, <1>2, <2>3 DEF Caused, s
  <2> QED
    BY <1>3, <2>1, <2>2, <2>4
<1>5. ASSUME NEW f \in Frames, Interrupt(t, f)
      PROVE  \A u \in Threads : Caused(stack'[u])
  <2>1. PICK r \in Seq(Frames) : r = Append(s, f)
    <3>1. Append(s, f) \in Seq(Frames)
      BY <1>1
    <3> QED
      BY <3>1
  <2>2. Len(r) = Len(s) + 1 /\ \A i \in 1..Len(s) : r[i] = s[i]
    BY <1>1, <2>1
  <2>3. Len(s) > 0 => Nests(s[Len(s)])
    BY <1>1, <1>5 DEF Interrupt
  <2>4. stack' = [stack EXCEPT ![t] = r]
    BY <1>5, <2>1 DEF Interrupt
  <2> HIDE DEF s
  <2>5. Caused(r)
    BY <1>1, <1>2, <2>2, <2>3 DEF Caused, s
  <2> QED
    BY <1>3, <2>4, <2>5
<1>6. ASSUME NEW place \in Places, Resume(t, place)
      PROVE  \A u \in Threads : Caused(stack'[u])
  <2>1. Len(s) > 1 /\ stack' = [stack EXCEPT ![t] = Moved(Popped(s), place)]
    BY <1>1, <1>6 DEF Resume
  <2>2. PICK q : q = Popped(s)
    OBVIOUS
  <2>3. StackOK(q) /\ Len(q) = Len(s) - 1 /\ \A i \in 1..(Len(s) - 1) : q[i] = s[i]
    BY <1>1, <2>1, <2>2, PoppedStackOK
  <2>4. q \in Seq(Frames) /\ Len(q) > 0
    BY <1>1, <2>1, <2>3 DEF StackOK
  <2>5. PICK r \in Seq(Frames) : r = Moved(q, place)
    BY <2>4, MovedStack
  <2>6. Len(r) = Len(q) /\ \A i \in 1..Len(q) : i < Len(q) => r[i] = q[i]
    BY <2>4, <2>5, MovedStack
  <2> HIDE DEF s
  <2>7. Caused(r)
    BY <1>1, <1>2, <2>1, <2>3, <2>6 DEF Caused, s
  <2> QED
    BY <1>3, <2>1, <2>2, <2>5, <2>7
<1>7. ASSUME Leave(t)
      PROVE  \A u \in Threads : Caused(stack'[u])
  <2>1. Caused(<<>>)
    BY DEF Caused
  <2> QED
    BY <1>3, <1>7, <2>1 DEF Leave
<1>8. ASSUME UNCHANGED <<stack, vfsLock>>
      PROVE  \A u \in Threads : Caused(stack'[u])
  BY <1>2, <1>8
<1> QED
  BY <1>4, <1>5, <1>6, <1>7, <1>8 DEF Steps

LEMMA NextCaused == TypeOK /\ RecursionHasCause /\ [Next]_vars => RecursionHasCause'
<1> SUFFICES ASSUME TypeOK, RecursionHasCause, [Next]_vars PROVE RecursionHasCause'
  OBVIOUS
<1>1. CASE Next
  <2>1. PICK t \in Threads : Steps(t) /\ UNCHANGED settings
    BY <1>1, EveryStep
  <2>2. \A u \in Threads : Caused(stack'[u])
    BY <2>1, CausedStep
  <2> QED
    BY <2>1, <2>2 DEF RecursionHasCause, Caused, Nests, Depth, settings
<1>2. CASE UNCHANGED vars
  BY <1>2 DEF vars, settings, RecursionHasCause, Nests, Depth
<1> QED
  BY <1>1, <1>2

(* Whatever the guest calls and however deep its handlers nest, the call   *)
(* at the bottom is one of those the token does not help.                  *)
THEOREM RecursionCorrect == Spec => []RecursionHasCause
<1>1. Init => TypeOK /\ RecursionHasCause
  <2>1. Init => RecursionHasCause
    BY DEF Init, RecursionHasCause, Depth
  <2> QED
    BY <2>1, InitTypeOK
<1>2. TypeOK /\ RecursionHasCause /\ [Next]_vars => TypeOK' /\ RecursionHasCause'
  BY NextTypeOK, NextCaused
<1> QED
  BY <1>1, <1>2, PTL DEF Spec
=============================================================================
