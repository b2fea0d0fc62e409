---------------------------- MODULE SeccompTrap ----------------------------
(***************************************************************************)
(* The system calls of a guest process (core/seccomp_trap.cpp, aarch64).   *)
(*                                                                         *)
(* A seccomp filter traps some calls of the process; the kernel then runs  *)
(* sigsysHandler on the stack of the calling thread.  The handler resolves *)
(* the path in the VFS router and issues the call again.  Its own calls    *)
(* pass the same filter, and the signal is not blocked while it runs       *)
(* (SA_NODEFER), so a handler may be interrupted by a handler: each thread *)
(* has a stack of handler frames, the running one last.                    *)
(*                                                                         *)
(* A path is reduced to what becomes of it: see Paths.  Kernel and loader  *)
(* results are nondeterministic.  The code of the bootstrap that runs      *)
(* after installFilter is subject to the filter like the guest's.          *)
(***************************************************************************)
EXTENDS Naturals, Sequences

CONSTANTS Threads,   (* the threads of the guest process              *)
          NoThread,  (* no thread                                     *)
          MaxFrames, (* the handler frames a thread's stack holds     *)
          Asked      (* the calls the guest's code makes              *)

(* The calls the filter knows.  "faccessat" stands for newfstatat too,     *)
(* "mount" for umount2, pivot_root and chroot too, "execve" for execveat   *)
(* too and "setuid" for all the calls that are answered with 0 right away. *)
Numbers == {"openat", "faccessat", "readlinkat", "execve", "ioctl", "mount",
            "mknodat", "setuid"}

(* "relative": begins with something else than a slash.  "empty": the      *)
(* empty string.  "below": below a mount point, so that resolvePath looks  *)
(* for the file.  "plain": any other absolute path, those resolvePath      *)
(* returns among them.  "null": no path.                                   *)
Paths == {"relative", "empty", "plain", "below", "null"}

(* The first argument: the current directory, or the bypass token, which   *)
(* is the descriptor of the guest's root directory.                        *)
Dirs == {"cwd", "rootfs"}

Calls == [nr : Numbers, path : Paths, dir : Dirs]

ASSUME SeccompTrapAssumption ==
  /\ NoThread \notin Threads
  /\ MaxFrames \in Nat \ {0}
  /\ Asked \subseteq {c \in Calls : c.dir = "cwd"}

VARIABLES
  rootfsOpen, (* the guest's root directory could be opened: rootfsDfd_ >= 0  *)
  logFile,    (* NativeLogger has a file to write to                          *)
  vfsLock,    (* the thread that holds VfsRouter::mutex_                      *)
  stack,      (* the handler frames of each thread                            *)
  alive       (* the process has not run out of stack                         *)

settings == <<rootfsOpen, logFile>>
vars == <<settings, vfsLock, stack, alive>>

-----------------------------------------------------------------------------
(* The filter.                                                             *)

Bypassable == {"openat", "faccessat"}

(* Mutation: the filter compares with SECCOMP_BYPASS_MAGIC always.         *)
TrapsWithoutToken(c) == c.nr \in Numbers

(* The filter lets openat, faccessat and newfstatat pass when their first  *)
(* argument is the token; without a root directory the token is a number   *)
(* that nothing passes.  The other calls it knows are trapped always.      *)
Traps(c) == ~(c.nr \in Bypassable /\ c.dir = "rootfs" /\ rootfsOpen)

-----------------------------------------------------------------------------
(* The handler's program: a frame is a call and a place.                   *)

Calling == {"access", "accessHost", "reissue", "log", "touch", "load", "interp"}
Places  == Calling \cup {"start", "lock", "lockRoot", "unlock", "unlockRoot",
                         "jump", "return"}
Frames  == [nr : Numbers, path : Paths, at : Places]

Logging == {"openat", "execve", "mount", "mknodat", "ioctl"}

(* The cases of the switch.  An ioctl on a descriptor VirtualBinder knows  *)
(* is answered by it and logged, any other is issued again.                *)
First(f) ==
  CASE f.nr = "setuid"                              -> {"return"}
    [] f.nr = "ioctl"                               -> {"reissue", "log"}
    [] f.nr \in {"mount", "mknodat"}                -> {"log"}
    [] f.nr \in {"openat", "faccessat", "readlinkat", "execve"} ->
         {IF f.path = "null" THEN "return" ELSE "lock"}

(* The call a frame makes at a place.  A resolved path that is relative is *)
(* looked up in the root directory, if that is open; an absolute one keeps *)
(* its kind, for it is trapped either way, and so does the empty one,      *)
(* which resolvePath returns as it is and which is not given the token.    *)
CallAt(f) ==
  CASE f.at = "access"            -> [nr |-> "faccessat", path |-> "plain", dir |-> "cwd"]
    [] f.at = "accessHost"        -> [nr |-> "faccessat", path |-> f.path, dir |-> "cwd"]
    [] f.at = "reissue"           ->
         [nr |-> f.nr, path |-> f.path,
          dir |-> IF f.path = "relative" /\ rootfsOpen THEN "rootfs" ELSE "cwd"]
    [] f.at = "log"               -> [nr |-> "openat", path |-> "plain", dir |-> "cwd"]
    [] f.at \in {"touch", "load"} -> [nr |-> "openat", path |-> f.path, dir |-> "cwd"]
    [] f.at = "interp"            -> [nr |-> "faccessat", path |-> "plain", dir |-> "cwd"]

AfterLog(f) ==
  CASE f.nr = "openat"  -> "return"
    [] f.nr = "execve"  -> "load"
    [] f.nr \in {"mount", "ioctl"} -> "return"
    [] f.nr = "mknodat" -> IF f.path = "null" THEN "return" ELSE "touch"

(* Where a frame may go on after the call it made.  The file is there or   *)
(* not; the binary needs an interpreter, does not, or cannot be loaded.    *)
After(f) ==
  CASE f.at = "access"     -> {"unlock", "accessHost"}
    [] f.at = "accessHost" -> {"unlock"}
    [] f.at = "reissue"    -> {IF f.nr = "openat" THEN "log" ELSE "return"}
    [] f.at = "log"        -> {AfterLog(f)}
    [] f.at = "touch"      -> {"return"}
    [] f.at = "load"       -> {"interp", "jump", "return"}
    [] f.at = "interp"     -> {"jump", "return"}

-----------------------------------------------------------------------------

Depth(t)  == Len(stack[t])
Top(t)    == stack[t][Depth(t)]
Runs(t)   == alive /\ Depth(t) > 0
(* The frame at index i of the stack of t goes on at a place.              *)
Goto(t, i, place) == [stack EXCEPT ![t][i].at = place]

Init ==
  /\ rootfsOpen \in BOOLEAN
  /\ logFile \in BOOLEAN
  /\ vfsLock = NoThread
  /\ stack = [t \in Threads |-> <<>>]
  /\ alive = TRUE

(* A trapped call: the kernel puts a handler frame on the thread's stack,  *)
(* or ends the process when there is no room.                              *)
Trap(t, c) ==
  /\ Traps(c)
  /\ IF Depth(t) < MaxFrames
     THEN /\ stack' = [stack EXCEPT ![t] = Append(@, [nr |-> c.nr, path |-> c.path, at |-> "start"])]
          /\ UNCHANGED alive
     ELSE alive' = FALSE /\ UNCHANGED stack
  /\ UNCHANGED <<settings, vfsLock>>

(* The guest makes a call that is trapped; the others change nothing here. *)
GuestCall(t) ==
  /\ alive /\ Depth(t) = 0
  /\ \E c \in Asked : Trap(t, c)

Dispatch(t) ==
  /\ Runs(t) /\ Top(t).at = "start"
  /\ \E place \in First(Top(t)) : stack' = Goto(t, Depth(t), place)
  /\ UNCHANGED <<settings, vfsLock, alive>>

(* Mutation: the mutex is not waited for.                                  *)
LockUnchecked(t) ==
  /\ Runs(t) /\ Top(t).at \in {"lock", "lockRoot"}
  /\ vfsLock' = t
  /\ stack' = Goto(t, Depth(t),
                   CASE Top(t).at = "lockRoot" -> "unlockRoot"
                     [] Top(t).at = "lock" /\ Top(t).path = "below" -> "access"
                     [] OTHER -> "unlock")
  /\ UNCHANGED <<settings, alive>>

(* resolvePath takes the mutex; the frame's own path only may need a look  *)
(* at the file system, the "/" that execve resolves as well does not.      *)
Lock(t) ==
  /\ Runs(t) /\ Top(t).at \in {"lock", "lockRoot"}
  /\ vfsLock = NoThread
  /\ vfsLock' = t
  /\ stack' = Goto(t, Depth(t),
                   CASE Top(t).at = "lockRoot" -> "unlockRoot"
                     [] Top(t).at = "lock" /\ Top(t).path = "below" -> "access"
                     [] OTHER -> "unlock")
  /\ UNCHANGED <<settings, alive>>

(* Mutation: the mutex is kept.                                            *)
UnlockForgotten(t) ==
  /\ Runs(t) /\ Top(t).at \in {"unlock", "unlockRoot"}
  /\ stack' = Goto(t, Depth(t),
                   CASE Top(t).nr # "execve" -> "reissue"
                     [] Top(t).nr = "execve" /\ Top(t).at = "unlock" /\ rootfsOpen -> "lockRoot"
                     [] OTHER -> "log")
  /\ UNCHANGED <<settings, vfsLock, alive>>

(* resolvePath returns.                                                    *)
Unlock(t) ==
  /\ Runs(t) /\ Top(t).at \in {"unlock", "unlockRoot"}
  /\ vfsLock' = NoThread
  /\ stack' = Goto(t, Depth(t),
                   CASE Top(t).nr # "execve" -> "reissue"
                     [] Top(t).nr = "execve" /\ Top(t).at = "unlock" /\ rootfsOpen -> "lockRoot"
                     [] OTHER -> "log")
  /\ UNCHANGED <<settings, alive>>

(* The handler's call is trapped, or the kernel executes it.               *)
Issue(t) ==
  /\ Runs(t) /\ Top(t).at \in Calling
  /\ Top(t).at = "log" => logFile
  /\ \/ Trap(t, CallAt(Top(t)))
     \/ /\ ~Traps(CallAt(Top(t)))
        /\ \E place \in After(Top(t)) : stack' = Goto(t, Depth(t), place)
        /\ UNCHANGED <<settings, vfsLock, alive>>

(* Without a log file, a log line goes to the system log only.             *)
SkipLog(t) ==
  /\ Runs(t) /\ Top(t).at = "log" /\ ~logFile
  /\ stack' = Goto(t, Depth(t), AfterLog(Top(t)))
  /\ UNCHANGED <<settings, vfsLock, alive>>

(* ElfLoader switches to a new stack and enters the new program.           *)
Jump(t) ==
  /\ Runs(t) /\ Top(t).at = "jump"
  /\ stack' = [stack EXCEPT ![t] = <<>>]
  /\ UNCHANGED <<settings, vfsLock, alive>>

(* The handler returns, to the guest or to the call that was trapped.      *)
Return(t) ==
  /\ Runs(t) /\ Top(t).at = "return"
  /\ LET n == Depth(t)
         rest == [i \in 1..(n - 1) |-> stack[t][i]]
     IN IF n = 1
        THEN stack' = [stack EXCEPT ![t] = <<>>]
        ELSE \E place \in After(rest[n - 1]) :
               stack' = [stack EXCEPT ![t] = [rest EXCEPT ![n - 1].at = place]]
  /\ UNCHANGED <<settings, vfsLock, alive>>

HandlerStep(t) ==
  Dispatch(t) \/ Lock(t) \/ Unlock(t) \/ Issue(t) \/ SkipLog(t) \/ Jump(t) \/ Return(t)

Next == \E t \in Threads : GuestCall(t) \/ HandlerStep(t)

Spec == Init /\ [][Next]_vars

(* Every thread runs on; a thread that waits for the mutex gets it if it   *)
(* is free again and again.  The guest need not make calls.                *)
Fairness == \A t \in Threads : WF_vars(HandlerStep(t)) /\ SF_vars(Lock(t))

FairSpec == Spec /\ Fairness
-----------------------------------------------------------------------------
(* Properties.                                                             *)

Holding == {"access", "accessHost", "unlock", "unlockRoot"}

(* The places a frame can be at, given its call.                           *)
FrameOK(f) ==
  /\ f.at \in {"lock", "unlock"} =>
       f.nr \in {"openat", "faccessat", "readlinkat", "execve"} /\ f.path # "null"
  /\ f.at \in {"access", "accessHost"} =>
       f.nr \in {"openat", "faccessat", "readlinkat", "execve"} /\ f.path = "below"
  /\ f.at \in {"lockRoot", "unlockRoot", "load", "interp", "jump"} =>
       f.nr = "execve" /\ f.path # "null"
  /\ f.at = "reissue" =>
       f.nr = "ioctl" \/ (f.nr \in {"openat", "faccessat", "readlinkat"} /\ f.path # "null")
  /\ f.at = "log" => f.nr \in Logging /\ (f.path = "null" => f.nr \in {"mount", "mknodat", "ioctl"})
  /\ f.at = "touch" => f.nr = "mknodat" /\ f.path # "null"

(* Every variable has its type, a frame is where its call can be, and the  *)
(* frames below the running one are all in a call.                         *)
TypeOK ==
  /\ rootfsOpen \in BOOLEAN /\ logFile \in BOOLEAN /\ alive \in BOOLEAN
  /\ vfsLock \in Threads \cup {NoThread}
  /\ stack \in [Threads -> Seq(Frames)]
  /\ \A t \in Threads :
       /\ Depth(t) <= MaxFrames
       /\ \A i \in 1..Depth(t) : FrameOK(stack[t][i])
       /\ \A i \in 1..Depth(t) : i < Depth(t) => stack[t][i].at \in Calling

(* At most one frame of the process is inside resolvePath, and it is the   *)
(* one the mutex is recorded for, also while that frame is interrupted.    *)
ResolveIsExclusive ==
  \A t \in Threads : \A i \in 1..Depth(t) :
    stack[t][i].at \in Holding =>
      /\ vfsLock = t
      /\ \A j \in 1..Depth(t) : stack[t][j].at \in Holding => j = i

(* The calls whose handler makes a call that is trapped again: those that  *)
(* name a file by an absolute or an empty path, those the filter has no    *)
(* bypass for, those that log to a file, and all that name a file when     *)
(* there is no root directory to name it by.                               *)
Nests(c) ==
  \/ c.nr = "ioctl"
  \/ c.nr \in {"openat", "faccessat"} /\ c.path \in {"plain", "below", "empty"}
  \/ c.nr \in {"openat", "faccessat"} /\ c.path = "relative" /\ ~rootfsOpen
  \/ c.nr \in {"readlinkat", "execve", "mknodat"} /\ c.path # "null"
  \/ c.nr \in {"openat"} /\ c.path # "null" /\ logFile
  \/ c.nr \in {"mount", "mknodat"} /\ logFile

(* A handler is interrupted by a handler only for one of these calls of    *)
(* the guest: for the others the token does avoid the recursive trap.      *)
RecursionHasCause ==
  \A t \in Threads : Depth(t) > 1 => Nests(stack[t][1])

(* A thread that waits for the mutex it holds itself.                      *)
SelfDeadlocked(t) == Runs(t) /\ vfsLock = t /\ Top(t).at \in {"lock", "lockRoot"}

(* A call that does not nest returns, unless the process runs out of stack *)
(* or another thread blocks the VFS router for good.                       *)
SimpleCallReturns ==
  \A t \in Threads :
    (Depth(t) > 0 /\ ~Nests(stack[t][1]))
      ~> (Depth(t) = 0 \/ ~alive \/ \E u \in Threads : SelfDeadlocked(u))
=============================================================================
