----------------------------- MODULE VfsRouter -----------------------------
(***************************************************************************)
(* VfsRouter (core/vfs_router.cpp) in a guest process: loader_main fills   *)
(* the tables before the guest runs, and then the guest's threads have     *)
(* their paths resolved by the SIGSYS handler, one at a time (mutex_),     *)
(* with two looks at the file system that are two system calls, between    *)
(* which other threads and processes create and remove files.              *)
(*                                                                         *)
(* A path is what PathRouter says it is.  addMountRule, isVirtualDev and   *)
(* getVirtualDevSocket have no caller; reset is that of EngineLifecycle.   *)
(***************************************************************************)
EXTENDS Naturals, Sequences, SequencesExt, FiniteSets

CONSTANTS Threads, NoThread,
          Paths,     (* the paths the guest asks for                        *)
          NoPath,
          Rootfs,    (* argv[1] of the loader, below the app's directory    *)
          AppId,     (* "com.vmgo.app"                                      *)
          Files,     (* the files that come and go below Rootfs             *)
          Host       (* the paths the phone itself has, which do not change *)

ASSUME VfsRouterAssumption ==
  /\ NoPath \notin Seq(STRING) /\ NoThread \notin Threads
  /\ Rootfs \in Seq(STRING) /\ \E k \in 3..Len(Rootfs) : Rootfs[k] = AppId
  /\ Paths \subseteq Seq(STRING) \ {<<>>}

(* The names that the code itself puts into a path; the provers need to be *)
(* told.                                                                   *)
ASSUME NamesAssumption ==
  {"", "apex", "vendor", "system", "data", "dev", "input_event0.sock", "input_event1.sock",
   "ashmem.sock", "qemu_pipe.sock"} \subseteq STRING

VARIABLES sandbox,   (* the files that are there                            *)
          mutex,     (* mutex_: the thread that holds it                    *)
          pc,        (* per thread: idle, called, or the next look at files *)
          asked,     (* per thread: the argument of resolvePath             *)
          answer     (* per thread: what it returned, until the next call   *)

vars == <<sandbox, mutex, pc, asked, answer>>

(* Mutation: the more general mount comes first.                           *)
MountTableReordered ==
  << <<<<"", "apex">>, Rootfs \o <<"apex">>>>,
     <<<<"", "vendor">>, Rootfs \o <<"vendor">>>>,
     <<<<"", "system">>, Rootfs \o <<"system">>>>,
     <<<<"", "system", "vendor">>, Rootfs \o <<"vendor">>>>,
     <<<<"", "data">>, Rootfs \o <<"data">>>> >>

(* initialize, with the configuration of loader_main: mounts in the order  *)
(* in which they are tried.                                                *)
mountTable ==
  << <<<<"", "apex">>, Rootfs \o <<"apex">>>>,
     <<<<"", "vendor">>, Rootfs \o <<"vendor">>>>,
     <<<<"", "system", "vendor">>, Rootfs \o <<"vendor">>>>,
     <<<<"", "system">>, Rootfs \o <<"system">>>>,
     <<<<"", "data">>, Rootfs \o <<"data">>>> >>

virtualDevTable ==
  [device \in {<<"", "dev", "qemu_pipe">>, <<"", "dev", "goldfish_pipe">>, <<"", "dev", "ashmem">>,
               <<"", "dev", "input", "event0">>, <<"", "dev", "input", "event1">>} |->
     Rootfs \o <<"dev", CASE Last(device) = "event0" -> "input_event0.sock"
                          [] Last(device) = "event1" -> "input_event1.sock"
                          [] Last(device) = "ashmem" -> "ashmem.sock"
                          [] OTHER                   -> "qemu_pipe.sock">>]

Init ==
  /\ sandbox = {} /\ mutex = NoThread
  /\ pc = [t \in Threads |-> "idle"]
  /\ asked = [t \in Threads |-> NoPath] /\ answer = [t \in Threads |-> NoPath]

-----------------------------------------------------------------------------
(* cleanPath: a slash is kept unless the last character kept is one, and   *)
(* a slash at the end is dropped unless it is all there is.                *)
cleanPath(path) ==
  LET Kept[n \in 0..Len(path)] ==
        IF n = 0 THEN <<>>
        ELSE IF n > 1 /\ n < Len(path) /\ path[n] = "" THEN Kept[n - 1]
        ELSE Append(Kept[n - 1], path[n])
      kept == Kept[Len(path)]
  IN  IF Len(kept) > 1 /\ Last(kept) = "" /\ kept # <<"", "">> THEN Front(kept) ELSE kept

(* Mutation: paths of the app are not told apart.                          *)
NoSandboxPath(path) == FALSE

(* The path has "/com.vmgo.app/" in it.                                    *)
IsSandboxPath(path) == \E k \in 2..(Len(path) - 1) : path[k] = AppId

IsPassedThrough(path) ==
  \/ Len(path) > 2 /\ path[1] = "" /\ path[2] \in {"proc", "sys"}
  \/ path \in {<<"", "dev", name>> : name \in {"null", "zero", "urandom"}}

(* The first mount of the table that the path is or lies below.            *)
Matching(path) == {n \in DOMAIN mountTable : IsPrefix(mountTable[n][1], path)}
FirstMatch(path) ==
  CHOOSE n \in Matching(path) : \A other \in Matching(path) : n <= other

Target(path) ==
  LET entry == mountTable[FirstMatch(path)]
  IN  entry[2] \o SubSeq(path, Len(entry[1]) + 1, Len(path))

(* What is answered without a look at the files: NoPath if there is one.   *)
AtOnce(path) ==
  IF IsSandboxPath(path) THEN path
  ELSE IF path \in DOMAIN virtualDevTable THEN virtualDevTable[path]
  ELSE IF IsPassedThrough(path) \/ Matching(path) = {} THEN path
  ELSE IF path = mountTable[FirstMatch(path)][1] THEN Target(path)
  ELSE NoPath

Call(t, path) ==
  /\ pc[t] = "idle"
  /\ pc' = [pc EXCEPT ![t] = "called"]
  /\ asked' = [asked EXCEPT ![t] = path]
  /\ answer' = [answer EXCEPT ![t] = NoPath]
  /\ UNCHANGED <<sandbox, mutex>>

(* Mutation: the way out of the function does not release the mutex.       *)
ReturnLocked(t, path) ==
  /\ pc' = [pc EXCEPT ![t] = "idle"]
  /\ asked' = [asked EXCEPT ![t] = NoPath]
  /\ answer' = [answer EXCEPT ![t] = path]
  /\ UNCHANGED <<sandbox, mutex>>

(* The end of the call, which releases the mutex.                          *)
Return(t, path) ==
  /\ pc' = [pc EXCEPT ![t] = "idle"]
  /\ asked' = [asked EXCEPT ![t] = NoPath]
  /\ answer' = [answer EXCEPT ![t] = path]
  /\ mutex' = NoThread
  /\ UNCHANGED sandbox

(* The call up to its first look at the files.  An empty path (a single "")*)
(* is returned as it is, as cleanPath leaves it.                           *)
Enter(t) ==
  LET clean == cleanPath(asked[t]) IN
  /\ pc[t] = "called" /\ mutex = NoThread
  /\ IF AtOnce(clean) # NoPath THEN Return(t, AtOnce(clean))
     ELSE /\ mutex' = t
          /\ pc' = [pc EXCEPT ![t] = "target"]
          /\ UNCHANGED <<sandbox, asked, answer>>

(* access(target)                                                          *)
LookInSandbox(t) ==
  LET target == Target(cleanPath(asked[t])) IN
  /\ pc[t] = "target"
  /\ IF target \in sandbox THEN Return(t, target)
     ELSE pc' = [pc EXCEPT ![t] = "clean"] /\ UNCHANGED <<sandbox, mutex, asked, answer>>

(* access(clean)                                                           *)
LookOnHost(t) ==
  LET clean == cleanPath(asked[t]) IN
  /\ pc[t] = "clean"
  /\ Return(t, IF clean \in Host THEN clean ELSE Target(clean))

(* Another thread, process or the installer creates or removes a file.     *)
FileChanges ==
  /\ \E file \in Files : sandbox' \in {sandbox \cup {file}, sandbox \ {file}} \ {sandbox}
  /\ UNCHANGED <<mutex, pc, asked, answer>>

Next ==
  \/ FileChanges
  \/ \E t \in Threads : \/ \E path \in Paths : Call(t, path)
                        \/ Enter(t) \/ LookInSandbox(t) \/ LookOnHost(t)

Spec == Init /\ [][Next]_vars

-----------------------------------------------------------------------------
(* The mutex is held exactly by the thread that looks at the files.        *)
TypeOK ==
  /\ sandbox \subseteq Files
  /\ mutex \in Threads \cup {NoThread}
  /\ \A t \in Threads :
       /\ pc[t] \in {"idle", "called", "target", "clean"}
       /\ (asked[t] = NoPath) <=> (pc[t] = "idle")
       /\ pc[t] \in {"target", "clean"} <=> mutex = t

(* Answers are asked for again: the ELF loader puts the root directory     *)
(* before a name and opens it through the handler.  An answer in the       *)
(* sandbox stays what it is, whatever files there are, though the app's    *)
(* directory itself lies below /data, which is a mount; an answer outside  *)
(* of it is in no mount, unless the phone has the file.                    *)
AnswersStay ==
  \A t \in Threads :
    answer[t] # NoPath =>
      \/ AtOnce(answer[t]) = answer[t]
      \/ answer[t] \in Host

(* The answer is settled by the look at the sandbox: the host's files do   *)
(* not change.                                                             *)
Settled(t) == pc[t] = "clean"
Promise == INSTANCE PathRouter WITH
  Home    <- [mount \in {mountTable[n][1] : n \in DOMAIN mountTable} |->
                mountTable[CHOOSE n \in DOMAIN mountTable : mountTable[n][1] = mount][2]],
  Sockets <- virtualDevTable,
  IsOurs  <- IsSandboxPath,
  asked   <- [t \in Threads |-> IF Settled(t) THEN NoPath ELSE asked[t]],
  answer  <- [t \in Threads |->
                LET clean == cleanPath(asked[t]) IN
                IF ~Settled(t) THEN answer[t]
                ELSE IF clean \in Host THEN clean ELSE Target(clean)]

(* Every answer is the one the most specific mount gives for the files of  *)
(* one moment during the call, though the code goes down a table and looks *)
(* twice while files come and go.                                          *)
AnswersOfOneMoment == Promise!Spec
=============================================================================
