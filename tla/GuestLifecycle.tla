--------------------------- MODULE GuestLifecycle ---------------------------
(***************************************************************************)
(* The guest process and the threads of the host app that start, watch and *)
(* stop it: GuestBootstrapper (core/guest_bootstrapper.cpp) as it is called *)
(* through native_bridge.cpp by the VmDisplayActivity instances.           *)
(*                                                                         *)
(* GuestBootstrapper is one object for the whole app and keeps two plain   *)
(* members, guestPid_ and running_, with no lock and no atomics.  They are *)
(* used by                                                                 *)
(*   - launch(), one call per activity, on a thread of Dispatchers.IO;     *)
(*   - the monitor thread each successful launch() detaches;               *)
(*   - kill(), called by nativeStopVm on the main thread in onDestroy.     *)
(* Every access is a step of its own.  Two accesses that no call separates *)
(* may be performed in either order: a set of pending accesses, taken in   *)
(* any order, stands for them.                                             *)
(*                                                                         *)
(* An activity launches at most once, so the child process of a launch is  *)
(* named by its activity: the activity is the pid.  The kernel does not    *)
(* hand out a pid again within a run of the model.                         *)
(***************************************************************************)
EXTENDS FiniteSets

CONSTANTS Activities,  (* the instances of VmDisplayActivity, and the pids of their guests *)
          NoPid        (* the value -1 of guestPid_                                        *)

ASSUME ActivitiesAssumption == NoPid \notin Activities

VARIABLES
  activity,   (* the life cycle of each activity, as the main thread drives it      *)
  vfsReady,   (* VfsRouter::initialized_                                            *)
  guestPid,   (* GuestBootstrapper::guestPid_                                       *)
  running,    (* GuestBootstrapper::running_                                        *)
  proc,       (* the kernel's view of the child each launch forked                  *)
  launch,     (* where the launch of each activity stands                           *)
  pending,    (* the accesses to guestPid_ and running_ the launch has still to do  *)
  monitor,    (* where the monitor thread of each launch stands                     *)
  target,     (* the argument of the monitor's waitpid                              *)
  clearing,   (* the members the monitor has still to clear                         *)
  main,       (* where the main thread stands in nativeStopVm                       *)
  killPending (* the members kill() has still to clear                              *)

hostVars    == <<activity, vfsReady>>
memberVars  == <<guestPid, running>>
launchVars  == <<launch, pending>>
monitorVars == <<monitor, target, clearing>>
mainVars    == <<main, killPending>>
vars == <<hostVars, memberVars, proc, launchVars, monitorVars, mainVars>>

-----------------------------------------------------------------------------

Members == {"guestPid", "running"}

ActivityState == {"new", "shown", "destroyed"}
ProcState     == {"none", "forked", "stuck", "guest", "dying", "zombie", "reaped"}
LaunchState   == {"idle", "dispatched", "checking", "preparing", "forking",
                  "publishing", "spawning", "returned"}
MonitorState  == {"none", "start", "waiting", "clearing", "done"}
MainState     == {"idle", "check", "signal", "reap", "clear", "reset"}

(* A process that still executes code of the guest or of the bootstrap.    *)
Live == {"forked", "stuck", "guest"}
(* A child waitpid can name: it has not been reaped.                       *)
IsChild(p) == proc[p] \in Live \cup {"dying", "zombie"}

Init ==
  /\ activity = [a \in Activities |-> "new"]
  /\ vfsReady = FALSE
  /\ guestPid = NoPid
  /\ running = FALSE
  /\ proc = [a \in Activities |-> "none"]
  /\ launch = [a \in Activities |-> "idle"]
  /\ pending = [a \in Activities |-> {}]
  /\ monitor = [a \in Activities |-> "none"]
  /\ target = [a \in Activities |-> NoPid]
  /\ clearing = [a \in Activities |-> {}]
  /\ main = "idle"
  /\ killPending = {}

-----------------------------------------------------------------------------
(* The activities.  Their callbacks all run on the main thread, so none    *)
(* runs while nativeStopVm does.                                           *)

(* surfaceCreated: nativeInit initialises the VFS router.                  *)
SurfaceCreated(a) ==
  /\ main = "idle"
  /\ activity[a] = "new"
  /\ activity' = [activity EXCEPT ![a] = "shown"]
  /\ vfsReady' = TRUE
  /\ UNCHANGED <<memberVars, proc, launchVars, monitorVars, mainVars>>

(* onDestroy cancels the coroutines of the activity, which does not stop   *)
(* one that runs on a thread of Dispatchers.IO, and calls nativeStopVm.    *)
OnDestroy(a) ==
  /\ main = "idle"
  /\ activity[a] \in {"new", "shown"}
  /\ activity' = [activity EXCEPT ![a] = "destroyed"]
  /\ main' = "check"
  /\ UNCHANGED <<vfsReady, memberVars, proc, launchVars, monitorVars, killPending>>

-----------------------------------------------------------------------------
(* launch(), on a thread of Dispatchers.IO.                                *)

(* The boot coroutine has seen isVmInitialized, is still active and runs   *)
(* on.  It gives up when 50 looks, 100 ms apart, have not shown it that.   *)
DispatchLaunch(a) ==
  /\ activity[a] = "shown"
  /\ launch[a] = "idle"
  /\ launch' = [launch EXCEPT ![a] = "dispatched"]
  /\ UNCHANGED <<hostVars, memberVars, proc, pending, monitorVars, mainVars>>

(* nativeLaunchGuest returns at once when the VFS router is not (or is no  *)
(* longer) initialised.  The activity may have been destroyed meanwhile.   *)
LaunchGuest(a) ==
  /\ launch[a] = "dispatched"
  /\ \/ /\ vfsReady
        /\ launch' = [launch EXCEPT ![a] = "checking"]
        /\ pending' = [pending EXCEPT ![a] = Members]
     \/ /\ ~vfsReady
        /\ launch' = [launch EXCEPT ![a] = "returned"]
        /\ UNCHANGED pending
  /\ UNCHANGED <<hostVars, memberVars, proc, monitorVars, mainVars>>

(* What `running_ && guestPid_ > 0` reads of one of the two members.       *)
ReadsTrue(m) == IF m = "running" THEN running ELSE guestPid # NoPid

(* `if (running_ && guestPid_ > 0) return true`, one read at a time.       *)
CheckRunning(a, m) ==
  /\ launch[a] = "checking"
  /\ m \in pending[a]
  /\ \/ /\ ~ReadsTrue(m)
        /\ launch' = [launch EXCEPT ![a] = "preparing"]
        /\ pending' = [pending EXCEPT ![a] = {}]
     \/ /\ ReadsTrue(m)
        /\ pending' = [pending EXCEPT ![a] = @ \ {m}]
        /\ launch' = IF pending[a] = {m} THEN [launch EXCEPT ![a] = "returned"] ELSE launch
  /\ UNCHANGED <<hostVars, memberVars, proc, monitorVars, mainVars>>

(* No candidate binary is executable, or pipe2 fails: launch() returns     *)
(* false.  Otherwise the virtual /dev and the log pipe are ready.          *)
Prepare(a) ==
  /\ launch[a] = "preparing"
  /\ \E next \in {"forking", "returned"} : launch' = [launch EXCEPT ![a] = next]
  /\ UNCHANGED <<hostVars, memberVars, proc, pending, monitorVars, mainVars>>

(* fork(): it fails, or the child exists.  The child inherits the mutex of *)
(* NativeLogger as it is: when another thread holds it at that moment, the *)
(* child's first LOGI blocks for good ("stuck").                           *)
Fork(a) ==
  /\ launch[a] = "forking"
  /\ \/ /\ launch' = [launch EXCEPT ![a] = "returned"]
        /\ UNCHANGED <<proc, pending>>
     \/ /\ \E child \in {"forked", "stuck"} : proc' = [proc EXCEPT ![a] = child]
        /\ launch' = [launch EXCEPT ![a] = "publishing"]
        /\ pending' = [pending EXCEPT ![a] = Members]
  /\ UNCHANGED <<hostVars, memberVars, monitorVars, mainVars>>

(* guestPid_ = pid; running_ = true; in either order.                      *)
Publish(a, m) ==
  /\ launch[a] = "publishing"
  /\ m \in pending[a]
  /\ \/ m = "guestPid" /\ guestPid' = a /\ UNCHANGED running
     \/ m = "running" /\ running' = TRUE /\ UNCHANGED guestPid
  /\ pending' = [pending EXCEPT ![a] = @ \ {m}]
  /\ launch' = IF pending[a] = {m} THEN [launch EXCEPT ![a] = "spawning"] ELSE launch
  /\ UNCHANGED <<hostVars, proc, monitorVars, mainVars>>

(* The log reader and the monitor are detached; launch() returns true.     *)
SpawnMonitor(a) ==
  /\ launch[a] = "spawning"
  /\ launch' = [launch EXCEPT ![a] = "returned"]
  /\ monitor' = [monitor EXCEPT ![a] = "start"]
  /\ UNCHANGED <<hostVars, memberVars, proc, pending, target, clearing, mainVars>>

-----------------------------------------------------------------------------
(* The monitor thread.                                                     *)

(* The monitor evaluates guestPid_ when it gets to run, not when launch()  *)
(* created it: it may find the pid of a later launch, or -1.               *)
MonitorStart(a) ==
  /\ monitor[a] = "start"
  /\ monitor' = [monitor EXCEPT ![a] = "waiting"]
  /\ target' = [target EXCEPT ![a] = guestPid]
  /\ UNCHANGED <<hostVars, memberVars, proc, launchVars, clearing, mainVars>>

(* The children waitpid(pid, ...) may report: all of them for pid = -1.    *)
WaitSet(pid) == {p \in Activities : IsChild(p) /\ pid \in {p, NoPid}}

(* Mutation: the members are cleared under `if (result > 0)` only.         *)
MonitorWakeIgnoresEchild(a) ==
  /\ monitor[a] = "waiting"
  /\ \/ \E p \in WaitSet(target[a]) :
          /\ proc[p] = "zombie"
          /\ proc' = [proc EXCEPT ![p] = "reaped"]
          /\ monitor' = [monitor EXCEPT ![a] = "clearing"]
          /\ clearing' = [clearing EXCEPT ![a] = Members]
     \/ /\ WaitSet(target[a]) = {}
        /\ monitor' = [monitor EXCEPT ![a] = "done"]
        /\ UNCHANGED <<proc, clearing>>
  /\ UNCHANGED <<hostVars, memberVars, launchVars, target, mainVars>>

(* Mutation: waitpid is called with WNOHANG.                               *)
MonitorWakeNoHang(a) ==
  /\ monitor[a] = "waiting"
  /\ monitor' = [monitor EXCEPT ![a] = "clearing"]
  /\ clearing' = [clearing EXCEPT ![a] = Members]
  /\ UNCHANGED <<hostVars, memberVars, proc, launchVars, target, mainVars>>

(* waitpid returns: it reaps a zombie, or fails with ECHILD because there  *)
(* is no such child (any more).                                            *)
MonitorWake(a) ==
  /\ monitor[a] = "waiting"
  /\ \/ /\ \E p \in WaitSet(target[a]) :
             /\ proc[p] = "zombie"
             /\ proc' = [proc EXCEPT ![p] = "reaped"]
     \/ /\ WaitSet(target[a]) = {}
        /\ UNCHANGED proc
  /\ monitor' = [monitor EXCEPT ![a] = "clearing"]
  /\ clearing' = [clearing EXCEPT ![a] = Members]
  /\ UNCHANGED <<hostVars, memberVars, launchVars, target, mainVars>>

(* The reset of one of the members.                                        *)
Clear(m) ==
  \/ m = "guestPid" /\ guestPid' = NoPid /\ UNCHANGED running
  \/ m = "running" /\ running' = FALSE /\ UNCHANGED guestPid

(* Mutation: the monitor resets guestPid_ and forgets running_.            *)
MonitorClearPidOnly(a, m) ==
  /\ monitor[a] = "clearing"
  /\ m \in clearing[a]
  /\ IF m = "guestPid" THEN Clear(m) ELSE UNCHANGED memberVars
  /\ clearing' = [clearing EXCEPT ![a] = @ \ {m}]
  /\ monitor' = IF clearing[a] = {m} THEN [monitor EXCEPT ![a] = "done"] ELSE monitor
  /\ UNCHANGED <<hostVars, proc, launchVars, target, mainVars>>

(* running_ = false; guestPid_ = -1; whatever they hold by now.            *)
MonitorClear(a, m) ==
  /\ monitor[a] = "clearing"
  /\ m \in clearing[a]
  /\ Clear(m)
  /\ clearing' = [clearing EXCEPT ![a] = @ \ {m}]
  /\ monitor' = IF clearing[a] = {m} THEN [monitor EXCEPT ![a] = "done"] ELSE monitor
  /\ UNCHANGED <<hostVars, proc, launchVars, target, mainVars>>

-----------------------------------------------------------------------------
(* nativeStopVm on the main thread: kill(), then the reset of the engine.  *)
(* kill() reads guestPid_ anew for its test, for ::kill and for waitpid.   *)

KillCheck ==
  /\ main = "check"
  /\ main' = IF guestPid # NoPid THEN "signal" ELSE "reset"
  /\ UNCHANGED <<hostVars, memberVars, proc, launchVars, monitorVars, killPending>>

(* ::kill(guestPid_, SIGKILL).  For -1 the kernel signals every process    *)
(* the app may signal, except the app itself.                              *)
Signalled(pid) == {p \in Activities : proc[p] \in Live /\ pid \in {p, NoPid}}

(* Mutation: the signal is 0, which tests for the process only.            *)
KillSignalZero ==
  /\ main = "signal"
  /\ main' = "reap"
  /\ UNCHANGED <<hostVars, memberVars, proc, launchVars, monitorVars, killPending>>

KillSignal ==
  /\ main = "signal"
  /\ proc' = [p \in Activities |-> IF p \in Signalled(guestPid) THEN "dying" ELSE proc[p]]
  /\ main' = "reap"
  /\ UNCHANGED <<hostVars, memberVars, launchVars, monitorVars, killPending>>

(* waitpid(guestPid_, &status, WNOHANG) reaps a child that is dead by now. *)
KillReap ==
  /\ main = "reap"
  /\ LET dead == {p \in WaitSet(guestPid) : proc[p] = "zombie"}
     IN \/ \E p \in dead : proc' = [proc EXCEPT ![p] = "reaped"]
        \/ dead = {} /\ UNCHANGED proc
  /\ main' = "clear"
  /\ killPending' = Members
  /\ UNCHANGED <<hostVars, memberVars, launchVars, monitorVars>>

(* guestPid_ = -1; running_ = false.                                       *)
KillClear(m) ==
  /\ main = "clear"
  /\ m \in killPending
  /\ Clear(m)
  /\ killPending' = killPending \ {m}
  /\ main' = IF killPending = {m} THEN "reset" ELSE main
  /\ UNCHANGED <<hostVars, proc, launchVars, monitorVars>>

(* The rest of nativeStopVm, up to its last log line.                      *)
StopVm ==
  /\ main = "reset"
  /\ main' = "idle"
  /\ vfsReady' = FALSE
  /\ UNCHANGED <<activity, memberVars, proc, launchVars, monitorVars, killPending>>

-----------------------------------------------------------------------------
(* The child process.                                                      *)

(* The child reaches the guest's code, by execve of the native loader, by  *)
(* the in-memory ELF loader or by execve of the init binary; or every way  *)
(* fails and it calls _exit(127).                                          *)
ChildExec(p) ==
  /\ proc[p] = "forked"
  /\ \E next \in {"guest", "zombie"} : proc' = [proc EXCEPT ![p] = next]
  /\ UNCHANGED <<hostVars, memberVars, launchVars, monitorVars, mainVars>>

(* The guest exits or crashes on its own.                                  *)
GuestExit(p) ==
  /\ proc[p] = "guest"
  /\ proc' = [proc EXCEPT ![p] = "zombie"]
  /\ UNCHANGED <<hostVars, memberVars, launchVars, monitorVars, mainVars>>

(* SIGKILL takes effect some time after ::kill has returned.               *)
SigkillTakesEffect(p) ==
  /\ proc[p] = "dying"
  /\ proc' = [proc EXCEPT ![p] = "zombie"]
  /\ UNCHANGED <<hostVars, memberVars, launchVars, monitorVars, mainVars>>

-----------------------------------------------------------------------------

LaunchStep(a) ==
  \/ \E m \in Members : CheckRunning(a, m) \/ Publish(a, m)
  \/ LaunchGuest(a) \/ Prepare(a) \/ Fork(a) \/ SpawnMonitor(a)

MonitorStep(a) ==
  \/ MonitorStart(a) \/ MonitorWake(a)
  \/ \E m \in Members : MonitorClear(a, m)

MainStep ==
  \/ KillCheck \/ KillSignal \/ KillReap \/ StopVm
  \/ \E m \in Members : KillClear(m)

Next ==
  \/ MainStep
  \/ \E a \in Activities :
       \/ SurfaceCreated(a) \/ OnDestroy(a) \/ DispatchLaunch(a)
       \/ LaunchStep(a) \/ MonitorStep(a)
       \/ ChildExec(a) \/ GuestExit(a) \/ SigkillTakesEffect(a)

Spec == Init /\ [][Next]_vars

(* Threads that are not blocked keep running, the kernel delivers SIGKILL, *)
(* and a child that is not blocked on the logger gets through the          *)
(* bootstrap.  Nobody has to create or destroy an activity, and a guest    *)
(* need not exit.                                                          *)
Fairness ==
  /\ WF_vars(MainStep)
  /\ \A a \in Activities :
       /\ WF_vars(LaunchStep(a))
       /\ WF_vars(MonitorStep(a))
       /\ WF_vars(ChildExec(a))
       /\ WF_vars(SigkillTakesEffect(a))

FairSpec == Spec /\ Fairness
-----------------------------------------------------------------------------
(* Properties.                                                             *)

VarTypes ==
  /\ activity \in [Activities -> ActivityState]
  /\ vfsReady \in BOOLEAN
  /\ guestPid \in Activities \cup {NoPid}
  /\ running \in BOOLEAN
  /\ proc \in [Activities -> ProcState]
  /\ launch \in [Activities -> LaunchState]
  /\ pending \in [Activities -> SUBSET Members]
  /\ monitor \in [Activities -> MonitorState]
  /\ target \in [Activities -> Activities \cup {NoPid}]
  /\ clearing \in [Activities -> SUBSET Members]
  /\ main \in MainState
  /\ killPending \in SUBSET Members

AccessesMatchPlaces ==
  /\ \A a \in Activities : pending[a] # {} <=> launch[a] \in {"checking", "publishing"}
  /\ \A a \in Activities : clearing[a] # {} <=> monitor[a] = "clearing"
  /\ killPending # {} <=> main = "clear"
  /\ \A a \in Activities : monitor[a] # "none" => launch[a] = "returned"

(* Every variable has its type, a thread has accesses left to do exactly   *)
(* while it is at the place of the code that does them, and a monitor      *)
(* exists only once its launch() is over.                                  *)
TypeOK == VarTypes /\ AccessesMatchPlaces

(* The launch of p has still to spawn its monitor, or that monitor has     *)
(* still to read guestPid_, waits for p, or is about to clear guestPid_.   *)
HasOwnMonitor(p) ==
  \/ launch[p] \in {"publishing", "spawning"}
  \/ monitor[p] = "start"
  \/ monitor[p] = "waiting" /\ target[p] = p
  \/ "guestPid" \in clearing[p]

(* The pid in guestPid_ never goes stale for want of a thread to clear it: *)
(* the monitor of the launch that stored it is still in charge of it.  It  *)
(* holds although monitors may read the pid of another launch, and         *)
(* although kill() and they may reap and clear at any point.               *)
PublishedPidHasOwnMonitor ==
  \A p \in Activities : guestPid = p => HasOwnMonitor(p)

(* The launch of a has set running_ and has still to spawn its monitor, or *)
(* that monitor has still to reset running_.                               *)
HasClearer(a) ==
  \/ launch[a] = "publishing" /\ "running" \notin pending[a]
  \/ launch[a] = "spawning"
  \/ monitor[a] \in {"start", "waiting"}
  \/ "running" \in clearing[a]

(* running_ is never left true with nobody to reset it, which would make   *)
(* every later launch() depend on guestPid_ alone.                         *)
RunningHasClearer == running => \E a \in Activities : HasClearer(a)

(* The launch of a is the only one that was ever started.                  *)
SoleLaunch(a) == \A b \in Activities \ {a} : launch[b] = "idle"

NothingStopped == \A a \in Activities : activity[a] # "destroyed"

(* As long as nothing was stopped and no second launch was started, a      *)
(* guest that is alive once its launch() has returned is on record:        *)
(* guestPid_ names it and running_ is true, so that nativeIsGuestAlive     *)
(* sees it and kill() can reach it.                                        *)
SoleGuestIsRegistered ==
  NothingStopped =>
    \A a \in Activities :
      (SoleLaunch(a) /\ launch[a] = "returned" /\ proc[a] \in Live)
        => (guestPid = a /\ running)

(* A guest that died on its own does not stay in guestPid_: launch() will  *)
(* fork again and nativeIsGuestAlive will say so.                          *)
DeadGuestIsForgotten ==
  \A p \in Activities :
    (guestPid = p /\ proc[p] \in {"zombie", "reaped"}) ~> (guestPid # p)

(* With no child left and no launch under way, running_ is reset.          *)
RunningIsReset ==
  LET NoChild == \A p \in Activities : ~IsChild(p)
      NoLaunch == \A a \in Activities : launch[a] \in {"idle", "returned"}
  IN (running /\ NoChild /\ NoLaunch) ~> (~running \/ ~NoLaunch)

(* A stop that finds the only launch complete does its work: the guest is  *)
(* killed and its process reaped, however slow the monitor thread is.      *)
StopReapsSoleGuest ==
  \A a \in Activities :
    (main = "check" /\ SoleLaunch(a) /\ launch[a] = "returned")
      ~> (proc[a] \in {"none", "reaped"} \/ ~SoleLaunch(a))
=============================================================================
