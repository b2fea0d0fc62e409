---------------------------- MODULE GuestProofs ----------------------------
(***************************************************************************)
(* Theorems about how a guest is started and how its program is entered.   *)
(*                                                                         *)
(* GuestLifecycle, for any set of activities: its type invariant and the   *)
(* three invariants that say who will clear guestPid_ and running_ and     *)
(* where the guest is registered.  Each is inductive relative to TypeOK.   *)
(*                                                                         *)
(* ElfLoader, for any programs, any size of a page and of the memory: what *)
(* is mapped for a segment is the pages of its words, the reserved pages   *)
(* hold all segments of a file, and LoadInv, an invariant, says what is    *)
(* where at each place of execute; the stack is computed by its positions. *)
(***************************************************************************)
EXTENDS GuestLifecycle, ElfLoader, TLAPS, SequenceTheorems, WellFoundedInduction

(* The types are inductive, given the accesses left at each place.         *)
LEMMA TypesStep == TypeOK /\ [Next]_vars => VarTypes'
<1> SUFFICES ASSUME VarTypes, AccessesMatchPlaces, [Next]_vars PROVE VarTypes'
  BY DEF TypeOK
<1> USE ActivitiesAssumption
    DEF VarTypes, Members, ActivityState, ProcState, LaunchState, MonitorState, MainState,
        vars, hostVars, memberVars, launchVars, monitorVars, mainVars
<1>1. CASE UNCHANGED vars
  BY <1>1
<1>2. ASSUME NEW a \in Activities, SurfaceCreated(a) \/ OnDestroy(a) PROVE VarTypes'
  BY <1>2 DEF SurfaceCreated, OnDestroy
<1>3. ASSUME NEW a \in Activities, LaunchGuest(a) PROVE VarTypes'
  BY <1>3 DEF LaunchGuest
<1>20. ASSUME NEW a \in Activities, DispatchLaunch(a) PROVE VarTypes'
  BY <1>20 DEF DispatchLaunch
<1>4. ASSUME NEW a \in Activities, NEW m \in Members, CheckRunning(a, m) PROVE VarTypes'
  BY <1>4 DEF CheckRunning
<1>5. ASSUME NEW a \in Activities, Prepare(a) PROVE VarTypes'
  BY <1>5 DEF Prepare
<1>6. ASSUME NEW a \in Activities, Fork(a) PROVE VarTypes'
  BY <1>6 DEF Fork
<1>7. ASSUME NEW a \in Activities, NEW m \in Members, Publish(a, m) PROVE VarTypes'
  BY <1>7 DEF Publish
<1>8. ASSUME NEW a \in Activities, SpawnMonitor(a) PROVE VarTypes'
  BY <1>8 DEF SpawnMonitor
<1>9. ASSUME NEW a \in Activities, MonitorStart(a) PROVE VarTypes'
  BY <1>9 DEF MonitorStart
<1>10. ASSUME NEW a \in Activities, MonitorWake(a) PROVE VarTypes'
  BY <1>10 DEF MonitorWake, WaitSet
<1>11. ASSUME NEW a \in Activities, NEW m \in Members, MonitorClear(a, m) PROVE VarTypes'
  BY <1>11 DEF MonitorClear, Clear
<1>12. CASE KillCheck
  BY <1>12 DEF KillCheck
<1>13. CASE KillSignal
  BY <1>13 DEF KillSignal
<1>14. CASE KillReap
  BY <1>14 DEF KillReap, WaitSet
<1>15. ASSUME NEW m \in Members, KillClear(m) PROVE VarTypes'
  BY <1>15 DEF KillClear, Clear
<1>16. CASE StopVm
  BY <1>16 DEF StopVm
<1>17. ASSUME NEW a \in Activities, ChildExec(a) PROVE VarTypes'
  BY <1>17 DEF ChildExec
<1>18. ASSUME NEW a \in Activities, GuestExit(a) PROVE VarTypes'
  BY <1>18 DEF GuestExit
<1>19. ASSUME NEW a \in Activities, SigkillTakesEffect(a) PROVE VarTypes'
  BY <1>19 DEF SigkillTakesEffect
<1> HIDE DEF VarTypes, Members, vars
<1> QED
  BY <1>1, <1>2, <1>3, <1>4, <1>5, <1>6, <1>7, <1>8, <1>9, <1>10, <1>11, <1>12, <1>13,
     <1>14, <1>15, <1>16, <1>17, <1>18, <1>19, <1>20 DEF Next, MainStep, LaunchStep, MonitorStep

(* The accesses a thread has left match its place in the code.             *)
LEMMA PlacesStep == TypeOK /\ [Next]_vars => AccessesMatchPlaces'
<1> SUFFICES ASSUME VarTypes, AccessesMatchPlaces, [Next]_vars PROVE AccessesMatchPlaces'
  BY DEF TypeOK
<1> USE DEF VarTypes, AccessesMatchPlaces, Members, LaunchState, MonitorState, MainState,
            vars, hostVars, memberVars, launchVars, monitorVars, mainVars
<1>1. CASE UNCHANGED vars
  BY <1>1
<1>2. ASSUME NEW a \in Activities, SurfaceCreated(a) \/ OnDestroy(a) PROVE AccessesMatchPlaces'
  BY <1>2 DEF SurfaceCreated, OnDestroy
<1>3. ASSUME NEW a \in Activities, LaunchGuest(a) PROVE AccessesMatchPlaces'
  <2> SUFFICES ASSUME NEW b \in Activities
               PROVE  /\ pending'[b] # {} <=> launch'[b] \in {"checking", "publishing"}
                      /\ clearing'[b] # {} <=> monitor'[b] = "clearing"
                      /\ killPending' # {} <=> main' = "clear"
                      /\ monitor'[b] # "none" => launch'[b] = "returned"
    BY DEF AccessesMatchPlaces
  <2>1. CASE b = a
    <3>1. CASE vfsReady
      <4>1. /\ pending'[b] = Members
            /\ launch'[b] = "checking"
            /\ UNCHANGED <<monitor, clearing, main, killPending>>
        BY <1>3, <2>1, <3>1 DEF LaunchGuest
      <4>2. launch[b] = "dispatched"
        BY <1>3, <2>1 DEF LaunchGuest
      <4> QED
        BY <4>1, <4>2
    <3>2. CASE ~vfsReady
      BY <1>3, <2>1, <3>2 DEF LaunchGuest
    <3> QED
      BY <3>1, <3>2
  <2>2. CASE b # a
    BY <1>3, <2>2 DEF LaunchGuest
  <2> QED
    BY <2>1, <2>2
<1>20. ASSUME NEW a \in Activities, DispatchLaunch(a) PROVE AccessesMatchPlaces'
  BY <1>20 DEF DispatchLaunch
<1>4. ASSUME NEW a \in Activities, NEW m \in Members, CheckRunning(a, m)
      PROVE AccessesMatchPlaces'
  BY <1>4 DEF CheckRunning
<1>5. ASSUME NEW a \in Activities, Prepare(a) PROVE AccessesMatchPlaces'
  BY <1>5 DEF Prepare
<1>6. ASSUME NEW a \in Activities, Fork(a) PROVE AccessesMatchPlaces'
  <2> SUFFICES ASSUME NEW b \in Activities
               PROVE  /\ pending'[b] # {} <=> launch'[b] \in {"checking", "publishing"}
                      /\ clearing'[b] # {} <=> monitor'[b] = "clearing"
                      /\ killPending' # {} <=> main' = "clear"
                      /\ monitor'[b] # "none" => launch'[b] = "returned"
    BY DEF AccessesMatchPlaces
  <2>1. CASE b = a
    BY <1>6, <2>1 DEF Fork
  <2>2. CASE b # a
    BY <1>6, <2>2 DEF Fork
  <2> QED
    BY <2>1, <2>2
<1>7. ASSUME NEW a \in Activities, NEW m \in Members, Publish(a, m) PROVE AccessesMatchPlaces'
  BY <1>7 DEF Publish
<1>8. ASSUME NEW a \in Activities, SpawnMonitor(a) PROVE AccessesMatchPlaces'
  <2> SUFFICES ASSUME NEW b \in Activities
               PROVE  /\ pending'[b] # {} <=> launch'[b] \in {"checking", "publishing"}
                      /\ clearing'[b] # {} <=> monitor'[b] = "clearing"
                      /\ killPending' # {} <=> main' = "clear"
                      /\ monitor'[b] # "none" => launch'[b] = "returned"
    BY DEF AccessesMatchPlaces
  <2>1. CASE b = a
    BY <1>8, <2>1 DEF SpawnMonitor
  <2>2. CASE b # a
    BY <1>8, <2>2 DEF SpawnMonitor
  <2> QED
    BY <2>1, <2>2
<1>9. ASSUME NEW a \in Activities, MonitorStart(a) PROVE AccessesMatchPlaces'
  BY <1>9 DEF MonitorStart
<1>10. ASSUME NEW a \in Activities, MonitorWake(a) PROVE AccessesMatchPlaces'
  BY <1>10 DEF MonitorWake
<1>11. ASSUME NEW a \in Activities, NEW m \in Members, MonitorClear(a, m)
       PROVE AccessesMatchPlaces'
  BY <1>11 DEF MonitorClear
<1>12. CASE KillCheck
  BY <1>12 DEF KillCheck
<1>13. CASE KillSignal
  BY <1>13 DEF KillSignal
<1>14. CASE KillReap
  BY <1>14 DEF KillReap
<1>15. ASSUME NEW m \in Members, KillClear(m) PROVE AccessesMatchPlaces'
  BY <1>15 DEF KillClear
<1>16. CASE StopVm
  BY <1>16 DEF StopVm
<1>17. ASSUME NEW a \in Activities, ChildExec(a) PROVE AccessesMatchPlaces'
  BY <1>17 DEF ChildExec
<1>18. ASSUME NEW a \in Activities, GuestExit(a) PROVE AccessesMatchPlaces'
  BY <1>18 DEF GuestExit
<1>19. ASSUME NEW a \in Activities, SigkillTakesEffect(a) PROVE AccessesMatchPlaces'
  BY <1>19 DEF SigkillTakesEffect
<1> HIDE DEF VarTypes, AccessesMatchPlaces, Members, vars
<1> QED
  BY <1>1, <1>2, <1>3, <1>4, <1>5, <1>6, <1>7, <1>8, <1>9, <1>10, <1>11, <1>12, <1>13,
     <1>14, <1>15, <1>16, <1>17, <1>18, <1>19, <1>20 DEF Next, MainStep, LaunchStep, MonitorStep

(* Every reachable state is well typed, and a thread has accesses to       *)
(* guestPid_ and running_ left exactly at the places that perform them.    *)
THEOREM TypeCorrect == Spec => []TypeOK
<1>1. Init => TypeOK
  <2> SUFFICES ASSUME Init PROVE TypeOK
    OBVIOUS
  <2>1. VarTypes
    BY DEF Init, VarTypes, Members, ActivityState, ProcState, LaunchState, MonitorState, MainState
  <2>2. AccessesMatchPlaces
    BY DEF Init, AccessesMatchPlaces
  <2> QED
    BY <2>1, <2>2 DEF TypeOK
<1>2. TypeOK /\ [Next]_vars => TypeOK'
  BY TypesStep, PlacesStep DEF TypeOK
<1> QED
  BY <1>1, <1>2, PTL DEF Spec

-----------------------------------------------------------------------------

(* guestPid_ never holds a pid that no thread is going to clear: it is     *)
(* inductive because only the launch of p stores p, and a monitor that     *)
(* stops waiting clears guestPid_ whatever it holds.                       *)
THEOREM PublishedPidCorrect == Spec => []PublishedPidHasOwnMonitor
<1>1. Init => PublishedPidHasOwnMonitor
  BY ActivitiesAssumption DEF Init, PublishedPidHasOwnMonitor
<1>2. TypeOK /\ PublishedPidHasOwnMonitor /\ [Next]_vars => PublishedPidHasOwnMonitor'
  <2> SUFFICES ASSUME TypeOK, PublishedPidHasOwnMonitor, [Next]_vars,
                      NEW p \in Activities, guestPid' = p
               PROVE  HasOwnMonitor(p)'
    BY DEF PublishedPidHasOwnMonitor
  <2> USE ActivitiesAssumption
      DEF PublishedPidHasOwnMonitor, HasOwnMonitor, TypeOK, VarTypes, AccessesMatchPlaces,
          Members, vars, hostVars, memberVars, launchVars, monitorVars, mainVars
  <2>1. CASE UNCHANGED vars
    BY <2>1
  <2>2. ASSUME NEW a \in Activities, SurfaceCreated(a) PROVE HasOwnMonitor(p)'
    BY <2>2 DEF SurfaceCreated
  <2>3. ASSUME NEW a \in Activities, OnDestroy(a) PROVE HasOwnMonitor(p)'
    BY <2>3 DEF OnDestroy
  <2>4. ASSUME NEW a \in Activities, LaunchGuest(a) PROVE HasOwnMonitor(p)'
    BY <2>4 DEF LaunchGuest
  <2>21. ASSUME NEW a \in Activities, DispatchLaunch(a) PROVE HasOwnMonitor(p)'
    BY <2>21 DEF DispatchLaunch
  <2>5. ASSUME NEW a \in Activities, NEW m \in Members, CheckRunning(a, m) PROVE HasOwnMonitor(p)'
    BY <2>5 DEF CheckRunning
  <2>6. ASSUME NEW a \in Activities, Prepare(a) PROVE HasOwnMonitor(p)'
    BY <2>6 DEF Prepare
  <2>7. ASSUME NEW a \in Activities, Fork(a) PROVE HasOwnMonitor(p)'
    BY <2>7 DEF Fork
  <2>8. ASSUME NEW a \in Activities, NEW m \in Members, Publish(a, m) PROVE HasOwnMonitor(p)'
    BY <2>8 DEF Publish
  <2>9. ASSUME NEW a \in Activities, SpawnMonitor(a) PROVE HasOwnMonitor(p)'
    BY <2>9 DEF SpawnMonitor
  <2>10. ASSUME NEW a \in Activities, MonitorStart(a) PROVE HasOwnMonitor(p)'
    BY <2>10 DEF MonitorStart
  <2>11. ASSUME NEW a \in Activities, MonitorWake(a) PROVE HasOwnMonitor(p)'
    BY <2>11 DEF MonitorWake
  <2>12. ASSUME NEW a \in Activities, NEW m \in Members, MonitorClear(a, m) PROVE HasOwnMonitor(p)'
    BY <2>12 DEF MonitorClear, Clear
  <2>13. CASE KillCheck
    BY <2>13 DEF KillCheck
  <2>14. CASE KillSignal
    BY <2>14 DEF KillSignal
  <2>15. CASE KillReap
    BY <2>15 DEF KillReap
  <2>16. ASSUME NEW m \in Members, KillClear(m) PROVE HasOwnMonitor(p)'
    BY <2>16 DEF KillClear, Clear
  <2>17. CASE StopVm
    BY <2>17 DEF StopVm
  <2>18. ASSUME NEW a \in Activities, ChildExec(a) PROVE HasOwnMonitor(p)'
    BY <2>18 DEF ChildExec
  <2>19. ASSUME NEW a \in Activities, GuestExit(a) PROVE HasOwnMonitor(p)'
    BY <2>19 DEF GuestExit
  <2>20. ASSUME NEW a \in Activities, SigkillTakesEffect(a) PROVE HasOwnMonitor(p)'
    BY <2>20 DEF SigkillTakesEffect
  <2> HIDE DEF HasOwnMonitor, TypeOK, Members, vars
  <2> QED
    BY <2>1, <2>2, <2>3, <2>4, <2>5, <2>6, <2>7, <2>8, <2>9, <2>10, <2>11,
       <2>12, <2>13, <2>14, <2>15, <2>16, <2>17, <2>18, <2>19, <2>20, <2>21
       DEF Next, MainStep, LaunchStep, MonitorStep
<1> QED
  BY <1>1, <1>2, TypeCorrect, PTL DEF Spec

(* running_ never stays true with no thread left to reset it.              *)
THEOREM RunningCorrect == Spec => []RunningHasClearer
<1>1. Init => RunningHasClearer
  BY DEF Init, RunningHasClearer
<1>2. TypeOK /\ RunningHasClearer /\ [Next]_vars => RunningHasClearer'
  <2> SUFFICES ASSUME TypeOK, RunningHasClearer, [Next]_vars, running'
               PROVE  \E b \in Activities : HasClearer(b)'
    BY DEF RunningHasClearer
  <2> USE DEF RunningHasClearer, HasClearer, TypeOK, VarTypes, AccessesMatchPlaces,
              Members, vars, hostVars, memberVars, launchVars, monitorVars, mainVars
  <2>1. CASE UNCHANGED vars
    BY <2>1
  <2>2. ASSUME NEW a \in Activities, SurfaceCreated(a) PROVE \E b \in Activities : HasClearer(b)'
    BY <2>2 DEF SurfaceCreated
  <2>3. ASSUME NEW a \in Activities, OnDestroy(a) PROVE \E b \in Activities : HasClearer(b)'
    BY <2>3 DEF OnDestroy
  <2>4. ASSUME NEW a \in Activities, LaunchGuest(a) PROVE \E b \in Activities : HasClearer(b)'
    BY <2>4 DEF LaunchGuest
  <2>21. ASSUME NEW a \in Activities, DispatchLaunch(a) PROVE \E b \in Activities : HasClearer(b)'
    BY <2>21 DEF DispatchLaunch
  <2>5. ASSUME NEW a \in Activities, NEW m \in Members, CheckRunning(a, m) PROVE \E b \in Activities : HasClearer(b)'
    BY <2>5 DEF CheckRunning
  <2>6. ASSUME NEW a \in Activities, Prepare(a) PROVE \E b \in Activities : HasClearer(b)'
    BY <2>6 DEF Prepare
  <2>7. ASSUME NEW a \in Activities, Fork(a) PROVE \E b \in Activities : HasClearer(b)'
    BY <2>7 DEF Fork
  <2>8. ASSUME NEW a \in Activities, NEW m \in Members, Publish(a, m) PROVE \E b \in Activities : HasClearer(b)'
    BY <2>8 DEF Publish
  <2>9. ASSUME NEW a \in Activities, SpawnMonitor(a) PROVE \E b \in Activities : HasClearer(b)'
    BY <2>9 DEF SpawnMonitor
  <2>10. ASSUME NEW a \in Activities, MonitorStart(a) PROVE \E b \in Activities : HasClearer(b)'
    BY <2>10 DEF MonitorStart
  <2>11. ASSUME NEW a \in Activities, MonitorWake(a) PROVE \E b \in Activities : HasClearer(b)'
    BY <2>11 DEF MonitorWake
  <2>12. ASSUME NEW a \in Activities, NEW m \in Members, MonitorClear(a, m) PROVE \E b \in Activities : HasClearer(b)'
    BY <2>12 DEF MonitorClear, Clear
  <2>13. CASE KillCheck
    BY <2>13 DEF KillCheck
  <2>14. CASE KillSignal
    BY <2>14 DEF KillSignal
  <2>15. CASE KillReap
    BY <2>15 DEF KillReap
  <2>16. ASSUME NEW m \in Members, KillClear(m) PROVE \E b \in Activities : HasClearer(b)'
    BY <2>16 DEF KillClear, Clear
  <2>17. CASE StopVm
    BY <2>17 DEF StopVm
  <2>18. ASSUME NEW a \in Activities, ChildExec(a) PROVE \E b \in Activities : HasClearer(b)'
    BY <2>18 DEF ChildExec
  <2>19. ASSUME NEW a \in Activities, GuestExit(a) PROVE \E b \in Activities : HasClearer(b)'
    BY <2>19 DEF GuestExit
  <2>20. ASSUME NEW a \in Activities, SigkillTakesEffect(a) PROVE \E b \in Activities : HasClearer(b)'
    BY <2>20 DEF SigkillTakesEffect
  <2> HIDE DEF HasClearer, TypeOK, Members, vars
  <2> QED
    BY <2>1, <2>2, <2>3, <2>4, <2>5, <2>6, <2>7, <2>8, <2>9, <2>10, <2>11,
       <2>12, <2>13, <2>14, <2>15, <2>16, <2>17, <2>18, <2>19, <2>20, <2>21
       DEF Next, MainStep, LaunchStep, MonitorStep
<1> QED
  BY <1>1, <1>2, TypeCorrect, PTL DEF Spec

-----------------------------------------------------------------------------
(* While nothing was stopped and a is the only launch, what the members    *)
(* hold follows from where the launch and its monitor stand.               *)
Record(a) ==
  /\ main = "idle"
  /\ launch[a] \in {"idle", "dispatched", "checking", "preparing", "forking"} => proc[a] = "none"
  /\ launch[a] = "publishing" =>
       /\ "guestPid" \notin pending[a] => guestPid = a
       /\ "running" \notin pending[a] => running
  /\ (launch[a] = "spawning" \/ monitor[a] \in {"start", "waiting"}) => guestPid = a /\ running
  /\ monitor[a] = "waiting" => target[a] = a
  /\ monitor[a] \in {"clearing", "done"} => proc[a] \notin Live
  /\ (launch[a] = "returned" /\ monitor[a] = "none") => proc[a] = "none"

SoleRecord == NothingStopped => \A a \in Activities : SoleLaunch(a) => Record(a)

(* A launch, once started, stays started, and a stop is never undone.      *)
LEMMA HistoryIsKept ==
  ASSUME TypeOK, [Next]_vars
  PROVE  /\ NothingStopped' => NothingStopped
         /\ \A a \in Activities : SoleLaunch(a)' => SoleLaunch(a)
<1>1. \A b \in Activities : activity[b] = "destroyed" => activity'[b] = "destroyed"
  BY DEF TypeOK, VarTypes, Next, vars, hostVars, MainStep, LaunchStep, MonitorStep,
         SurfaceCreated, OnDestroy, DispatchLaunch, LaunchGuest, CheckRunning, Prepare, Fork, Publish,
         SpawnMonitor, MonitorStart, MonitorWake, MonitorClear, KillCheck, KillSignal,
         KillReap, KillClear, StopVm, ChildExec, GuestExit, SigkillTakesEffect
<1>2. \A b \in Activities : launch[b] # "idle" => launch'[b] # "idle"
  BY DEF TypeOK, VarTypes, Next, vars, launchVars, MainStep, LaunchStep, MonitorStep,
         SurfaceCreated, OnDestroy, DispatchLaunch, LaunchGuest, CheckRunning, Prepare, Fork, Publish,
         SpawnMonitor, MonitorStart, MonitorWake, MonitorClear, KillCheck, KillSignal,
         KillReap, KillClear, StopVm, ChildExec, GuestExit, SigkillTakesEffect
<1> QED
  BY <1>1, <1>2 DEF NothingStopped, SoleLaunch

(* While nothing was stopped, the only guest is on record as long as it    *)
(* lives: its monitor reads its own pid and clears it only after the end.  *)
THEOREM SoleGuestCorrect == Spec => []SoleGuestIsRegistered
<1>1. Init => SoleRecord
  BY DEF Init, SoleRecord, Record
<1>2. TypeOK /\ SoleRecord /\ [Next]_vars => SoleRecord'
  <2> SUFFICES ASSUME TypeOK, SoleRecord, [Next]_vars, NothingStopped',
                      NEW a \in Activities, SoleLaunch(a)'
               PROVE  Record(a)'
    BY DEF SoleRecord
  <2>0. /\ Record(a)
        /\ \A b \in Activities : activity'[b] # "destroyed"
        /\ \A b \in Activities \ {a} : launch'[b] = "idle" /\ monitor[b] = "none"
    <3>1. NothingStopped /\ SoleLaunch(a)
      BY HistoryIsKept
    <3>2. Record(a)
      BY <3>1 DEF SoleRecord
    <3>3. \A b \in Activities \ {a} : launch[b] = "idle"
      BY <3>1 DEF SoleLaunch
    <3> QED
      BY <3>2, <3>3 DEF NothingStopped, SoleLaunch, TypeOK, AccessesMatchPlaces
  <2> USE ActivitiesAssumption
      DEF Record, TypeOK, VarTypes, AccessesMatchPlaces, Members, Live, vars,
          hostVars, memberVars, launchVars, monitorVars, mainVars
  <2>1. CASE UNCHANGED vars
    BY <2>0, <2>1
  <2>2. ASSUME NEW b \in Activities, SurfaceCreated(b) PROVE Record(a)'
    BY <2>0, <2>2 DEF SurfaceCreated
  <2>3. ASSUME NEW b \in Activities, OnDestroy(b) PROVE Record(a)'
    BY <2>0, <2>3 DEF OnDestroy
  <2>4. ASSUME NEW b \in Activities, LaunchGuest(b) PROVE Record(a)'
    BY <2>0, <2>4 DEF LaunchGuest
  <2>21. ASSUME NEW b \in Activities, DispatchLaunch(b) PROVE Record(a)'
    BY <2>0, <2>21 DEF DispatchLaunch
  <2>5. ASSUME NEW b \in Activities, NEW m \in Members, CheckRunning(b, m) PROVE Record(a)'
    BY <2>0, <2>5 DEF CheckRunning
  <2>6. ASSUME NEW b \in Activities, Prepare(b) PROVE Record(a)'
    BY <2>0, <2>6 DEF Prepare
  <2>7. ASSUME NEW b \in Activities, Fork(b) PROVE Record(a)'
    BY <2>0, <2>7 DEF Fork
  <2>8. ASSUME NEW b \in Activities, NEW m \in Members, Publish(b, m) PROVE Record(a)'
    BY <2>0, <2>8 DEF Publish
  <2>9. ASSUME NEW b \in Activities, SpawnMonitor(b) PROVE Record(a)'
    BY <2>0, <2>9 DEF SpawnMonitor
  <2>10. ASSUME NEW b \in Activities, MonitorStart(b) PROVE Record(a)'
    BY <2>0, <2>10 DEF MonitorStart
  <2>11. ASSUME NEW b \in Activities, MonitorWake(b) PROVE Record(a)'
    BY <2>0, <2>11 DEF MonitorWake, WaitSet, IsChild
  <2>12. ASSUME NEW b \in Activities, NEW m \in Members, MonitorClear(b, m) PROVE Record(a)'
    BY <2>0, <2>12 DEF MonitorClear, Clear
  <2>13. CASE KillCheck
    BY <2>0, <2>13 DEF KillCheck
  <2>14. CASE KillSignal
    BY <2>0, <2>14 DEF KillSignal
  <2>15. CASE KillReap
    BY <2>0, <2>15 DEF KillReap
  <2>16. ASSUME NEW m \in Members, KillClear(m) PROVE Record(a)'
    BY <2>0, <2>16 DEF KillClear
  <2>17. CASE StopVm
    BY <2>0, <2>17 DEF StopVm
  <2>18. ASSUME NEW b \in Activities, ChildExec(b) PROVE Record(a)'
    BY <2>0, <2>18 DEF ChildExec
  <2>19. ASSUME NEW b \in Activities, GuestExit(b) PROVE Record(a)'
    BY <2>0, <2>19 DEF GuestExit
  <2>20. ASSUME NEW b \in Activities, SigkillTakesEffect(b) PROVE Record(a)'
    BY <2>0, <2>20 DEF SigkillTakesEffect
  <2> HIDE DEF Record, TypeOK, Members, vars
  <2> QED
    BY <2>1, <2>2, <2>3, <2>4, <2>5, <2>6, <2>7, <2>8, <2>9, <2>10, <2>11,
       <2>12, <2>13, <2>14, <2>15, <2>16, <2>17, <2>18, <2>19, <2>20, <2>21
       DEF Next, MainStep, LaunchStep, MonitorStep
<1>3. TypeOK /\ SoleRecord => SoleGuestIsRegistered
  BY DEF TypeOK, VarTypes, MonitorState, SoleRecord, Record, SoleGuestIsRegistered, Live
<1> QED
  BY <1>1, <1>2, <1>3, TypeCorrect, PTL DEF Spec

-----------------------------------------------------------------------------

(* A set of natural numbers has a least one.                               *)
LEMMA Least ==
  ASSUME NEW T, T \subseteq Nat, T # {}
  PROVE  \E n \in T : \A m \in T : n <= m
<1> DEFINE R == {ss \in Nat \X Nat : ss[1] < ss[2]}
<1>1. R = OpToRel(<, Nat)  BY Zenon DEF OpToRel
<1>2. IsWellFoundedOn(R, Nat)  BY <1>1, NatLessThanWellFounded, Zenon
<1>3. \E n \in T : \A m \in T : ~(<<m, n>> \in R)
  <2> HIDE DEF R
  <2> QED BY <1>2, WFMin
<1>4. PICK n \in T : \A m \in T : ~(<<m, n>> \in R)  BY <1>3
<1>5. ASSUME NEW m \in T PROVE n <= m
  <2>1. <<m, n>> \notin R BY <1>4
  <2> QED BY <2>1
<1> QED BY <1>5

(* What comes step by step has a property that every step keeps.           *)
LEMMA Climbing ==
  ASSUME NEW N \in Nat, NEW P, 0 \in P, \A n \in 1..N : n - 1 \in P => n \in P
  PROVE  \A n \in 0..N : n \in P
<1> DEFINE T == {n \in 0..N : n \notin P}
<1>1. SUFFICES ASSUME T # {} PROVE FALSE  OBVIOUS
<1>2. PICK n \in T : \A m \in T : n <= m
  <2>1. T \subseteq Nat  OBVIOUS
  <2> HIDE DEF T
  <2> QED BY <1>1, <2>1, Least
<1>3. n \in 0..N /\ n \notin P  OBVIOUS
<1>4. n # 0  BY <1>3
<1>5. n - 1 \in 0..N /\ n \in 1..N /\ ~(n <= n - 1)  BY <1>3, <1>4
<1> QED BY <1>2, <1>3, <1>5

LEMMA Elements ==
  ASSUME NEW S, NEW s \in Seq(S)
  PROVE  Len(s) \in Nat /\ \A n \in 1..Len(s) : s[n] \in S
BY LenProperties, ElementOfSeq

LEMMA Dividing ==
  ASSUME NEW n \in Nat \ {0}, NEW a \in Nat
  PROVE  /\ a \div n \in Nat /\ a % n \in 0..(n - 1)
         /\ a = (a \div n) * n + (a % n)
OBVIOUS

LEMMA Times ==
  ASSUME NEW n \in Nat, NEW a \in Nat, NEW b \in Nat
  PROVE  /\ a * n \in Nat /\ (a + b) * n = a * n + b * n
         /\ a <= b => a * n <= b * n
         /\ a < b => a * n + n <= b * n
OBVIOUS

LEMMA Quotient ==
  ASSUME NEW n \in Nat \ {0}, NEW q \in Nat, NEW r \in 0..(n - 1), NEW a \in Nat, a = q * n + r
  PROVE  a \div n = q /\ a % n = r
<1>1. PICK p, s : p = a \div n /\ s = a % n OBVIOUS
<1>2. p \in Nat /\ s \in 0..(n - 1) /\ a = p * n + s  BY <1>1, Dividing
<1>3. ~(p < q)
  <2> SUFFICES ASSUME p < q PROVE FALSE OBVIOUS
  <2>1. p * n + n <= q * n BY <1>2, Times
  <2>2. PICK x \in Nat, y \in Nat : x = p * n /\ y = q * n BY <1>2, Times
  <2> QED BY <1>2, <2>1, <2>2
<1>4. ~(q < p)
  <2> SUFFICES ASSUME q < p PROVE FALSE OBVIOUS
  <2>1. q * n + n <= p * n BY <1>2, Times
  <2>2. PICK x \in Nat, y \in Nat : x = p * n /\ y = q * n BY <1>2, Times
  <2> QED BY <1>2, <2>1, <2>2
<1>5. p = q BY <1>2, <1>3, <1>4
<1>6. PICK x \in Nat : x = p * n BY <1>2, Times
<1> QED BY <1>1, <1>2, <1>5, <1>6

-----------------------------------------------------------------------------
(* Pages and words: what the quotients and remainders by PageSize are.     *)
LEMMA PageOfWord ==
  ASSUME NEW w \in Nat
  PROVE  /\ PageOf(w) \in Nat /\ w % PageSize \in 0..(PageSize - 1)
         /\ w = PageOf(w) * PageSize + (w % PageSize)
BY ElfLoaderAssumption, Dividing DEF PageOf

LEMMA PageIs ==
  ASSUME NEW q \in Nat, NEW r \in 0..(PageSize - 1), NEW w \in Nat, w = q * PageSize + r
  PROVE  PageOf(w) = q /\ w % PageSize = r
BY ElfLoaderAssumption, Quotient DEF PageOf

(* A word begins its page or comes behind the beginning.                   *)
LEMMA PageBelow ==
  ASSUME NEW w \in Nat, NEW q \in Nat
  PROVE  /\ q * PageSize \in Nat
         /\ q <= PageOf(w) <=> q * PageSize <= w
         /\ w < (PageOf(w) + 1) * PageSize
<1>1. PICK n \in Nat \ {0} : n = PageSize  BY ElfLoaderAssumption
<1>2. PICK p \in Nat, r \in 0..(n - 1) : p = PageOf(w) /\ w = p * n + r  BY <1>1, PageOfWord
<1>3. PICK x \in Nat, y \in Nat : x = p * n /\ y = q * n  BY <1>1, Times
<1>4. (p + 1) * n = x + n
  <2>1. PICK z \in Nat : z = 1 /\ z * n = n  BY <1>1
  <2>2. (p + z) * n = p * n + z * n  BY <1>1, <2>1, Times
  <2> QED BY <1>3, <2>1, <2>2
<1>5. ASSUME q <= p PROVE y <= w
  <2>1. y <= x  BY <1>1, <1>3, <1>5, Times
  <2> QED BY <1>1, <1>2, <1>3, <2>1
<1>6. ASSUME p < q PROVE w < y
  <2>1. x + n <= y  BY <1>1, <1>3, <1>6, Times
  <2> QED BY <1>1, <1>2, <1>3, <2>1
<1>7. w < x + n  BY <1>1, <1>2, <1>3
<1> QED BY <1>1, <1>2, <1>3, <1>4, <1>5, <1>6, <1>7

(* The pages needed for some words are the least number that holds them.   *)
LEMMA PagesUpIs ==
  ASSUME NEW w \in Nat, NEW m \in Nat
  PROVE  /\ PagesUp(w) \in Nat /\ w <= PagesUp(w) * PageSize
         /\ m < PagesUp(w) <=> m * PageSize < w
<1>1. PICK n \in Nat \ {0} : n = PageSize  BY ElfLoaderAssumption
<1>2. PICK v \in Nat : v = w + n - 1  BY <1>1
<1>3. PagesUp(w) = PageOf(v)  BY <1>1, <1>2 DEF PagesUp, PageOf
<1>4. PICK p \in Nat : p = PageOf(v)  BY PageOfWord
<1>5. PICK x \in Nat, y \in Nat : x = p * n /\ y = m * n  BY <1>1, Times
<1>6. PICK k \in Nat : k = m + 1  OBVIOUS
<1>7. k * n = y + n
  <2>1. PICK z \in Nat : z = 1 /\ z * n = n  BY <1>1
  <2>2. (m + z) * n = m * n + z * n  BY <1>1, <2>1, Times
  <2> QED BY <1>5, <1>6, <2>1, <2>2
<1>8. (p + 1) * n = x + n
  <2>1. PICK z \in Nat : z = 1 /\ z * n = n  BY <1>1
  <2>2. (p + z) * n = p * n + z * n  BY <1>1, <2>1, Times
  <2> QED BY <1>5, <2>1, <2>2
<1>9. v < x + n  BY <1>1, <1>4, <1>8, PageBelow
<1>10. k <= p <=> y + n <= v  BY <1>1, <1>4, <1>7, PageBelow
<1>11. w <= x  BY <1>1, <1>2, <1>5, <1>9
<1>12. m < p <=> y < w  BY <1>1, <1>2, <1>5, <1>6, <1>10
<1> QED BY <1>1, <1>3, <1>4, <1>5, <1>11, <1>12

(* Addresses that are moved by whole pages.                                *)
LEMMA Shift ==
  ASSUME NEW p \in Nat, NEW x \in Nat
  PROVE  /\ p * PageSize + x \in Nat
         /\ PageOf(p * PageSize + x) = p + PageOf(x)
<1>1. PICK n \in Nat \ {0} : n = PageSize  BY ElfLoaderAssumption
<1>2. PICK q \in Nat, r \in 0..(n - 1) : q = PageOf(x) /\ x = q * n + r  BY <1>1, PageOfWord
<1>3. PICK y \in Nat, z \in Nat : y = p * n /\ z = q * n  BY <1>1, Times
<1>4. (p + q) * n = y + z  BY <1>1, <1>3, Times
<1>5. PICK w \in Nat, t \in Nat : w = y + x /\ t = p + q  BY <1>3
<1>6. w = t * n + r
  <2>1. t * n = y + z  BY <1>4, <1>5
  <2>2. PICK u \in Nat : u = t * n  BY <1>1, Times
  <2> QED BY <1>2, <1>3, <1>5, <2>1, <2>2
<1>7. PageOf(w) = t  BY <1>1, <1>2, <1>5, <1>6, PageIs
<1> QED BY <1>1, <1>2, <1>3, <1>5, <1>7

(* The words are those of the pages.                                       *)
LEMMA WordsOfPages ==
  ASSUME NEW w \in Nat
  PROVE  w \in Words <=> PageOf(w) \in Pages
<1>1. PICK n \in Nat \ {0}, l \in Nat : n = PageSize /\ l = LastPage + 1  BY ElfLoaderAssumption
<1>2. PICK p \in Nat : p = PageOf(w)  BY PageOfWord
<1>3. PICK x \in Nat : x = l * n  BY <1>1, Times
<1>4. l <= p <=> x <= w  BY <1>1, <1>2, <1>3, PageBelow
<1>5. p \in Pages <=> ~(l <= p)  BY <1>1, <1>2, ElfLoaderAssumption DEF Pages
<1>6. w \in Words <=> ~(x <= w)  BY <1>1, <1>3 DEF Words
<1> QED BY <1>2, <1>4, <1>5, <1>6

LEMMA BeginningOfPage ==
  ASSUME NEW p \in Pages
  PROVE  p \in Nat /\ p * PageSize \in Words /\ PageOf(p * PageSize) = p
<1>1. p \in Nat  BY DEF Pages
<1>2. PICK n \in Nat \ {0} : n = PageSize  BY ElfLoaderAssumption
<1>3. PICK w \in Nat, z \in 0..(n - 1) : w = p * n /\ z = 0 /\ w = p * n + z  BY <1>1, <1>2, Times
<1>4. PageOf(w) = p  BY <1>1, <1>2, <1>3, PageIs
<1> QED BY <1>1, <1>2, <1>3, <1>4, WordsOfPages

(* The pages of a segment: from that of its first word up to the last one  *)
(* that begins before its end.                                             *)
LEMMA SegmentPagesAre ==
  ASSUME NEW s \in SegmentRecord, NEW at \in Nat, NEW q \in Nat
  PROVE  /\ SegmentPages(s, at) \subseteq Nat
         /\ q \in SegmentPages(s, at) <=>
              PageOf(at + s.vaddr) <= q /\ q * PageSize < at + s.vaddr + s.memsz
<1>1. PICK v \in Nat, m \in Nat : v = s.vaddr /\ m = s.memsz  BY DEF SegmentRecord
<1>2. PICK n \in Nat \ {0} : n = PageSize  BY ElfLoaderAssumption
<1>3. PICK w \in Nat : w = at + v  OBVIOUS
<1>4. PICK p \in Nat, r \in 0..(n - 1) : p = PageOf(w) /\ r = w % PageSize /\ w = p * n + r
  BY <1>2, PageOfWord
<1>5. PICK k \in Nat : k = m + r  OBVIOUS
<1>6. PICK u \in Nat : u = PagesUp(k)  BY PagesUpIs
<1>7. SegmentPages(s, at) = p..(p + u - 1)
  <2>1. at + s.vaddr = w /\ s.memsz + (w % PageSize) = k  BY <1>1, <1>3, <1>4, <1>5
  <2> QED BY <1>4, <1>6, <2>1 DEF SegmentPages
<1>8. ASSUME p <= q PROVE q < p + u <=> q * n < w + m
  <2>1. PICK d \in Nat : q = p + d  BY <1>8
  <2>2. d < u <=> d * n < k  BY <1>2, <1>5, <1>6, PagesUpIs
  <2>3. PICK x \in Nat, y \in Nat, z \in Nat : x = p * n /\ y = d * n /\ z = q * n  BY <1>2, Times
  <2>4. z = x + y  BY <1>2, <2>1, <2>3, Times
  <2>5. w = x + r
    <3>1. p * n + r = x + r  BY <2>3
    <3> QED BY <1>4, <3>1
  <2>6. y < k <=> z < w + m
    <3>1. r \in Nat  OBVIOUS
    <3> QED BY <1>5, <2>4, <2>5, <3>1
  <2>7. q < p + u <=> d < u  BY <2>1
  <2> QED BY <2>2, <2>3, <2>6, <2>7
<1>9. PICK z \in Nat : z = q * n  BY <1>2, Times
<1>10. ASSUME p <= q PROVE q < p + u <=> z < w + m  BY <1>8, <1>9, <1>10
<1>11. q \in p..(p + u - 1) <=> p <= q /\ z < w + m  BY <1>10
<1>12. p = PageOf(w)  BY <1>4
<1>13. p..(p + u - 1) \subseteq Nat  OBVIOUS
<1>14. z = q * PageSize /\ w = at + s.vaddr /\ m = s.memsz  BY <1>1, <1>2, <1>3, <1>9
<1> QED BY <1>7, <1>11, <1>12, <1>13, <1>14

LEMMA PagesOfItsWords ==
  ASSUME NEW s \in SegmentRecord, NEW at \in Nat, NEW i \in 0..(s.memsz - 1)
  PROVE  at + s.vaddr + i \in Nat /\ PageOf(at + s.vaddr + i) \in SegmentPages(s, at)
<1>1. PICK v \in Nat, m \in Nat : v = s.vaddr /\ m = s.memsz  BY DEF SegmentRecord
<1>2. PICK n \in Nat \ {0} : n = PageSize  BY ElfLoaderAssumption
<1>3. PICK w \in Nat, x \in Nat : w = at + v /\ x = w + i /\ x < w + m  BY <1>1
<1>4. PICK p \in Nat, q \in Nat : p = PageOf(w) /\ q = PageOf(x)  BY PageOfWord
<1>5. PICK y \in Nat, z \in Nat : y = p * n /\ z = q * n  BY <1>2, Times
<1>6. y <= w  BY <1>2, <1>4, <1>5, PageBelow
<1>7. p <= q <=> y <= x  BY <1>2, <1>4, <1>5, PageBelow
<1>8. z <= x  BY <1>2, <1>4, <1>5, PageBelow
<1>9. p <= q /\ z < w + m  BY <1>3, <1>6, <1>7, <1>8
<1>10. q \in SegmentPages(s, at)  BY <1>1, <1>2, <1>3, <1>4, <1>5, <1>9, SegmentPagesAre
<1> QED BY <1>1, <1>3, <1>4, <1>10

LEMMA PagesMoveAlong ==
  ASSUME NEW s \in SegmentRecord, NEW p \in Nat, NEW q \in Nat
  PROVE  /\ q \in SegmentPages(s, p * PageSize) => p <= q
         /\ p <= q => (q \in SegmentPages(s, p * PageSize) <=> q - p \in SegmentPages(s, 0))
<1>1. PICK v \in Nat, m \in Nat : v = s.vaddr /\ m = s.memsz  BY DEF SegmentRecord
<1>2. PICK n \in Nat \ {0} : n = PageSize  BY ElfLoaderAssumption
<1>3. PICK x \in Nat : x = p * n  BY <1>2, Times
<1>4. PICK f \in Nat : f = PageOf(v)  BY PageOfWord
<1>5. PICK z \in Nat : z = q * n  BY <1>2, Times
<1>6. PageOf(x + v) = p + f  BY <1>2, <1>3, <1>4, Shift
<1>7. q \in SegmentPages(s, x) <=> p + f <= q /\ z < x + v + m
  BY <1>1, <1>2, <1>5, <1>6, SegmentPagesAre
<1>8. ASSUME p <= q PROVE q \in SegmentPages(s, x) <=> q - p \in SegmentPages(s, 0)
  <2>1. PICK d \in Nat : q = p + d /\ d = q - p  BY <1>8
  <2>2. PICK y \in Nat : y = d * n  BY <1>2, Times
  <2>3. z = x + y  BY <1>2, <1>3, <1>5, <2>1, <2>2, Times
  <2>4. PICK o \in Nat : o = 0  OBVIOUS
  <2>5. o + v = v  BY <2>4
  <2>6. d \in SegmentPages(s, o) <=> f <= d /\ y < v + m
    BY <1>1, <1>2, <1>4, <2>2, <2>5, SegmentPagesAre
  <2>7. p + f <= q <=> f <= d  BY <2>1
  <2>8. z < x + v + m <=> y < v + m  BY <2>3
  <2> QED BY <1>7, <2>1, <2>4, <2>6, <2>7, <2>8
<1>9. q \in SegmentPages(s, x) => p <= q  BY <1>7
<1> QED BY <1>2, <1>3, <1>8, <1>9

-----------------------------------------------------------------------------
(* The least and the greatest of a bounded set of numbers.                 *)
LEMMA MinIs ==
  ASSUME NEW T, T \subseteq Nat, T # {}
  PROVE  Min(T) \in T /\ \A t \in T : Min(T) <= t
<1>1. \E n \in T : \A m \in T : n <= m  BY Least
<1> QED BY <1>1 DEF Min

LEMMA MaxIs ==
  ASSUME NEW T, T \subseteq Nat, T # {}, NEW b \in Nat, \A t \in T : t <= b
  PROVE  Max(T) \in T /\ \A t \in T : t <= Max(T)
<1> DEFINE B == {c \in Nat : \A t \in T : t <= c}
<1>1. PICK c \in B : \A d \in B : c <= d
  <2>1. B \subseteq Nat /\ b \in B  OBVIOUS
  <2>2. B # {}  BY <2>1
  <2> HIDE DEF B
  <2> QED BY <2>1, <2>2, Least
<1>2. c \in Nat /\ \A t \in T : t <= c  OBVIOUS
<1>3. c \in T
  <2> SUFFICES ASSUME c \notin T PROVE FALSE  OBVIOUS
  <2>1. \A t \in T : t \in Nat /\ t <= c /\ t # c  BY <1>2
  <2>2. PICK t \in T : t \in Nat  BY <2>1
  <2>3. PICK d \in Nat : d = c - 1  BY <1>2, <2>1, <2>2
  <2>4. \A u \in T : u <= d  BY <1>2, <2>1, <2>3
  <2>5. d \in B  BY <2>4
  <2>6. ~(c <= d)  BY <1>2, <2>3
  <2> QED BY <1>1, <2>5, <2>6
<1>4. \A t \in T : c >= t
  <2> TAKE t \in T
  <2>1. t <= c /\ t \in Nat  BY <1>2
  <2> QED BY <1>2, <2>1
<1>5. PICK x \in T : x = Max(T) /\ \A t \in T : x >= t  BY <1>3, <1>4 DEF Max
<1>6. \A t \in T : t <= x
  <2> TAKE t \in T
  <2>1. x >= t /\ t \in Nat /\ x \in Nat  BY <1>5
  <2> QED BY <2>1
<1> QED BY <1>5, <1>6

LEMMA SegmentsOf ==
  ASSUME NEW file, IsImage(file)
  PROVE  /\ Len(file.segments) \in Nat
         /\ \A j \in 1..Len(file.segments) : file.segments[j] \in SegmentRecord
         /\ ToSet(file.segments) = {file.segments[j] : j \in 1..Len(file.segments)}
         /\ file.segments = <<>> <=> Len(file.segments) = 0
<1>1. file.segments \in Seq(SegmentRecord)  BY DEF IsImage
<1>2. DOMAIN file.segments = 1..Len(file.segments)  BY <1>1, LenProperties
<1> QED BY <1>1, <1>2, Elements, EmptySeq DEF ToSet

(* The ends of the segments have a bound.                                  *)
LEMMA EndsAreBounded ==
  ASSUME NEW file, IsImage(file)
  PROVE  \E b \in Nat : \A j \in 1..Len(file.segments) :
           file.segments[j].vaddr + file.segments[j].memsz <= b
<1>1. PICK N \in Nat : N = Len(file.segments)  BY SegmentsOf
<1> DEFINE End(j) == file.segments[j].vaddr + file.segments[j].memsz
           P == {n \in 0..N : \E b \in Nat : \A j \in 1..n : End(j) <= b}
<1>2. \A j \in 1..N : End(j) \in Nat  BY <1>1, SegmentsOf DEF SegmentRecord
<1> HIDE DEF End
<1>3. 0 \in P
  <2>1. \A j \in 1..0 : End(j) <= 0  OBVIOUS
  <2> QED BY <2>1
<1>4. ASSUME NEW n \in 1..N, n - 1 \in P PROVE n \in P
  <2>1. PICK b \in Nat : \A j \in 1..(n - 1) : End(j) <= b  BY <1>4
  <2>2. PICK e \in Nat : e = End(n)  BY <1>2
  <2>3. PICK c \in Nat : b <= c /\ e <= c
    <3>1. b <= b + e /\ e <= b + e /\ b + e \in Nat  BY <2>1, <2>2
    <3> QED BY <3>1
  <2>4. \A j \in 1..n : End(j) <= c
    <3> TAKE j \in 1..n
    <3>1. CASE j = n  BY <2>2, <2>3, <3>1
    <3>2. CASE j # n
      <4>1. j \in 1..(n - 1) /\ j \in 1..N  BY <3>2
      <4>2. PICK x \in Nat : x = End(j)  BY <1>2, <4>1
      <4>3. x <= b  BY <2>1, <4>1, <4>2
      <4> QED BY <2>3, <4>2, <4>3
    <3> QED BY <3>1, <3>2
  <2> QED BY <2>4
<1>5. \A n \in 0..N : n \in P
  <2> HIDE DEF P
  <2> QED BY <1>3, <1>4, Climbing
<1>6. N \in P  BY <1>5
<1>7. PICK b \in Nat : \A j \in 1..N : End(j) <= b  BY <1>6
<1> QED BY <1>1, <1>7 DEF End

(* What is reserved is enough for the segments, counted from the lowest.   *)
LEMMA SpanIs ==
  ASSUME NEW file, IsImage(file)
  PROVE  /\ Span(file) \in Nat /\ Reserved(file) \in Nat
         /\ file.segments # <<>> =>
              \E low \in Nat :
                /\ low = Min({s.vaddr : s \in ToSet(file.segments)})
                /\ \A j \in 1..Len(file.segments) :
                     file.segments[j].vaddr + file.segments[j].memsz <= low + Span(file) * PageSize
<1>1. PICK N \in Nat : N = Len(file.segments)  BY SegmentsOf
<1>2. CASE file.segments = <<>>
  <2>1. Span(file) = 1  BY <1>2 DEF Span
  <2> QED BY <1>2, <2>1, ElfLoaderAssumption DEF Reserved
<1>3. CASE file.segments # <<>>
  <2> DEFINE S == ToSet(file.segments)
             V == {s.vaddr : s \in S}
             E == {s.vaddr + s.memsz : s \in S}
  <2>1. /\ S = {file.segments[j] : j \in 1..N} /\ N # 0
        /\ \A j \in 1..N : file.segments[j] \in SegmentRecord
    BY <1>1, <1>3, SegmentsOf
  <2>2. \A s \in S : s \in SegmentRecord  BY <2>1
  <2>3. \A s \in S : s.vaddr \in Nat /\ s.memsz \in Nat /\ s.vaddr + s.memsz \in Nat
    BY <2>2 DEF SegmentRecord
  <2>4. 1 \in 1..N  BY <2>1
  <2>5. PICK s1 \in S : TRUE  BY <2>1, <2>4
  <2>6. V \subseteq Nat /\ V # {} /\ E \subseteq Nat /\ E # {}  BY <2>3, <2>5
  <2>7. PICK b \in Nat : \A e \in E : e <= b
    <3>1. PICK b \in Nat : \A j \in 1..N : file.segments[j].vaddr + file.segments[j].memsz <= b
      BY <1>1, EndsAreBounded
    <3> QED BY <2>1, <3>1
  <2>8. PICK low \in Nat, high \in Nat : low = Min(V) /\ high = Max(E)
    <3> HIDE DEF S, V, E
    <3> QED BY <2>6, <2>7, MinIs, MaxIs
  <2>9. (\A v \in V : low <= v) /\ (\A e \in E : e <= high)
    <3> HIDE DEF S, V, E
    <3> QED BY <2>6, <2>7, <2>8, MinIs, MaxIs
  <2>10. low <= high
    <3>1. low <= s1.vaddr /\ s1.vaddr + s1.memsz <= high  BY <2>9
    <3>2. PICK x \in Nat, y \in Nat : x = s1.vaddr /\ y = s1.memsz  BY <2>3
    <3> QED BY <2>8, <3>1, <3>2
  <2>11. PICK w \in Nat : w = high - low  BY <2>10
  <2>12. Span(file) = PagesUp(w)  BY <1>3, <2>8, <2>11 DEF Span
  <2>13. Span(file) \in Nat  BY <2>11, <2>12, PagesUpIs
  <2>14. PICK p \in Nat, x \in Nat : p = Span(file) /\ x = p * PageSize
    BY <2>13, ElfLoaderAssumption, Times
  <2>15. w <= x  BY <2>11, <2>12, <2>14, PagesUpIs
  <2>16. \A j \in 1..N : file.segments[j].vaddr + file.segments[j].memsz <= low + x
    <3> TAKE j \in 1..N
    <3>1. file.segments[j] \in S  BY <2>1
    <3>2. PICK e \in Nat : e = file.segments[j].vaddr + file.segments[j].memsz  BY <2>3, <3>1
    <3>3. e <= high  BY <2>9, <3>1, <3>2
    <3> QED BY <2>8, <2>11, <2>15, <3>2, <3>3
  <2>17. Reserved(file) \in Nat  BY <2>13, ElfLoaderAssumption DEF Reserved
  <2>18. \A j \in 1..Len(file.segments) :
           file.segments[j].vaddr + file.segments[j].memsz <= low + Span(file) * PageSize
    BY <1>1, <2>14, <2>16
  <2>19. low \in Nat /\ low = Min({s.vaddr : s \in ToSet(file.segments)})  BY <2>8
  <2> QED BY <2>13, <2>17, <2>18, <2>19
<1> QED BY <1>2, <1>3

-----------------------------------------------------------------------------
(* What Usual says of a file, and the pages that are reserved for it.      *)
UsualFile(file) ==
  /\ file.type = "dyn"
  /\ file.segments # <<>> => Min({s.vaddr : s \in ToSet(file.segments)}) <= Slack * PageSize
  /\ \A j, k \in 1..Len(file.segments) :
       j # k => SegmentPages(file.segments[j], 0) \cap SegmentPages(file.segments[k], 0) = {}
Area(file, at) == PageOf(at)..(PageOf(at) + Reserved(file) - 1)

LEMMA UsualIs == Usual <=> \A file \in Files : UsualFile(file)
BY DEF Usual, UsualFile

(* Every segment lies in the reserved pages, no two in the same page.      *)
LEMMA SegmentsInArea ==
  ASSUME NEW file, IsImage(file), UsualFile(file), NEW p \in Nat, NEW j \in 1..Len(file.segments)
  PROVE  SegmentPages(file.segments[j], p * PageSize) \subseteq Area(file, p * PageSize)
<1>1. PICK n \in Nat \ {0}, k \in Nat : n = PageSize /\ k = Slack  BY ElfLoaderAssumption
<1>2. PICK s \in SegmentRecord : s = file.segments[j]  BY SegmentsOf
<1>3. PICK v \in Nat, m \in Nat : v = s.vaddr /\ m = s.memsz  BY DEF SegmentRecord
<1>4. PICK x \in Nat : x = p * n /\ PageOf(x) = p
  <2>1. PICK x \in Nat : x = p * n  BY <1>1, Times
  <2>2. PICK z \in 0..(n - 1) : z = 0  BY <1>1
  <2>3. x = p * n + z  BY <2>1, <2>2
  <2>4. PageOf(x) = p  BY <1>1, <2>3, PageIs
  <2> QED BY <2>1, <2>4
<1>5. file.segments # <<>>  BY SegmentsOf
<1>6. PICK r \in Nat, h \in Nat : r = Span(file) /\ h = Reserved(file) /\ h = r + k
  BY <1>1, SpanIs DEF Reserved
<1>7. PICK low \in Nat : /\ low = Min({t.vaddr : t \in ToSet(file.segments)})
                         /\ v + m <= low + r * n
  BY <1>1, <1>2, <1>3, <1>5, <1>6, SpanIs
<1>8. low <= k * n  BY <1>1, <1>5, <1>7 DEF UsualFile
<1>9. PICK a \in Nat, b \in Nat : a = r * n /\ b = k * n /\ h * n = a + b  BY <1>1, <1>6, Times
<1>10. v + m <= a + b  BY <1>7, <1>8, <1>9
<1>11. ASSUME NEW q \in SegmentPages(s, x) PROVE q \in Area(file, x)
  <2>1. q \in Nat  BY <1>4, SegmentPagesAre
  <2>2. p <= q  BY <1>1, <1>4, <1>11, <2>1, PagesMoveAlong
  <2>3. PICK y \in Nat : y = q * n  BY <1>1, <2>1, Times
  <2>4. y < x + v + m  BY <1>1, <1>3, <1>11, <2>1, <2>3, SegmentPagesAre
  <2>5. y < x + a + b  BY <1>10, <2>4
  <2>6. PICK t \in Nat : t = p + h  OBVIOUS
  <2>7. t * n = x + a + b
    <3>1. (p + h) * n = p * n + h * n  BY <1>1, Times
    <3>2. t * n = x + h * n  BY <1>4, <2>6, <3>1
    <3>3. PICK c \in Nat : c = h * n /\ c = a + b  BY <1>9
    <3> QED BY <3>2, <3>3
  <2>8. ~(t <= q)
    <3>1. t <= q => t * n <= y  BY <1>1, <2>1, <2>3, Times
    <3>2. ~(x + a + b <= y)  BY <2>5
    <3> QED BY <2>7, <3>1, <3>2
  <2> QED BY <1>4, <1>6, <2>1, <2>2, <2>6, <2>8 DEF Area
<1> QED BY <1>1, <1>2, <1>4, <1>11

LEMMA SegmentsApart ==
  ASSUME NEW file, IsImage(file), UsualFile(file), NEW p \in Nat,
         NEW j \in 1..Len(file.segments), NEW k \in 1..Len(file.segments), j # k,
         NEW q \in SegmentPages(file.segments[j], p * PageSize)
  PROVE  q \notin SegmentPages(file.segments[k], p * PageSize)
<1>1. PICK s \in SegmentRecord, t \in SegmentRecord : s = file.segments[j] /\ t = file.segments[k]
  BY SegmentsOf
<1>2. q \in Nat /\ p <= q
  <2>1. PICK x \in Nat : x = p * PageSize  BY ElfLoaderAssumption, Times
  <2>2. q \in Nat  BY <1>1, <2>1, SegmentPagesAre
  <2> QED BY <1>1, <2>2, PagesMoveAlong
<1>3. q - p \in SegmentPages(s, 0)  BY <1>1, <1>2, PagesMoveAlong
<1>4. q - p \notin SegmentPages(t, 0)  BY <1>1, <1>3 DEF UsualFile
<1> QED BY <1>1, <1>2, <1>4, PagesMoveAlong

-----------------------------------------------------------------------------
(* A file has its pages, at a place in memory m of which others have o.    *)
Has(file, at, m, o) ==
  /\ PageOf(at) \in Pages /\ at = PageOf(at) * PageSize
  /\ \A q \in Area(file, at) : q \in Pages /\ m[q] # None /\ q \notin o

(* The first n - 1 segments of a file are there, in memory m with data d.  *)
SegmentPlaced(s, file, name, at, m, d) ==
  \A i \in 0..(s.memsz - 1) :
    /\ d[at + s.vaddr + i] = Content(file, name, s, i)
    /\ m[PageOf(at + s.vaddr + i)] = Owned(name, s.flags)
Placed(file, name, at, n, m, d) ==
  \A j \in 1..Len(file.segments) : j < n => SegmentPlaced(file.segments[j], file, name, at, m, d)

(* Two memories agree on some pages.                                       *)
Agree(pages, m, d, mm, dd) ==
  /\ \A q \in pages : mm[q] = m[q]
  /\ \A w \in Words : PageOf(w) \in pages => dd[w] = d[w]

LEMMA PlacedStays ==
  ASSUME NEW s \in SegmentRecord, NEW file, NEW name, NEW at \in Nat, NEW m, NEW d, NEW mm, NEW dd,
         SegmentPages(s, at) \subseteq Pages, Agree(SegmentPages(s, at), m, d, mm, dd),
         SegmentPlaced(s, file, name, at, m, d)
  PROVE  SegmentPlaced(s, file, name, at, mm, dd)
<1> SUFFICES ASSUME NEW i \in 0..(s.memsz - 1)
             PROVE  /\ dd[at + s.vaddr + i] = Content(file, name, s, i)
                    /\ mm[PageOf(at + s.vaddr + i)] = Owned(name, s.flags)
  BY DEF SegmentPlaced
<1>1. PICK w \in Nat : w = at + s.vaddr + i /\ PageOf(w) \in SegmentPages(s, at)
  BY PagesOfItsWords
<1>2. w \in Words  BY <1>1, WordsOfPages
<1>3. dd[w] = d[w] /\ mm[PageOf(w)] = m[PageOf(w)]  BY <1>1, <1>2 DEF Agree
<1>4. d[w] = Content(file, name, s, i) /\ m[PageOf(w)] = Owned(name, s.flags)
  BY <1>1 DEF SegmentPlaced
<1> QED BY <1>1, <1>3, <1>4

(* What happens elsewhere leaves the segments where they are.              *)
LEMMA AllPlacedStay ==
  ASSUME NEW file, IsImage(file), UsualFile(file), NEW name, NEW at \in Nat, NEW n \in Nat,
         NEW m, NEW d, NEW mm, NEW dd, NEW o,
         Has(file, at, m, o), Agree(Area(file, at), m, d, mm, dd),
         Placed(file, name, at, n, m, d)
  PROVE  Placed(file, name, at, n, mm, dd)
<1> SUFFICES ASSUME NEW j \in 1..Len(file.segments), j < n
             PROVE  SegmentPlaced(file.segments[j], file, name, at, mm, dd)
  BY DEF Placed
<1>1. PICK s \in SegmentRecord : s = file.segments[j]  BY SegmentsOf
<1>2. PICK p \in Nat : at = p * PageSize  BY DEF Has, Pages
<1>3. SegmentPages(s, at) \subseteq Area(file, at)  BY <1>1, <1>2, SegmentsInArea
<1>4. SegmentPages(s, at) \subseteq Pages  BY <1>3 DEF Has
<1>5. Agree(SegmentPages(s, at), m, d, mm, dd)  BY <1>3 DEF Agree
<1>6. SegmentPlaced(s, file, name, at, m, d)  BY <1>1 DEF Placed
<1>7. SegmentPlaced(s, file, name, at, mm, dd)  BY <1>4, <1>5, <1>6, PlacedStays
<1> QED BY <1>1, <1>7

-----------------------------------------------------------------------------
(* Type correctness.                                                       *)
OwnedPages == {Owned(owner, prot) : owner \in Owners, prot \in SUBSET {"R", "W", "X"}}
Values == {"zero", "bin", "interp"} \X Nat
Underway == {"map", "interp", "mapInterp", "stack", "jumped"}

LoadTypes ==
  /\ program \in Programs /\ seg \in Nat \ {0} /\ (pc = "open" => seg = 1)
  /\ pc \in Underway \cup {"open", "failed", "crashed"}
  /\ pc \in {"interp", "mapInterp"} => program.interp # None
  /\ pc \in {"mapInterp", "stack", "jumped"} /\ program.interp # None => program.interp # Missing
  /\ map \in [Pages -> OwnedPages \cup {None}]
  /\ data \in [Words -> Values]
  /\ base \in Words /\ interpBase \in Words
  /\ others \subseteq Pages /\ 0 \in others /\ ignored \in BOOLEAN

LEMMA TypesSuffice == LoadTypes => LoadTypeOK
<1> SUFFICES ASSUME LoadTypes PROVE LoadTypeOK  OBVIOUS
<1>1. \A p \in Pages : map[p] # None =>
        map[p].owner \in Owners /\ map[p].prot \subseteq {"R", "W", "X"}
  <2> TAKE p \in Pages
  <2>1. map[p] \in OwnedPages \cup {None}  BY DEF LoadTypes
  <2>2. CASE map[p] \in OwnedPages
    <3>1. PICK owner \in Owners, prot \in SUBSET {"R", "W", "X"} : map[p] = Owned(owner, prot)
      BY <2>2 DEF OwnedPages
    <3>2. map[p].owner = owner /\ map[p].prot = prot  BY <3>1 DEF Owned
    <3> QED BY <3>2
  <2> QED BY <2>1, <2>2
<1>2. \A w \in Words : data[w][1] \in {"zero", "bin", "interp"} /\ data[w][2] \in Nat
  <2> TAKE w \in Words
  <2>1. data[w] \in Values  BY DEF LoadTypes
  <2> QED BY <2>1 DEF Values
<1> QED BY <1>1, <1>2 DEF LoadTypes, LoadTypeOK, Underway

LEMMA OwnedIsOwned ==
  ASSUME NEW owner \in Owners, NEW prot \in SUBSET {"R", "W", "X"}
  PROVE  Owned(owner, prot) \in OwnedPages /\ Owned(owner, prot) # None
BY NoneAssumption DEF OwnedPages

LEMMA OwnersAre ==
  /\ "other" \in Owners /\ "reserved" \in Owners /\ "bin" \in Owners
  /\ "interp" \in Owners /\ "stack" \in Owners
BY DEF Owners

LEMMA LoadInitTypes == LoadInit => LoadTypes
<1> SUFFICES ASSUME LoadInit PROVE LoadTypes  OBVIOUS
<1>1. 0 \in Pages /\ 0 \in Words
  <2>1. 0 \in Pages  BY ElfLoaderAssumption DEF Pages
  <2>2. PICK z \in Nat : z = 0  OBVIOUS
  <2>3. PICK n \in Nat \ {0} : n = PageSize  BY ElfLoaderAssumption
  <2>4. PICK r \in 0..(n - 1), w \in Nat : r = 0 /\ w = 0  BY <2>3
  <2>5. w = z * n + r  BY <2>2, <2>3, <2>4
  <2>6. PageOf(w) = z  BY <2>3, <2>5, PageIs
  <2> QED BY <2>1, <2>2, <2>4, <2>6, WordsOfPages
<1>2. map \in [Pages -> OwnedPages \cup {None}]
  <2>1. Owned("other", {}) \in OwnedPages  BY OwnedIsOwned, OwnersAre
  <2> QED BY <2>1 DEF LoadInit
<1>3. data \in [Words -> Values]
  <2>1. Zero \in Values  BY DEF Zero, Values
  <2> QED BY <2>1 DEF LoadInit
<1> QED BY <1>1, <1>2, <1>3 DEF LoadInit, LoadTypes, Underway

(* The places mmap may choose are free.                                    *)
LEMMA MmapIs ==
  ASSUME NEW n \in Nat, NEW p \in Mmap(n)
  PROVE  p \in Pages /\ \A q \in p..(p + n - 1) : q \in Pages /\ map[q] = None
<1> DEFINE free == {r \in Pages : r + n - 1 \in Pages /\ \A q \in r..(r + n - 1) : map[q] = None}
<1>1. free # {} /\ p \in {Min(free), Max(free)}
  BY DEF Mmap
<1>2. free \subseteq Nat /\ LastPage \in Nat /\ \A r \in free : r <= LastPage
  BY ElfLoaderAssumption DEF Pages
<1>3. Min(free) \in free /\ Max(free) \in free
  <2> HIDE DEF free
  <2> QED BY <1>1, <1>2, MinIs, MaxIs
<1>4. p \in free  BY <1>1, <1>3
<1>5. p \in Pages /\ p + n - 1 \in Pages /\ \A q \in p..(p + n - 1) : map[q] = None  BY <1>4
<1>6. \A q \in p..(p + n - 1) : q \in Pages  BY <1>5, ElfLoaderAssumption DEF Pages
<1> QED BY <1>5, <1>6

LEMMA TakenIs ==
  ASSUME map \in [Pages -> OwnedPages \cup {None}], NEW p, NEW n, NEW owner \in Owners
  PROVE  Taken(p, n, owner) \in [Pages -> OwnedPages \cup {None}]
<1>1. Owned(owner, {}) \in OwnedPages  BY OwnedIsOwned
<1> QED BY <1>1 DEF Taken

(* What is loaded, and its segments, while there are some to map.          *)
LEMMA LoadingIs ==
  ASSUME LoadTypes, pc \in {"map", "mapInterp"}
  PROVE  /\ Loading = IF pc = "map" THEN program.bin ELSE program.interp
         /\ IsImage(Loading) /\ LoadingAt \in Words
         /\ seg <= Len(Loading.segments) =>
              /\ seg \in 1..Len(Loading.segments) /\ Segment \in SegmentRecord
<1>1. IsImage(Loading)
  <2>1. CASE pc = "map"  BY <2>1, ProgramsAssumption DEF LoadTypes, Loading
  <2>2. CASE pc = "mapInterp"
    <3>1. program.interp # None /\ program.interp # Missing  BY <2>2 DEF LoadTypes
    <3> QED BY <2>2, <3>1, ProgramsAssumption DEF LoadTypes, Loading
  <2> QED BY <2>1, <2>2
<1>2. LoadingAt \in Words  BY DEF LoadTypes, LoadingAt
<1>3. ASSUME seg <= Len(Loading.segments)
      PROVE  seg \in 1..Len(Loading.segments) /\ Segment \in SegmentRecord
  <2>1. Len(Loading.segments) \in Nat
        /\ \A j \in 1..Len(Loading.segments) : Loading.segments[j] \in SegmentRecord
    BY <1>1, SegmentsOf
  <2>2. PICK l \in Nat : l = Len(Loading.segments)  BY <2>1
  <2>3. seg \in 1..l  BY <1>3, <2>2 DEF LoadTypes
  <2> QED BY <2>1, <2>2, <2>3 DEF Segment
<1>4. Loading = IF pc = "map" THEN program.bin ELSE program.interp  BY DEF Loading
<1> QED BY <1>1, <1>2, <1>3, <1>4

LEMMA ContentIs ==
  ASSUME NEW s \in SegmentRecord, NEW file, NEW name \in {"bin", "interp"}, NEW i \in Int
  PROVE  Content(file, name, s, i) \in Values
<1>1. Zero \in Values  BY DEF Zero, Values
<1>2. ASSUME i \in 0..(s.filesz - 1) PROVE <<name, s.offset + i>> \in Values
  <2>1. PICK o \in Nat, f \in Nat : o = s.offset /\ f = s.filesz  BY DEF SegmentRecord
  <2>2. o + i \in Nat  BY <1>2, <2>1
  <2> QED BY <2>1, <2>2 DEF Values
<1> QED BY <1>1, <1>2 DEF Content

LEMMA ProtectIs ==
  ASSUME map \in [Pages -> OwnedPages \cup {None}], NEW pages, NEW name \in Owners,
         Segment \in SegmentRecord, Protect(pages, name)
  PROVE  map' \in [Pages -> OwnedPages \cup {None}]
<1>1. Segment.flags \in SUBSET {"R", "W", "X"}  BY DEF SegmentRecord
<1>2. Owned(name, Segment.flags) \in OwnedPages  BY <1>1, OwnedIsOwned
<1> QED BY <1>2 DEF Protect

LEMMA ReserveTypes ==
  ASSUME LoadTypes, Reserve, UNCHANGED <<program, others>>
  PROVE  LoadTypes'
<1> USE DEF LoadTypes, Underway
<1>1. pc' = "map" /\ seg' \in Nat \ {0} /\ data' \in [Words -> Values] /\ interpBase' \in Words
  BY DEF Reserve
<1>2. base' \in Words /\ map' \in [Pages -> OwnedPages \cup {None}]
  <2>1. CASE program.bin.type = "dyn"
    <3>1. PICK p \in Mmap(Reserved(program.bin)) :
            base' = p * PageSize /\ map' = Taken(p, Reserved(program.bin), "reserved")
      BY <2>1 DEF Reserve
    <3>2. Reserved(program.bin) \in Nat  BY ProgramsAssumption, SpanIs
    <3>3. p \in Pages  BY <3>2, MmapIs
    <3>4. base' \in Words  BY <3>1, <3>3, BeginningOfPage
    <3> QED BY <3>1, <3>4, TakenIs, OwnersAre
  <2>2. CASE program.bin.type # "dyn"
    <3>1. base' = 0 /\ map' = map  BY <2>2 DEF Reserve
    <3>2. 0 \in Words
      <4>1. 0 \in Pages  BY ElfLoaderAssumption DEF Pages
      <4>2. 0 * PageSize \in Words  BY <4>1, BeginningOfPage
      <4> QED BY <4>2, ElfLoaderAssumption
    <3> QED BY <3>1, <3>2
  <2> QED BY <2>1, <2>2
<1> QED BY <1>1, <1>2 DEF Reserve

LEMMA ReserveInterpTypes ==
  ASSUME LoadTypes, ReserveInterp, UNCHANGED <<program, others>>
  PROVE  LoadTypes'
<1> USE DEF LoadTypes, Underway
<1>1. IsImage(program.interp) /\ program.interp # None /\ program.interp # Missing
  BY ProgramsAssumption DEF ReserveInterp
<1>2. PICK p \in Mmap(Reserved(program.interp)) :
        interpBase' = p * PageSize /\ map' = Taken(p, Reserved(program.interp), "reserved")
  BY DEF ReserveInterp
<1>3. Reserved(program.interp) \in Nat  BY <1>1, SpanIs
<1>4. p \in Pages  BY <1>3, MmapIs
<1>5. interpBase' \in Words  BY <1>2, <1>4, BeginningOfPage
<1>6. map' \in [Pages -> OwnedPages \cup {None}]  BY <1>2, TakenIs, OwnersAre
<1> QED BY <1>1, <1>5, <1>6 DEF ReserveInterp

LEMMA MapSegmentTypes ==
  ASSUME LoadTypes, MapSegment, UNCHANGED <<program, others>>
  PROVE  LoadTypes'
<1>1. pc \in {"map", "mapInterp"} /\ seg <= Len(Loading.segments)  BY DEF MapSegment, MapsSegment
<1>2. Segment \in SegmentRecord /\ LoadingAt \in Words  BY <1>1, LoadingIs
<1>3. PICK name \in {"bin", "interp"} : name = IF pc = "map" THEN "bin" ELSE "interp"  OBVIOUS
<1>4. map' \in [Pages -> OwnedPages \cup {None}]
  <2>1. Protect(SegmentPages(Segment, LoadingAt), name)  BY <1>3 DEF MapSegment
  <2> QED BY <1>2, <2>1, ProtectIs, OwnersAre DEF LoadTypes
<1>5. data' \in [Words -> Values]
  <2>1. data' = [w \in Words |->
                IF PageOf(w) \notin SegmentPages(Segment, LoadingAt) THEN data[w]
                ELSE Content(Loading, name, Segment, w - LoadingAt - Segment.vaddr)]
    BY <1>3 DEF MapSegment
  <2>2. \A w \in Words : Content(Loading, name, Segment, w - LoadingAt - Segment.vaddr) \in Values
    <3> TAKE w \in Words
    <3>1. w \in Int /\ LoadingAt \in Int /\ Segment.vaddr \in Int
      BY <1>2 DEF Words, SegmentRecord
    <3>2. PICK i \in Int : i = w - LoadingAt - Segment.vaddr  BY <3>1
    <3> QED BY <1>2, <3>2, ContentIs
  <2>3. \A w \in Words : data[w] \in Values  BY DEF LoadTypes
  <2> QED BY <2>1, <2>2, <2>3
<1>6. seg' = seg + 1 /\ UNCHANGED <<pc, base, interpBase, ignored>>  BY DEF MapSegment
<1> QED BY <1>1, <1>4, <1>5, <1>6 DEF LoadTypes

LEMMA MapSegmentFailsTypes ==
  ASSUME LoadTypes, MapSegmentFails, UNCHANGED <<program, others>>
  PROVE  LoadTypes'
<1>1. pc \in {"map", "mapInterp"} /\ seg <= Len(Loading.segments)
  BY DEF MapSegmentFails, MapsSegment
<1>2. Segment \in SegmentRecord /\ LoadingAt \in Words  BY <1>1, LoadingIs
<1>3. UNCHANGED <<data, base, interpBase>>  BY DEF MapSegmentFails
<1>4. CASE pc' \in {"failed", "crashed"} /\ UNCHANGED <<seg, map, ignored>>
  BY <1>3, <1>4 DEF LoadTypes, Underway
<1>5. CASE /\ Protect(SegmentPages(Segment, LoadingAt), "interp")
           /\ ignored' = TRUE /\ seg' = seg + 1 /\ UNCHANGED pc
  <2>1. map' \in [Pages -> OwnedPages \cup {None}]
    BY <1>2, <1>5, ProtectIs, OwnersAre DEF LoadTypes
  <2> QED BY <1>1, <1>3, <1>5, <2>1 DEF LoadTypes
<1> QED BY <1>4, <1>5 DEF MapSegmentFails

LEMMA BuildStackTypes ==
  ASSUME LoadTypes, BuildStack, UNCHANGED <<program, others>>
  PROVE  LoadTypes'
<1>1. PICK p : map' = Taken(p, 1, "stack")  BY DEF BuildStack
<1>2. map' \in [Pages -> OwnedPages \cup {None}]  BY <1>1, TakenIs, OwnersAre DEF LoadTypes
<1> QED BY <1>2 DEF BuildStack, LoadTypes, Underway

LEMMA OtherThreadTypes ==
  ASSUME LoadTypes, OtherThread, UNCHANGED program
  PROVE  LoadTypes'
<1>1. others' \subseteq Pages /\ 0 \in others' /\ map' \in [Pages -> OwnedPages \cup {None}]
  <2>1. ASSUME NEW p \in Mmap(1), others' = others \cup {p}, map' = Taken(p, 1, "other")
        PROVE  others' \subseteq Pages /\ 0 \in others' /\ map' \in [Pages -> OwnedPages \cup {None}]
    <3>1. p \in Pages  BY MmapIs
    <3>2. map' \in [Pages -> OwnedPages \cup {None}]  BY <2>1, TakenIs, OwnersAre DEF LoadTypes
    <3> QED BY <2>1, <3>1, <3>2 DEF LoadTypes
  <2>2. ASSUME NEW p \in others \ {0}, others' = others \ {p}, map' = [map EXCEPT ![p] = None]
        PROVE  others' \subseteq Pages /\ 0 \in others' /\ map' \in [Pages -> OwnedPages \cup {None}]
    BY <2>2 DEF LoadTypes
  <2> QED BY <2>1, <2>2 DEF OtherThread
<1> QED BY <1>1 DEF OtherThread, LoadTypes, Underway

LEMMA LoadTypesStep == LoadTypes /\ [LoadNext]_loadVars => LoadTypes'
<1> SUFFICES ASSUME LoadTypes, [LoadNext]_loadVars PROVE LoadTypes'  OBVIOUS
<1>1. CASE UNCHANGED loadVars  BY <1>1 DEF loadVars, LoadTypes
<1>2. CASE Ended  BY <1>2 DEF Ended, loadVars, LoadTypes
<1>3. CASE OtherThread /\ UNCHANGED program  BY <1>3, OtherThreadTypes
<1>4. CASE Load /\ UNCHANGED <<program, others>>
  <2>1. CASE OpenFails \/ NoInterpreter \/ ReserveInterpFails \/ MmapFails
    BY <1>4, <2>1 DEF OpenFails, NoInterpreter, ReserveInterpFails, MmapFails, LoadTypes, Underway
  <2>2. CASE AllMapped
    BY <1>4, <2>2 DEF AllMapped, LoadTypes, Underway
  <2>3. CASE Reserve  BY <1>4, <2>3, ReserveTypes
  <2>4. CASE ReserveInterp  BY <1>4, <2>4, ReserveInterpTypes
  <2>5. CASE MapSegment  BY <1>4, <2>5, MapSegmentTypes
  <2>6. CASE MapSegmentFails  BY <1>4, <2>6, MapSegmentFailsTypes
  <2>7. CASE BuildStack  BY <1>4, <2>7, BuildStackTypes
  <2> QED BY <1>4, <2>1, <2>2, <2>3, <2>4, <2>5, <2>6, <2>7 DEF Load
<1> QED BY <1>1, <1>2, <1>3, <1>4 DEF LoadNext

-----------------------------------------------------------------------------
(* How far loading has come: others have their pages, the program has its  *)
(* place from "map" on and its interpreter from "mapInterp" on, in other   *)
(* pages, and of each the segments before the one that is mapped next are  *)
(* where they belong.                                                      *)
OthersHaveTheirs(m, o) == \A p \in o : m[p] = Owned("other", {})
HasInterp == pc = "mapInterp" \/ (pc \in {"stack", "jumped"} /\ program.interp # None)

BinLoaded ==
  pc \in Underway =>
    /\ Has(program.bin, base, map, others)
    /\ pc = "map" => Placed(program.bin, "bin", base, seg, map, data)
    /\ pc # "map" => Placed(program.bin, "bin", base, Len(program.bin.segments) + 1, map, data)
InterpLoaded ==
  HasInterp =>
    /\ Has(program.interp, interpBase, map, others)
    /\ Area(program.bin, base) \cap Area(program.interp, interpBase) = {}
    /\ ~ignored /\ pc = "mapInterp" =>
         Placed(program.interp, "interp", interpBase, seg, map, data)
    /\ ~ignored /\ pc # "mapInterp" =>
         Placed(program.interp, "interp", interpBase, Len(program.interp.segments) + 1, map, data)
Loaded == OthersHaveTheirs(map, others) /\ BinLoaded /\ InterpLoaded

LoadInv == LoadTypes /\ (Usual => Loaded) /\ (pc = "jumped" => stack = BuiltStack)

LEMMA UsualStays == ASSUME UNCHANGED program PROVE Usual' <=> Usual
BY DEF Usual, Files

LEMMA FilesAre ==
  ASSUME LoadTypes
  PROVE  /\ IsImage(program.bin) /\ (Usual => UsualFile(program.bin))
         /\ HasInterp => /\ IsImage(program.interp)
                         /\ Usual => UsualFile(program.interp)
<1>1. IsImage(program.bin)  BY ProgramsAssumption DEF LoadTypes
<1>2. ASSUME HasInterp PROVE program.interp \notin {None, Missing}
  BY <1>2 DEF LoadTypes, HasInterp
<1>3. ASSUME HasInterp PROVE IsImage(program.interp)
  BY <1>2, <1>3, ProgramsAssumption DEF LoadTypes
<1> QED BY <1>1, <1>2, <1>3, UsualIs DEF Files

LEMMA NumbersAre == LoadTypes => base \in Nat /\ interpBase \in Nat /\ seg \in Nat
<1>1. \A w \in Words : w \in Nat  BY DEF Words
<1> QED BY <1>1 DEF LoadTypes

(* A change of memory spares what is mapped and not another thread's.      *)
Spares(m, o, mm, oo) ==
  \A q \in Pages : m[q] # None /\ q \notin o => mm[q] = m[q] /\ q \notin oo

LEMMA SparedHas ==
  ASSUME NEW file, NEW at, NEW m, NEW o, NEW mm, NEW oo,
         Has(file, at, m, o), Spares(m, o, mm, oo)
  PROVE  Has(file, at, mm, oo) /\ \A q \in Area(file, at) : mm[q] = m[q]
BY DEF Has, Spares

LEMMA SparedPlaced ==
  ASSUME NEW file, IsImage(file), UsualFile(file), NEW name, NEW at \in Nat, NEW n \in Nat,
         NEW m, NEW d, NEW mm, NEW o, NEW oo,
         Has(file, at, m, o), Spares(m, o, mm, oo), Placed(file, name, at, n, m, d)
  PROVE  Placed(file, name, at, n, mm, d)
<1>1. Agree(Area(file, at), m, d, mm, d)  BY SparedHas DEF Agree
<1> QED BY <1>1, AllPlacedStay

(* A step that only spares pages keeps what is loaded.                     *)
LEMMA SparedBin ==
  ASSUME LoadTypes, Usual, BinLoaded, pc \in Underway, Spares(map, others, map', others'),
         UNCHANGED <<program, data, base>>,
         (pc' = "map" <=> pc = "map") /\ (pc = "map" => seg' = seg)
  PROVE  BinLoaded'
<1>1. IsImage(program.bin) /\ UsualFile(program.bin)  BY FilesAre
<1>2. PICK b \in Nat, n \in Nat, l \in Nat :
        b = base /\ n = seg /\ l = Len(program.bin.segments) + 1
  <2>1. Len(program.bin.segments) \in Nat  BY <1>1, SegmentsOf
  <2>2. Len(program.bin.segments) + 1 \in Nat  BY <2>1
  <2> QED BY <2>2, NumbersAre, Zenon
<1>3. Has(program.bin, b, map, others)  BY <1>2 DEF BinLoaded
<1>4. Has(program.bin, b, map', others')  BY <1>3, SparedHas
<1>5. ASSUME pc = "map" PROVE Placed(program.bin, "bin", b, n, map', data)
  <2>1. Placed(program.bin, "bin", b, n, map, data)  BY <1>2, <1>5 DEF BinLoaded
  <2> QED BY <1>1, <1>3, <2>1, SparedPlaced
<1>6. ASSUME pc # "map" PROVE Placed(program.bin, "bin", b, l, map', data)
  <2>1. Placed(program.bin, "bin", b, l, map, data)  BY <1>2, <1>6 DEF BinLoaded
  <2> QED BY <1>1, <1>3, <2>1, SparedPlaced
<1> QED BY <1>2, <1>4, <1>5, <1>6 DEF BinLoaded

LEMMA SparedInterp ==
  ASSUME LoadTypes, Usual, InterpLoaded, HasInterp, Spares(map, others, map', others'),
         UNCHANGED <<program, data, base, interpBase, ignored>>,
         (pc' = "mapInterp" <=> pc = "mapInterp") /\ (pc = "mapInterp" => seg' = seg)
  PROVE  InterpLoaded'
<1>1. IsImage(program.interp) /\ UsualFile(program.interp)  BY FilesAre
<1>2. PICK b \in Nat, n \in Nat, l \in Nat :
        b = interpBase /\ n = seg /\ l = Len(program.interp.segments) + 1
  <2>1. Len(program.interp.segments) \in Nat  BY <1>1, SegmentsOf
  <2>2. Len(program.interp.segments) + 1 \in Nat  BY <2>1
  <2> QED BY <2>2, NumbersAre, Zenon
<1>3. Has(program.interp, b, map, others)  BY <1>2 DEF InterpLoaded
<1>4. Has(program.interp, b, map', others')  BY <1>3, SparedHas
<1>5. ASSUME ~ignored, pc = "mapInterp"
      PROVE  Placed(program.interp, "interp", b, n, map', data)
  <2>1. Placed(program.interp, "interp", b, n, map, data)  BY <1>2, <1>5 DEF InterpLoaded
  <2> QED BY <1>1, <1>3, <2>1, SparedPlaced
<1>6. ASSUME ~ignored, pc # "mapInterp"
      PROVE  Placed(program.interp, "interp", b, l, map', data)
  <2>1. Placed(program.interp, "interp", b, l, map, data)  BY <1>2, <1>6 DEF InterpLoaded
  <2> QED BY <1>1, <1>3, <2>1, SparedPlaced
<1>7. Area(program.bin, base) \cap Area(program.interp, interpBase) = {}  BY DEF InterpLoaded
<1> QED BY <1>2, <1>4, <1>5, <1>6, <1>7 DEF InterpLoaded

(* What is mapped in free pages spares the others, and is there.           *)
LEMMA TakenSpares ==
  ASSUME LoadTypes, NEW n \in Nat, NEW p \in Mmap(n), NEW owner \in Owners,
         OthersHaveTheirs(map, others)
  PROVE  /\ Spares(map, others, Taken(p, n, owner), others)
         /\ OthersHaveTheirs(Taken(p, n, owner), others)
         /\ \A q \in p..(p + n - 1) : /\ q \in Pages /\ map[q] = None /\ q \notin others
                                      /\ Taken(p, n, owner)[q] = Owned(owner, {})
         /\ \A q \in Pages : q \notin p..(p + n - 1) => Taken(p, n, owner)[q] = map[q]
<1>1. \A q \in p..(p + n - 1) : q \in Pages /\ map[q] = None  BY MmapIs
<1>2. \A q \in others : map[q] # None /\ q \in Pages
  BY OwnedIsOwned, OwnersAre DEF OthersHaveTheirs, LoadTypes
<1>3. \A q \in Pages : Taken(p, n, owner)[q] =
        IF q \in p..(p + n - 1) THEN Owned(owner, {}) ELSE map[q]
  BY DEF Taken
<1>4. \A q \in p..(p + n - 1) : q \notin others  BY <1>1, <1>2
<1>5. Spares(map, others, Taken(p, n, owner), others)  BY <1>1, <1>3 DEF Spares
<1>6. OthersHaveTheirs(Taken(p, n, owner), others)
  BY <1>2, <1>3, <1>4 DEF OthersHaveTheirs
<1> QED BY <1>1, <1>3, <1>4, <1>5, <1>6

LEMMA EndedLoaded ==
  ASSUME Loaded, pc' \in {"failed", "crashed"}, UNCHANGED <<map, others>>
  PROVE  Loaded'
BY DEF Loaded, OthersHaveTheirs, BinLoaded, InterpLoaded, HasInterp, Underway

LEMMA AllMappedLoaded ==
  ASSUME LoadTypes, Usual, Loaded, AllMapped, UNCHANGED <<program, others>>
  PROVE  Loaded'
<1>1. UNCHANGED <<map, data, base, interpBase, ignored, seg>> /\ pc \in Underway /\ pc' \in Underway
      /\ pc \in {"map", "mapInterp"} /\ pc' \notin {"map", "mapInterp"}
  BY DEF AllMapped, Underway
<1>2. PICK n \in Nat, l \in Nat : n = seg /\ l = Len(Loading.segments) /\ l < n
  <2>1. IsImage(Loading)  BY <1>1, LoadingIs
  <2>2. Len(Loading.segments) \in Nat  BY <2>1, SegmentsOf
  <2> QED BY <2>2, NumbersAre DEF AllMapped
<1>3. \A j \in 1..l : j < l + 1 => j < n  BY <1>2
<1>4. BinLoaded'
  <2>1. Has(program.bin, base, map, others)  BY <1>1 DEF Loaded, BinLoaded
  <2>2. Placed(program.bin, "bin", base, Len(program.bin.segments) + 1, map, data)
    <3>1. CASE pc = "map"
      <4>1. Placed(program.bin, "bin", base, n, map, data)  BY <1>1, <1>2, <3>1 DEF Loaded, BinLoaded
      <4>2. Loading = program.bin  BY <3>1 DEF Loading
      <4> QED BY <1>2, <1>3, <4>1, <4>2 DEF Placed
    <3>2. CASE pc # "map"  BY <1>1, <3>2 DEF Loaded, BinLoaded
    <3> QED BY <3>1, <3>2
  <2> QED BY <1>1, <2>1, <2>2 DEF BinLoaded
<1>5. InterpLoaded'
  <2>1. CASE pc = "map"
    <3>1. ~HasInterp'  BY <1>1, <2>1 DEF AllMapped, HasInterp
    <3> QED BY <3>1 DEF InterpLoaded
  <2>2. CASE pc = "mapInterp"
    <3>1. HasInterp  BY <2>2 DEF HasInterp
    <3>2. ASSUME ~ignored
          PROVE  Placed(program.interp, "interp", interpBase, Len(program.interp.segments) + 1,
                        map, data)
      <4>1. Placed(program.interp, "interp", interpBase, n, map, data)
        BY <1>2, <2>2, <3>1, <3>2 DEF Loaded, InterpLoaded
      <4>2. Loading = program.interp  BY <2>2 DEF Loading
      <4> QED BY <1>2, <1>3, <4>1, <4>2 DEF Placed
    <3> QED BY <1>1, <3>1, <3>2 DEF Loaded, InterpLoaded
  <2> QED BY <1>1, <2>1, <2>2
<1> QED BY <1>1, <1>4, <1>5 DEF Loaded

(* A place that is taken for a file is its own.                            *)
LEMMA TakenHas ==
  ASSUME LoadTypes, OthersHaveTheirs(map, others), NEW file, IsImage(file),
         NEW p \in Mmap(Reserved(file))
  PROVE  /\ Has(file, p * PageSize, Taken(p, Reserved(file), "reserved"), others)
         /\ Spares(map, others, Taken(p, Reserved(file), "reserved"), others)
         /\ OthersHaveTheirs(Taken(p, Reserved(file), "reserved"), others)
         /\ \A q \in Area(file, p * PageSize) : map[q] = None
<1>1. PICK n \in Nat : n = Reserved(file)  BY SpanIs
<1>2. p \in Pages  BY <1>1, MmapIs
<1>3. PICK x : x = p * PageSize /\ PageOf(x) = p  BY <1>2, BeginningOfPage
<1>4. Area(file, x) = p..(p + n - 1)  BY <1>1, <1>3 DEF Area
<1>5. /\ Spares(map, others, Taken(p, n, "reserved"), others)
      /\ OthersHaveTheirs(Taken(p, n, "reserved"), others)
      /\ \A q \in p..(p + n - 1) : /\ q \in Pages /\ map[q] = None /\ q \notin others
                                   /\ Taken(p, n, "reserved")[q] = Owned("reserved", {})
  BY <1>1, TakenSpares, OwnersAre
<1>6. Owned("reserved", {}) # None  BY OwnedIsOwned, OwnersAre
<1>7. Has(file, x, Taken(p, n, "reserved"), others)
  <2>1. \A q \in Area(file, x) :
          q \in Pages /\ Taken(p, n, "reserved")[q] # None /\ q \notin others
    <3> TAKE q \in Area(file, x)
    <3>1. q \in p..(p + n - 1)  BY <1>4
    <3>2. q \in Pages /\ q \notin others /\ Taken(p, n, "reserved")[q] = Owned("reserved", {})
      BY <1>5, <3>1
    <3> QED BY <1>6, <3>2
  <2>2. PageOf(x) \in Pages /\ x = PageOf(x) * PageSize  BY <1>2, <1>3
  <2> QED BY <2>1, <2>2, Zenon DEF Has
<1> QED BY <1>1, <1>3, <1>4, <1>5, <1>7

LEMMA NothingPlaced ==
  ASSUME NEW file, IsImage(file), NEW name, NEW at, NEW m, NEW d
  PROVE  Placed(file, name, at, 1, m, d)
<1>1. \A j \in 1..Len(file.segments) : ~(j < 1)  BY SegmentsOf
<1> QED BY <1>1 DEF Placed

LEMMA ReserveLoaded ==
  ASSUME LoadTypes, Usual, Loaded, Reserve, UNCHANGED <<program, others>>
  PROVE  Loaded'
<1>1. IsImage(program.bin) /\ program.bin.type = "dyn"  BY FilesAre DEF UsualFile
<1>2. PICK p \in Mmap(Reserved(program.bin)) :
        base' = p * PageSize /\ map' = Taken(p, Reserved(program.bin), "reserved")
  BY <1>1 DEF Reserve
<1>3. pc' = "map" /\ seg' = 1  BY DEF Reserve, LoadTypes
<1>4. Has(program.bin, base', map', others) /\ OthersHaveTheirs(map', others)
  BY <1>1, <1>2, TakenHas DEF Loaded
<1>5. Placed(program.bin, "bin", base', 1, map', data')  BY <1>1, NothingPlaced
<1>6. BinLoaded'  BY <1>3, <1>4, <1>5 DEF BinLoaded
<1>7. InterpLoaded'  BY <1>3 DEF InterpLoaded, HasInterp
<1> QED BY <1>4, <1>6, <1>7 DEF Loaded

LEMMA ReserveInterpLoaded ==
  ASSUME LoadTypes, Usual, Loaded, ReserveInterp, UNCHANGED <<program, others>>
  PROVE  Loaded'
<1>1. IsImage(program.interp)
  BY ProgramsAssumption DEF ReserveInterp, LoadTypes
<1>2. PICK p \in Mmap(Reserved(program.interp)) :
        interpBase' = p * PageSize /\ map' = Taken(p, Reserved(program.interp), "reserved")
  BY DEF ReserveInterp
<1>3. pc = "interp" /\ pc' = "mapInterp" /\ seg' = 1 /\ UNCHANGED <<data, base, ignored>>
  BY DEF ReserveInterp
<1>4. /\ Has(program.interp, interpBase', map', others) /\ OthersHaveTheirs(map', others)
      /\ Spares(map, others, map', others)
      /\ \A q \in Area(program.interp, interpBase') : map[q] = None
  BY <1>1, <1>2, TakenHas DEF Loaded
<1>5. Placed(program.interp, "interp", interpBase', 1, map', data')  BY <1>1, NothingPlaced
<1>6. BinLoaded'  BY <1>3, <1>4, SparedBin DEF Loaded, Underway
<1>7. \A q \in Area(program.bin, base) : map[q] # None
  BY <1>3 DEF Loaded, BinLoaded, Underway, Has
<1>8. Area(program.bin, base') \cap Area(program.interp, interpBase') = {}  BY <1>3, <1>4, <1>7
<1>9. InterpLoaded'  BY <1>3, <1>4, <1>5, <1>8 DEF InterpLoaded
<1> QED BY <1>4, <1>6, <1>9 DEF Loaded

LEMMA BuildStackLoaded ==
  ASSUME LoadTypes, Usual, Loaded, BuildStack, UNCHANGED <<program, others>>
  PROVE  Loaded'
<1>1. pc = "stack" /\ pc' = "jumped" /\ UNCHANGED <<seg, data, base, interpBase, ignored>>
  BY DEF BuildStack
<1>2. PICK p \in Mmap(1) : map' = Taken(p, 1, "stack")  BY DEF BuildStack
<1>3. Spares(map, others, map', others') /\ OthersHaveTheirs(map', others')
  BY <1>2, TakenSpares, OwnersAre DEF Loaded
<1>4. BinLoaded'  BY <1>1, <1>3, SparedBin DEF Loaded, Underway
<1>5. InterpLoaded'
  <2>1. CASE HasInterp  BY <1>1, <1>3, <2>1, SparedInterp DEF Loaded
  <2>2. CASE ~HasInterp  BY <1>1, <2>2 DEF HasInterp, InterpLoaded
  <2> QED BY <2>1, <2>2
<1> QED BY <1>3, <1>4, <1>5 DEF Loaded

LEMMA OtherThreadLoaded ==
  ASSUME LoadTypes, Usual, Loaded, OtherThread, UNCHANGED program
  PROVE  Loaded'
<1>1. UNCHANGED <<pc, seg, data, base, interpBase, ignored>>  BY DEF OtherThread
<1>2. Spares(map, others, map', others') /\ OthersHaveTheirs(map', others')
  <2>1. ASSUME NEW p \in Mmap(1), others' = others \cup {p}, map' = Taken(p, 1, "other")
        PROVE  Spares(map, others, map', others') /\ OthersHaveTheirs(map', others')
    <3>1. /\ Spares(map, others, map', others) /\ OthersHaveTheirs(map', others)
          /\ \A q \in p..(p + 1 - 1) : map[q] = None /\ map'[q] = Owned("other", {})
      BY <2>1, TakenSpares, OwnersAre DEF Loaded
    <3>2. p \in p..(p + 1 - 1)
      <4>1. p \in Nat  BY MmapIs DEF Pages
      <4> QED BY <4>1
    <3>3. map[p] = None /\ map'[p] = Owned("other", {})  BY <3>1, <3>2
    <3> QED BY <2>1, <3>1, <3>3 DEF Spares, OthersHaveTheirs
  <2>2. ASSUME NEW p \in others \ {0}, others' = others \ {p}, map' = [map EXCEPT ![p] = None]
        PROVE  Spares(map, others, map', others') /\ OthersHaveTheirs(map', others')
    <3>1. \A q \in Pages : q # p => map'[q] = map[q]  BY <2>2 DEF LoadTypes
    <3>2. others \subseteq Pages  BY DEF LoadTypes
    <3>3. OthersHaveTheirs(map', others')
      BY <2>2, <3>1, <3>2 DEF Loaded, OthersHaveTheirs
    <3> QED BY <2>2, <3>1, <3>2, <3>3 DEF Spares
  <2> QED BY <2>1, <2>2 DEF OtherThread
<1>3. BinLoaded'
  <2>1. CASE pc \in Underway  BY <1>1, <1>2, <2>1, SparedBin DEF Loaded
  <2>2. CASE pc \notin Underway  BY <1>1, <2>2 DEF BinLoaded
  <2> QED BY <2>1, <2>2
<1>4. InterpLoaded'
  <2>1. CASE HasInterp  BY <1>1, <1>2, <2>1, SparedInterp DEF Loaded
  <2>2. CASE ~HasInterp  BY <1>1, <2>2 DEF HasInterp, InterpLoaded
  <2> QED BY <2>1, <2>2
<1> QED BY <1>2, <1>3, <1>4 DEF Loaded

(* Mapping a segment: nothing changes outside the pages of its file, and   *)
(* one segment more is there.                                              *)
Mapping(file, name, at) ==
  /\ IsImage(file) /\ UsualFile(file) /\ file = Loading /\ at = LoadingAt /\ at \in Nat
  /\ name = (IF pc = "map" THEN "bin" ELSE "interp") /\ name \in {"bin", "interp"}
  /\ seg \in 1..Len(file.segments) /\ Has(file, at, map, others)

LEMMA MappingIs ==
  ASSUME LoadTypes, NEW file, NEW name, NEW at, Mapping(file, name, at)
  PROVE  \E s \in SegmentRecord, pages \in SUBSET Pages :
           /\ s = file.segments[seg] /\ s = Segment /\ pages = SegmentPages(s, at)
           /\ pages \subseteq Area(file, at) /\ pages \subseteq Pages
<1>1. PICK s \in SegmentRecord : s = file.segments[seg]  BY SegmentsOf DEF Mapping
<1>2. s = Segment  BY <1>1 DEF Segment, Mapping
<1>3. PICK p \in Nat : at = p * PageSize  BY DEF Mapping, Has, Pages
<1>4. SegmentPages(s, at) \subseteq Area(file, at)  BY <1>1, <1>3, SegmentsInArea DEF Mapping
<1>5. SegmentPages(s, at) \subseteq Pages  BY <1>4 DEF Mapping, Has
<1> QED BY <1>1, <1>2, <1>4, <1>5

LEMMA ProtectKeeps ==
  ASSUME LoadTypes, NEW file, NEW name, NEW at, Mapping(file, name, at),
         OthersHaveTheirs(map, others), Protect(SegmentPages(Segment, at), name)
  PROVE  /\ \A q \in Pages : map'[q] = IF q \in SegmentPages(Segment, at)
                                       THEN Owned(name, Segment.flags) ELSE map[q]
         /\ Has(file, at, map', others) /\ OthersHaveTheirs(map', others)
<1>1. PICK s \in SegmentRecord, pages \in SUBSET Pages :
        /\ s = file.segments[seg] /\ s = Segment /\ pages = SegmentPages(s, at)
        /\ pages \subseteq Area(file, at) /\ pages \subseteq Pages
  BY MappingIs
<1>2. \A q \in Pages : map'[q] = IF q \in pages THEN Owned(name, s.flags) ELSE map[q]
  BY <1>1 DEF Protect
<1>3. Owned(name, s.flags) # None
  <2>1. s.flags \in SUBSET {"R", "W", "X"}  BY DEF SegmentRecord
  <2>2. name \in Owners  BY OwnersAre DEF Mapping
  <2> QED BY <2>1, <2>2, OwnedIsOwned
<1>4. Has(file, at, map, others)  BY DEF Mapping
<1>5. Has(file, at, map', others)  BY <1>2, <1>3, <1>4 DEF Has
<1>6. \A q \in others : q \in Pages /\ q \notin pages
  <2>1. \A q \in pages : q \notin others  BY <1>1, <1>4 DEF Has
  <2> QED BY <2>1 DEF LoadTypes
<1>7. OthersHaveTheirs(map', others)  BY <1>2, <1>6 DEF OthersHaveTheirs
<1> QED BY <1>1, <1>2, <1>5, <1>7

LEMMA OneMore ==
  ASSUME LoadTypes, NEW file, NEW name, NEW at, Mapping(file, name, at),
         OthersHaveTheirs(map, others), MapSegment,
         Placed(file, name, at, seg, map, data)
  PROVE  Placed(file, name, at, seg + 1, map', data')
<1>1. PICK s \in SegmentRecord, pages \in SUBSET Pages :
        /\ s = file.segments[seg] /\ s = Segment /\ pages = SegmentPages(s, at)
        /\ pages \subseteq Area(file, at) /\ pages \subseteq Pages
  BY MappingIs
<1>2. Protect(pages, name)  BY <1>1 DEF MapSegment, Mapping
<1>3. \A q \in Pages : map'[q] = IF q \in pages THEN Owned(name, s.flags) ELSE map[q]
  BY <1>1, <1>2 DEF Protect
<1>4. \A w \in Words : data'[w] = IF PageOf(w) \notin pages THEN data[w]
                                  ELSE Content(file, name, s, w - at - s.vaddr)
  BY <1>1 DEF MapSegment, Mapping
<1>5. PICK n \in Nat, l \in Nat : n = seg /\ l = Len(file.segments) /\ n \in 1..l
  BY NumbersAre, SegmentsOf DEF Mapping
<1>6. PICK p \in Nat, b \in Nat : b = at /\ b = p * PageSize  BY DEF Mapping, Has, Pages
<1>7. IsImage(file) /\ UsualFile(file)  BY DEF Mapping
<1>8. SegmentPlaced(s, file, name, b, map', data')
  <2> SUFFICES ASSUME NEW i \in 0..(s.memsz - 1)
               PROVE  /\ data'[b + s.vaddr + i] = Content(file, name, s, i)
                      /\ map'[PageOf(b + s.vaddr + i)] = Owned(name, s.flags)
    BY DEF SegmentPlaced
  <2>1. PICK v \in Nat : v = s.vaddr  BY DEF SegmentRecord
  <2>2. PICK w \in Nat : w = b + v + i /\ PageOf(w) \in pages
    BY <1>1, <1>6, <2>1, PagesOfItsWords
  <2>3. w \in Words  BY <1>1, <2>2, WordsOfPages
  <2>4. w - b - v = i  BY <2>2
  <2>5. data'[w] = Content(file, name, s, i)  BY <1>4, <1>6, <2>1, <2>2, <2>3, <2>4
  <2>6. map'[PageOf(w)] = Owned(name, s.flags)  BY <1>1, <1>3, <2>2
  <2> QED BY <2>1, <2>2, <2>5, <2>6
<1>9. ASSUME NEW j \in 1..l, j < n PROVE SegmentPlaced(file.segments[j], file, name, b, map', data')
  <2>1. PICK t \in SegmentRecord : t = file.segments[j]  BY <1>5, <1>7, SegmentsOf
  <2>2. \A q \in SegmentPages(t, b) : q \notin pages
    <3>1. j # n /\ n \in 1..l  BY <1>5, <1>9
    <3> QED BY <1>1, <1>5, <1>6, <1>7, <2>1, <3>1, SegmentsApart
  <2>3. SegmentPages(t, b) \subseteq Pages
    <3>1. SegmentPages(t, b) \subseteq Area(file, b)  BY <1>5, <1>6, <1>7, <2>1, SegmentsInArea
    <3> QED BY <1>6, <3>1 DEF Mapping, Has
  <2>4. Agree(SegmentPages(t, b), map, data, map', data')
    BY <1>3, <1>4, <2>2, <2>3 DEF Agree
  <2>5. SegmentPlaced(t, file, name, b, map, data)  BY <1>5, <1>6, <1>9, <2>1 DEF Placed
  <2>6. SegmentPlaced(t, file, name, b, map', data')  BY <2>3, <2>4, <2>5, PlacedStays
  <2> QED BY <2>1, <2>6
<1>10. \A j \in 1..l : j < n + 1 => j < n \/ j = n  BY <1>5
<1> QED BY <1>1, <1>5, <1>6, <1>8, <1>9, <1>10 DEF Placed

LEMMA MapSegmentLoaded ==
  ASSUME LoadTypes, Usual, Loaded, MapSegment, UNCHANGED <<program, others>>
  PROVE  Loaded'
<1>1. pc \in {"map", "mapInterp"} /\ seg <= Len(Loading.segments)  BY DEF MapSegment, MapsSegment
<1>2. UNCHANGED <<pc, base, interpBase, ignored>> /\ seg' = seg + 1  BY DEF MapSegment
<1>3. seg \in 1..Len(Loading.segments)  BY <1>1, LoadingIs
<1>4. OthersHaveTheirs(map, others)  BY DEF Loaded
<1>5. CASE pc = "map"
  <2>1. Mapping(program.bin, "bin", base)
    <3>1. Loading = program.bin /\ LoadingAt = base  BY <1>5 DEF Loading, LoadingAt
    <3>2. Has(program.bin, base, map, others)  BY <1>5 DEF Loaded, BinLoaded, Underway
    <3> QED BY <1>3, <1>5, <3>1, <3>2, FilesAre, NumbersAre DEF Mapping
  <2>2. Protect(SegmentPages(Segment, base), "bin")
    BY <1>5 DEF MapSegment, LoadingAt
  <2>3. Has(program.bin, base, map', others) /\ OthersHaveTheirs(map', others)
    BY <1>4, <2>1, <2>2, ProtectKeeps
  <2>4. Placed(program.bin, "bin", base, seg, map, data)  BY <1>5 DEF Loaded, BinLoaded, Underway
  <2>5. Placed(program.bin, "bin", base, seg + 1, map', data')  BY <1>4, <2>1, <2>4, OneMore
  <2>6. BinLoaded'  BY <1>2, <1>5, <2>3, <2>5 DEF BinLoaded
  <2>7. InterpLoaded'  BY <1>2, <1>5 DEF InterpLoaded, HasInterp
  <2> QED BY <2>3, <2>6, <2>7 DEF Loaded
<1>6. CASE pc = "mapInterp"
  <2>1. HasInterp  BY <1>6 DEF HasInterp
  <2>2. Mapping(program.interp, "interp", interpBase)
    <3>1. Loading = program.interp /\ LoadingAt = interpBase  BY <1>6 DEF Loading, LoadingAt
    <3>2. Has(program.interp, interpBase, map, others)  BY <2>1 DEF Loaded, InterpLoaded
    <3> QED BY <1>3, <1>6, <2>1, <3>1, <3>2, FilesAre, NumbersAre DEF Mapping
  <2>3. Protect(SegmentPages(Segment, interpBase), "interp")
    BY <1>6 DEF MapSegment, LoadingAt
  <2>4. Has(program.interp, interpBase, map', others) /\ OthersHaveTheirs(map', others)
    BY <1>4, <2>2, <2>3, ProtectKeeps
  <2>5. ASSUME ~ignored
        PROVE  Placed(program.interp, "interp", interpBase, seg + 1, map', data')
    <3>1. Placed(program.interp, "interp", interpBase, seg, map, data)
      BY <1>6, <2>1, <2>5 DEF Loaded, InterpLoaded
    <3> QED BY <1>4, <2>2, <3>1, OneMore
  <2>6. Area(program.bin, base) \cap Area(program.interp, interpBase) = {}
    BY <2>1 DEF Loaded, InterpLoaded
  <2>7. InterpLoaded'  BY <1>2, <1>6, <2>4, <2>5, <2>6 DEF InterpLoaded
  <2>8. BinLoaded'
    <3>1. PICK s \in SegmentRecord, pages \in SUBSET Pages :
            /\ s = Segment /\ pages = SegmentPages(s, interpBase)
            /\ pages \subseteq Area(program.interp, interpBase) /\ pages \subseteq Pages
      BY <2>2, MappingIs
    <3>2. \A q \in Area(program.bin, base) : q \notin pages  BY <2>6, <3>1
    <3>3. \A q \in Pages : map'[q] = IF q \in pages THEN Owned("interp", s.flags) ELSE map[q]
      BY <2>3, <3>1 DEF Protect
    <3>4. Has(program.bin, base, map, others)  BY <1>6 DEF Loaded, BinLoaded, Underway
    <3>5. \A q \in Area(program.bin, base) : map'[q] = map[q]  BY <3>2, <3>3, <3>4 DEF Has
    <3>6. Has(program.bin, base, map', others)  BY <3>4, <3>5 DEF Has
    <3>7. \A w \in Words : PageOf(w) \notin pages => data'[w] = data[w]
      <4>1. SegmentPages(Segment, LoadingAt) = pages  BY <1>6, <3>1 DEF LoadingAt
      <4> QED BY <4>1 DEF MapSegment
    <3>8. Agree(Area(program.bin, base), map, data, map', data')  BY <3>2, <3>5, <3>7 DEF Agree
    <3>9. PICK b \in Nat, l \in Nat : b = base /\ l = Len(program.bin.segments) + 1
      <4>1. Len(program.bin.segments) \in Nat  BY FilesAre, SegmentsOf
      <4>2. Len(program.bin.segments) + 1 \in Nat  BY <4>1
      <4> QED BY <4>2, NumbersAre
    <3>10. Placed(program.bin, "bin", b, l, map, data)
      BY <1>6, <3>9 DEF Loaded, BinLoaded, Underway
    <3>11. Placed(program.bin, "bin", b, l, map', data')
      BY <3>4, <3>8, <3>9, <3>10, FilesAre, AllPlacedStay
    <3> QED BY <1>2, <1>6, <3>6, <3>9, <3>11 DEF BinLoaded
  <2> QED BY <2>4, <2>7, <2>8 DEF Loaded
<1> QED BY <1>1, <1>5, <1>6

LEMMA MapSegmentFailsLoaded ==
  ASSUME LoadTypes, Usual, Loaded, MapSegmentFails, UNCHANGED <<program, others>>
  PROVE  Loaded'
<1>1. pc \in {"map", "mapInterp"} /\ seg <= Len(Loading.segments)
  BY DEF MapSegmentFails, MapsSegment
<1>2. UNCHANGED <<data, base, interpBase>>  BY DEF MapSegmentFails
<1>3. CASE pc' \in {"failed", "crashed"} /\ UNCHANGED <<seg, map, ignored>>
  BY <1>3, EndedLoaded
<1>4. CASE /\ pc = "mapInterp" /\ Protect(SegmentPages(Segment, LoadingAt), "interp")
           /\ ignored' = TRUE /\ seg' = seg + 1 /\ UNCHANGED pc
  <2>1. HasInterp /\ OthersHaveTheirs(map, others)  BY <1>4 DEF HasInterp, Loaded
  <2>2. Mapping(program.interp, "interp", interpBase)
    <3>1. Loading = program.interp /\ LoadingAt = interpBase  BY <1>4 DEF Loading, LoadingAt
    <3>2. Has(program.interp, interpBase, map, others)  BY <2>1 DEF Loaded, InterpLoaded
    <3>3. seg \in 1..Len(Loading.segments)  BY <1>1, LoadingIs
    <3> QED BY <1>4, <2>1, <3>1, <3>2, <3>3, FilesAre, NumbersAre DEF Mapping
  <2>3. Protect(SegmentPages(Segment, interpBase), "interp")  BY <1>4 DEF LoadingAt
  <2>4. Has(program.interp, interpBase, map', others) /\ OthersHaveTheirs(map', others)
    BY <2>1, <2>2, <2>3, ProtectKeeps
  <2>5. Area(program.bin, base) \cap Area(program.interp, interpBase) = {}
    BY <2>1 DEF Loaded, InterpLoaded
  <2>6. InterpLoaded'  BY <1>2, <1>4, <2>4, <2>5 DEF InterpLoaded
  <2>7. BinLoaded'
    <3>1. PICK s \in SegmentRecord, pages \in SUBSET Pages :
            /\ s = Segment /\ pages = SegmentPages(s, interpBase)
            /\ pages \subseteq Area(program.interp, interpBase) /\ pages \subseteq Pages
      BY <2>2, MappingIs
    <3>2. \A q \in Area(program.bin, base) : q \notin pages  BY <2>5, <3>1
    <3>3. \A q \in Pages : map'[q] = IF q \in pages THEN Owned("interp", s.flags) ELSE map[q]
      BY <2>3, <3>1 DEF Protect
    <3>4. Has(program.bin, base, map, others)  BY <1>4 DEF Loaded, BinLoaded, Underway
    <3>5. \A q \in Area(program.bin, base) : map'[q] = map[q]  BY <3>2, <3>3, <3>4 DEF Has
    <3>6. Has(program.bin, base, map', others)  BY <3>4, <3>5 DEF Has
    <3>7. Agree(Area(program.bin, base), map, data, map', data')  BY <1>2, <3>5 DEF Agree
    <3>8. PICK b \in Nat, l \in Nat : b = base /\ l = Len(program.bin.segments) + 1
      <4>1. Len(program.bin.segments) \in Nat  BY FilesAre, SegmentsOf
      <4>2. Len(program.bin.segments) + 1 \in Nat  BY <4>1
      <4> QED BY <4>2, NumbersAre
    <3>9. Placed(program.bin, "bin", b, l, map, data)
      BY <1>4, <3>8 DEF Loaded, BinLoaded, Underway
    <3>10. Placed(program.bin, "bin", b, l, map', data')
      BY <3>4, <3>7, <3>8, <3>9, FilesAre, AllPlacedStay
    <3> QED BY <1>2, <1>4, <3>6, <3>8, <3>10 DEF BinLoaded
  <2> QED BY <2>4, <2>6, <2>7 DEF Loaded
<1> QED BY <1>1, <1>3, <1>4 DEF MapSegmentFails

-----------------------------------------------------------------------------
(* The invariant of loading.                                               *)
LEMMA LoadedStep ==
  ASSUME LoadTypes, Usual, Loaded, [LoadNext]_loadVars
  PROVE  Loaded'
<1>1. CASE UNCHANGED loadVars
  BY <1>1 DEF loadVars, Loaded, OthersHaveTheirs, BinLoaded, InterpLoaded, HasInterp
<1>2. CASE Ended  BY <1>1, <1>2 DEF Ended
<1>3. CASE OtherThread /\ UNCHANGED program  BY <1>3, OtherThreadLoaded
<1>4. CASE Load /\ UNCHANGED <<program, others>>
  <2>1. CASE OpenFails \/ NoInterpreter \/ ReserveInterpFails \/ MmapFails
    <3>1. pc' \in {"failed", "crashed"} /\ UNCHANGED map
      BY <2>1 DEF OpenFails, NoInterpreter, ReserveInterpFails, MmapFails
    <3> QED BY <1>4, <3>1, EndedLoaded
  <2>2. CASE AllMapped  BY <1>4, <2>2, AllMappedLoaded
  <2>3. CASE Reserve  BY <1>4, <2>3, ReserveLoaded
  <2>4. CASE ReserveInterp  BY <1>4, <2>4, ReserveInterpLoaded
  <2>5. CASE MapSegment  BY <1>4, <2>5, MapSegmentLoaded
  <2>6. CASE MapSegmentFails  BY <1>4, <2>6, MapSegmentFailsLoaded
  <2>7. CASE BuildStack  BY <1>4, <2>7, BuildStackLoaded
  <2> QED BY <1>4, <2>1, <2>2, <2>3, <2>4, <2>5, <2>6, <2>7 DEF Load
<1> QED BY <1>1, <1>2, <1>3, <1>4 DEF LoadNext

LEMMA StackStep ==
  ASSUME pc = "jumped" => stack = BuiltStack, [LoadNext]_loadVars
  PROVE  (pc = "jumped" => stack = BuiltStack)'
<1> SUFFICES ASSUME pc' = "jumped" PROVE stack' = BuiltStack'  OBVIOUS
<1>1. CASE pc = "jumped"
  <2>1. UNCHANGED loadVars
    BY <1>1 DEF LoadNext, Load, OpenFails, Reserve, MapSegment, MapSegmentFails, MapsSegment,
                AllMapped, NoInterpreter, ReserveInterp, ReserveInterpFails, BuildStack,
                MmapFails, OtherThread, Ended
  <2> QED BY <1>1, <2>1 DEF loadVars, BuiltStack, Auxv, phdrLoadedAddr
<1>2. CASE pc # "jumped"
  <2>1. BuildStack /\ UNCHANGED program
    BY <1>2 DEF LoadNext, Load, OpenFails, Reserve, MapSegment, MapSegmentFails, MapsSegment,
                AllMapped, NoInterpreter, ReserveInterp, ReserveInterpFails,
                MmapFails, OtherThread, Ended, loadVars
  <2> QED BY <2>1 DEF BuildStack, BuiltStack, Auxv, phdrLoadedAddr
<1> QED BY <1>1, <1>2

(* Loading keeps its invariant, from any set of programs and any memory.   *)
THEOREM LoadInvariant == LoadSpec => []LoadInv
<1>1. LoadInit => LoadInv
  <2> SUFFICES ASSUME LoadInit PROVE LoadInv  OBVIOUS
  <2>1. Loaded
    <3>1. OthersHaveTheirs(map, others)
      <4>1. 0 \in Pages  BY ElfLoaderAssumption DEF Pages
      <4> QED BY <4>1 DEF LoadInit, OthersHaveTheirs
    <3> QED BY <3>1 DEF LoadInit, Loaded, BinLoaded, InterpLoaded, HasInterp, Underway
  <2> QED BY <2>1, LoadInitTypes DEF LoadInit, LoadInv
<1>2. LoadInv /\ [LoadNext]_loadVars => LoadInv'
  <2> SUFFICES ASSUME LoadInv, [LoadNext]_loadVars PROVE LoadInv'  OBVIOUS
  <2>1. LoadTypes'  BY LoadTypesStep DEF LoadInv
  <2>2. UNCHANGED program
    BY DEF LoadNext, Ended, loadVars
  <2>3. Usual' => Loaded'  BY <2>2, LoadedStep, UsualStays DEF LoadInv
  <2>4. (pc = "jumped" => stack = BuiltStack)'  BY StackStep DEF LoadInv
  <2> QED BY <2>1, <2>3, <2>4 DEF LoadInv
<1> QED BY <1>1, <1>2, PTL DEF LoadSpec

(* Whatever other threads map while a program is loaded, they keep it.     *)
THEOREM OthersCorrect == LoadSpec => []OthersKeepTheirs
<1>1. LoadInv => OthersKeepTheirs
  BY TypesSuffice DEF LoadInv, Loaded, OthersHaveTheirs, OthersKeepTheirs
<1> QED BY <1>1, LoadInvariant, PTL

LEMMA PlacedIsInPlace ==
  ASSUME NEW file, IsImage(file), NEW name, NEW at,
         Placed(file, name, at, Len(file.segments) + 1, map, data)
  PROVE  InPlace(file, name, at)
<1>1. PICK l \in Nat : l = Len(file.segments)  BY SegmentsOf
<1>2. \A j \in 1..l : j < l + 1  OBVIOUS
<1>3. \A j \in 1..l : SegmentPlaced(file.segments[j], file, name, at, map, data)
  BY <1>1, <1>2 DEF Placed
<1>4. \A s \in ToSet(file.segments) : SegmentPlaced(s, file, name, at, map, data)
  <2> TAKE s \in ToSet(file.segments)
  <2>1. ToSet(file.segments) = {file.segments[j] : j \in 1..l}  BY <1>1, SegmentsOf
  <2>2. PICK j \in 1..l : s = file.segments[j]  BY <2>1
  <2> QED BY <1>3, <2>2
<1> QED BY <1>4 DEF SegmentPlaced, InPlace

(* Every word of every segment is where the headers say when the program   *)
(* is entered.                                                             *)
THEOREM SegmentsCorrect == LoadSpec => []SegmentsAreInPlace
<1>1. LoadInv => SegmentsAreInPlace
  <2> SUFFICES ASSUME LoadInv, pc = "jumped", Usual, ~ignored
               PROVE  /\ InPlace(program.bin, "bin", base)
                      /\ program.interp # None => InPlace(program.interp, "interp", interpBase)
    BY DEF SegmentsAreInPlace
  <2>1. LoadTypes /\ Loaded  BY DEF LoadInv
  <2>2. InPlace(program.bin, "bin", base)
    <3>1. Placed(program.bin, "bin", base, Len(program.bin.segments) + 1, map, data)
      BY <2>1 DEF Loaded, BinLoaded, Underway
    <3> QED BY <2>1, <3>1, FilesAre, PlacedIsInPlace
  <2>3. ASSUME program.interp # None PROVE InPlace(program.interp, "interp", interpBase)
    <3>1. HasInterp  BY <2>3 DEF HasInterp
    <3>2. Placed(program.interp, "interp", interpBase, Len(program.interp.segments) + 1, map, data)
      BY <2>1, <3>1 DEF Loaded, InterpLoaded
    <3> QED BY <2>1, <3>1, <3>2, FilesAre, PlacedIsInPlace
  <2> QED BY <2>2, <2>3
<1> QED BY <1>1, LoadInvariant, PTL

-----------------------------------------------------------------------------
(* The stack: its words and what they are built from.                      *)
Tags == {"platform", "random", "execfn", "env", "arg", "pad", "string at", "number", "key"}
Keys == {"NULL", "PLATFORM", "EXECFN", "RANDOM", "ENTRY", "BASE", "PHDR"}
Items == Tags \X (Nat \cup Keys)

LEMMA ReverseIs ==
  ASSUME NEW S, NEW s \in Seq(S)
  PROVE  /\ Reverse(s) \in Seq(S) /\ Len(Reverse(s)) = Len(s) /\ Len(s) \in Nat
         /\ \A i \in 1..Len(s) : Reverse(s)[i] = s[Len(s) - i + 1]
<1>1. PICK l \in Nat : l = Len(s)  BY LenProperties
<1>2. Reverse(s) = [i \in 1..l |-> s[(l - i) + 1]]  BY <1>1 DEF Reverse
<1>3. \A i \in 1..l : (l - i) + 1 \in 1..l /\ s[(l - i) + 1] \in S
  <2>1. \A i \in 1..l : (l - i) + 1 \in 1..l  OBVIOUS
  <2> QED BY <1>1, <2>1, ElementOfSeq
<1>4. Reverse(s) \in [1..l -> S]  BY <1>2, <1>3
<1>5. Reverse(s) \in Seq(S) /\ Len(Reverse(s)) = l  BY <1>4
<1> QED BY <1>1, <1>2, <1>5

LEMMA JoinIs ==
  ASSUME NEW S, NEW s \in Seq(S), NEW t \in Seq(S)
  PROVE  /\ s \o t \in Seq(S) /\ Len(s \o t) = Len(s) + Len(t)
         /\ Len(s) \in Nat /\ Len(t) \in Nat
         /\ \A i \in 1..Len(s) : (s \o t)[i] = s[i]
         /\ \A i \in 1..Len(t) : (s \o t)[Len(s) + i] = t[i]
<1>1. PICK m \in Nat, n \in Nat : m = Len(s) /\ n = Len(t)  BY LenProperties
<1>2. /\ s \o t \in Seq(S) /\ Len(s \o t) = m + n
      /\ \A i \in 1..(m + n) : (s \o t)[i] = IF i <= m THEN s[i] ELSE t[i - m]
  BY <1>1, ConcatProperties
<1>3. \A i \in 1..m : (s \o t)[i] = s[i]
  <2>1. \A i \in 1..m : i \in 1..(m + n) /\ i <= m  OBVIOUS
  <2> QED BY <1>2, <2>1
<1>4. \A i \in 1..n : (s \o t)[m + i] = t[i]
  <2> TAKE i \in 1..n
  <2>1. PICK j : j = m + i  OBVIOUS
  <2>2. j \in 1..(m + n) /\ ~(j <= m) /\ j - m = i  BY <2>1
  <2> QED BY <1>2, <2>1, <2>2
<1> QED BY <1>1, <1>2, <1>3, <1>4

IsJoin(u, s, t, m, n) ==
  /\ u = s \o t /\ Len(u) = m + n
  /\ \A i \in 1..m : u[i] = s[i]
  /\ \A i \in 1..n : u[m + i] = t[i]

LEMMA Joined ==
  ASSUME NEW S, NEW s \in Seq(S), NEW t \in Seq(S), NEW m \in Nat, NEW n \in Nat,
         Len(s) = m, Len(t) = n
  PROVE  \E u \in Seq(S) : IsJoin(u, s, t, m, n)
<1>1. /\ s \o t \in Seq(S) /\ Len(s \o t) = Len(s) + Len(t)
      /\ \A i \in 1..Len(s) : (s \o t)[i] = s[i]
      /\ \A i \in 1..Len(t) : (s \o t)[Len(s) + i] = t[i]
  BY JoinIs
<1>2. PICK u \in Seq(S) : u = s \o t  BY <1>1
<1>3. Len(u) = m + n  BY <1>1, <1>2
<1>4. \A i \in 1..m : u[i] = s[i]  BY <1>1, <1>2
<1>5. \A i \in 1..n : u[m + i] = t[i]  BY <1>1, <1>2
<1> QED BY <1>2, <1>3, <1>4, <1>5 DEF IsJoin

LEMMA ItemsAre ==
  ASSUME NEW n \in Nat
  PROVE  /\ Number(n) \in Items /\ Address(n) \in Items /\ Address(n)[2] = n
         /\ <<"env", n>> \in Items /\ <<"arg", n>> \in Items /\ <<"pad", n>> \in Items
BY DEF Number, Address, Items, Tags

LEMMA PointersAre ==
  ASSUME NEW first \in Nat, NEW n \in Nat
  PROVE  /\ Pointers(first, n) \in Seq(Items) /\ Len(Pointers(first, n)) = n
         /\ \A k \in 1..n : Pointers(first, n)[n - k + 1] = Address(first + k)
<1> DEFINE s == [k \in 1..n |-> Address(first + k)]
<1>1. \A k \in 1..n : Address(first + k) \in Items
  <2> TAKE k \in 1..n
  <2>1. PICK a \in Nat : a = first + k  OBVIOUS
  <2> QED BY <2>1, ItemsAre
<1>2. s \in [1..n -> Items] /\ \A k \in 1..n : s[k] = Address(first + k)  BY <1>1
<1> HIDE DEF s
<1>3. s \in Seq(Items) /\ Len(s) = n  BY <1>2
<1>4. Pointers(first, n) = Reverse(s)  BY DEF Pointers, s
<1>5. \A i \in 1..n : Reverse(s)[i] = s[n - i + 1]  BY <1>3, ReverseIs
<1>6. \A k \in 1..n : n - k + 1 \in 1..n /\ n - (n - k + 1) + 1 = k  OBVIOUS
<1>7. \A k \in 1..n : Reverse(s)[n - k + 1] = Address(first + k)
  <2> TAKE k \in 1..n
  <2>1. PICK i \in 1..n : i = n - k + 1 /\ n - i + 1 = k  BY <1>6
  <2> QED BY <1>2, <1>5, <2>1
<1> QED BY <1>3, <1>4, <1>7, ReverseIs

LEMMA StringsAre ==
  ASSUME NEW what \in {"env", "arg"}, NEW n \in Nat
  PROVE  /\ Strings(what, n) \in Seq(Items) /\ Len(Strings(what, n)) = n
         /\ \A k \in 1..n : Strings(what, n)[k] = <<what, k>>
<1>1. \A k \in 1..n : <<what, k>> \in Items
  <2>1. what \in Tags  BY DEF Tags
  <2>2. \A k \in 1..n : k \in Nat  OBVIOUS
  <2> QED BY <2>1, <2>2 DEF Items
<1>2. Strings(what, n) \in [1..n -> Items] /\ \A k \in 1..n : Strings(what, n)[k] = <<what, k>>
  BY <1>1 DEF Strings
<1> QED BY <1>2

(* The strings as they are pushed, from the top of the stack downwards.    *)
AllStrings(args, env) ==
  <<<<"platform", 1>>, <<"random", 2>>, <<"random", 1>>, <<"execfn", 1>>>>
    \o Strings("env", env) \o Strings("arg", args)

StringsRead(w, args, env) ==
  /\ w \in Seq(Items) /\ Len(w) = 4 + env + args
  /\ w[1] = <<"platform", 1>> /\ w[3] = <<"random", 1>> /\ w[4] = <<"execfn", 1>>
  /\ \A k \in 1..env : w[4 + k] = <<"env", k>>
  /\ \A k \in 1..args : w[4 + env + k] = <<"arg", k>>

LEMMA AllStringsAre ==
  ASSUME NEW args \in Nat, NEW env \in Nat
  PROVE  StringsRead(AllStrings(args, env), args, env)
<1>1. PICK h : h = <<<<"platform", 1>>, <<"random", 2>>, <<"random", 1>>, <<"execfn", 1>>>>  OBVIOUS
<1>2. h \in Seq(Items) /\ Len(h) = 4 /\ h[1] = <<"platform", 1>> /\ h[3] = <<"random", 1>>
      /\ h[4] = <<"execfn", 1>>
  <2>1. PICK p \in Items, q \in Items, r \in Items, s \in Items :
          p = <<"platform", 1>> /\ q = <<"random", 2>> /\ r = <<"random", 1>> /\ s = <<"execfn", 1>>
    BY DEF Items, Tags
  <2>2. h = <<p, q, r, s>>  BY <1>1, <2>1
  <2>3. h \in Seq(Items) /\ Len(h) = 4 /\ h[1] = p /\ h[3] = r /\ h[4] = s  BY <2>2
  <2> QED BY <2>1, <2>3
<1>3. PICK es \in Seq(Items) : /\ es = Strings("env", env) /\ Len(es) = env
                               /\ \A k \in 1..env : es[k] = <<"env", k>>
  BY StringsAre
<1>4. PICK as \in Seq(Items) : /\ as = Strings("arg", args) /\ Len(as) = args
                               /\ \A k \in 1..args : as[k] = <<"arg", k>>
  BY StringsAre
<1>5. PICK he \in Seq(Items) : /\ he = h \o es /\ Len(he) = 4 + env
                               /\ \A i \in 1..4 : he[i] = h[i]
                               /\ \A k \in 1..env : he[4 + k] = es[k]
  <2>1. PICK m \in Nat : m = 4 /\ Len(h) = m  BY <1>2
  <2>2. h \in Seq(Items) /\ es \in Seq(Items) /\ Len(es) = env  BY <1>2, <1>3
  <2>3. PICK u \in Seq(Items) : IsJoin(u, h, es, m, env)  BY <2>1, <2>2, Joined
  <2>4. /\ u = h \o es /\ Len(u) = m + env /\ \A i \in 1..m : u[i] = h[i]
        /\ \A k \in 1..env : u[m + k] = es[k]
    BY <2>3 DEF IsJoin
  <2>5. /\ u = h \o es /\ Len(u) = 4 + env /\ \A i \in 1..4 : u[i] = h[i]
        /\ \A k \in 1..env : u[4 + k] = es[k]
    <3>1. m = 4  BY <2>1
    <3> QED BY <2>4, <3>1
  <2> QED BY <2>5
<1>6. PICK w \in Seq(Items) : /\ w = he \o as /\ Len(w) = 4 + env + args
                              /\ \A i \in 1..(4 + env) : w[i] = he[i]
                              /\ \A k \in 1..args : w[4 + env + k] = as[k]
  <2>1. PICK m \in Nat : m = 4 + env /\ Len(he) = m  BY <1>5
  <2>2. he \in Seq(Items) /\ as \in Seq(Items) /\ Len(as) = args  BY <1>4
  <2>3. PICK u \in Seq(Items) : IsJoin(u, he, as, m, args)  BY <2>1, <2>2, Joined
  <2>4. /\ u = he \o as /\ Len(u) = m + args /\ \A i \in 1..m : u[i] = he[i]
        /\ \A k \in 1..args : u[m + k] = as[k]
    BY <2>3 DEF IsJoin
  <2> QED BY <2>1, <2>4
<1>7. w = AllStrings(args, env)  BY <1>1, <1>3, <1>4, <1>5, <1>6 DEF AllStrings
<1>8. 1 \in 1..4 /\ 3 \in 1..4 /\ 4 \in 1..4 /\ \A i \in 1..4 : i \in 1..(4 + env)  OBVIOUS
<1>9. \A k \in 1..env : 4 + k \in 1..(4 + env)  OBVIOUS
<1>10. w[1] = <<"platform", 1>> /\ w[3] = <<"random", 1>> /\ w[4] = <<"execfn", 1>>
  BY <1>2, <1>5, <1>6, <1>8
<1>11. \A k \in 1..env : w[4 + k] = <<"env", k>>  BY <1>3, <1>5, <1>6, <1>9
<1>12. \A k \in 1..args : w[4 + env + k] = <<"arg", k>>  BY <1>4, <1>6
<1> QED BY <1>6, <1>7, <1>10, <1>11, <1>12 DEF StringsRead

(* The words above argc, as they are pushed, and the whole stack.          *)
AllVectors(aux, args, env) ==
  aux \o <<Number(0)>> \o Pointers(4, env) \o <<Number(0)>> \o Pointers(4 + env, args)
StackFrom(aux, args, env) ==
  LET strings == Pushed(AllStrings(args, env), <<>>)
      aligned == IF Len(strings) % 2 = 0 THEN strings ELSE Pushed(<<<<"pad", 1>>>>, strings)
  IN  Pushed(<<Number(args)>>, Pushed(AllVectors(aux, args, env), aligned))

LEMMA BuiltStackIs == BuiltStack = StackFrom(Auxv, program.args, program.env)
BY DEF BuiltStack, StackFrom, AllVectors, AllStrings

VectorsRead(v, aux, args, env) ==
  /\ v \in Seq(Items) /\ Len(v) = 16 + env + args
  /\ \A i \in 1..14 : v[i] = aux[i]
  /\ v[15] = Number(0) /\ v[16 + env] = Number(0)
  /\ \A k \in 1..env : v[15 + (env - k + 1)] = Address(4 + k)
  /\ \A k \in 1..args : v[16 + env + (args - k + 1)] = Address(4 + env + k)

LEMMA AllVectorsAre ==
  ASSUME NEW aux \in Seq(Items), Len(aux) = 14, NEW args \in Nat, NEW env \in Nat
  PROVE  VectorsRead(AllVectors(aux, args, env), aux, args, env)
<1>1. PICK z \in Seq(Items) : z = <<Number(0)>> /\ Len(z) = 1 /\ z[1] = Number(0)
  <2>1. PICK p \in Items : p = Number(0)  BY ItemsAre
  <2>2. PICK z : z = <<p>>  OBVIOUS
  <2>3. z \in Seq(Items) /\ Len(z) = 1 /\ z[1] = p  BY <2>2
  <2> QED BY <2>1, <2>2, <2>3
<1>2. PICK c4 \in Nat, c14 \in Nat, c1 \in Nat : c4 = 4 /\ c14 = 14 /\ c1 = 1  OBVIOUS
<1>3. PICK f \in Nat : f = c4 + env  BY <1>2
<1>4. PICK es \in Seq(Items) : /\ es = Pointers(c4, env) /\ Len(es) = env
                               /\ \A k \in 1..env : es[env - k + 1] = Address(c4 + k)
  BY PointersAre
<1>5. PICK as \in Seq(Items) : /\ as = Pointers(f, args) /\ Len(as) = args
                               /\ \A k \in 1..args : as[args - k + 1] = Address(f + k)
  BY PointersAre
<1>6. PICK u1 \in Seq(Items) : IsJoin(u1, aux, z, c14, c1)  BY <1>1, <1>2, Joined
<1>7. PICK n1 \in Nat : n1 = c14 + c1 /\ Len(u1) = n1  BY <1>6 DEF IsJoin
<1>8. PICK u2 \in Seq(Items) : IsJoin(u2, u1, es, n1, env)  BY <1>4, <1>7, Joined
<1>9. PICK n2 \in Nat : n2 = n1 + env /\ Len(u2) = n2  BY <1>8 DEF IsJoin
<1>10. PICK u3 \in Seq(Items) : IsJoin(u3, u2, z, n2, c1)  BY <1>1, <1>2, <1>9, Joined
<1>11. PICK n3 \in Nat : n3 = n2 + c1 /\ Len(u3) = n3  BY <1>10 DEF IsJoin
<1>12. PICK v \in Seq(Items) : IsJoin(v, u3, as, n3, args)  BY <1>5, <1>11, Joined
<1>13. v = AllVectors(aux, args, env)
  BY <1>1, <1>2, <1>3, <1>4, <1>5, <1>6, <1>8, <1>10, <1>12, Zenon DEF IsJoin, AllVectors
<1>14. n1 = 15 /\ n2 = 15 + env /\ n3 = 16 + env  BY <1>2, <1>7, <1>9, <1>11
<1>15. Len(v) = 16 + env + args  BY <1>12, <1>14 DEF IsJoin
<1>16. \A i \in 1..n3 : v[i] = u3[i]  BY <1>12 DEF IsJoin
<1>17. \A i \in 1..n2 : u3[i] = u2[i]  BY <1>10 DEF IsJoin
<1>18. \A i \in 1..n1 : u2[i] = u1[i]  BY <1>8 DEF IsJoin
<1>19. \A i \in 1..14 : v[i] = aux[i]
  <2>1. \A i \in 1..14 : u1[i] = aux[i]  BY <1>2, <1>6 DEF IsJoin
  <2>2. \A i \in 1..14 : i \in 1..n1 /\ i \in 1..n2 /\ i \in 1..n3  BY <1>14
  <2> QED BY <1>16, <1>17, <1>18, <2>1, <2>2
<1>20. v[15] = Number(0)
  <2>1. u1[c14 + 1] = z[1] /\ c14 + 1 = 15  BY <1>2, <1>6 DEF IsJoin
  <2>2. 15 \in 1..n1 /\ 15 \in 1..n2 /\ 15 \in 1..n3  BY <1>14
  <2> QED BY <1>1, <1>16, <1>17, <1>18, <2>1, <2>2
<1>21. v[16 + env] = Number(0)
  <2>1. u3[n2 + 1] = z[1]  BY <1>2, <1>10 DEF IsJoin
  <2>2. n2 + 1 = 16 + env /\ n2 + 1 \in 1..n3  BY <1>14
  <2> QED BY <1>1, <1>16, <2>1, <2>2
<1>22. \A k \in 1..env : v[15 + (env - k + 1)] = Address(4 + k)
  <2> TAKE k \in 1..env
  <2>1. PICK i \in 1..env : i = env - k + 1  OBVIOUS
  <2>2. es[i] = Address(4 + k)  BY <1>2, <1>4, <2>1
  <2>3. u2[n1 + i] = es[i]  BY <1>8 DEF IsJoin
  <2>4. PICK j : j = n1 + i  OBVIOUS
  <2>5. j \in 1..n2 /\ j \in 1..n3 /\ j = 15 + (env - k + 1)  BY <1>14, <2>1, <2>4
  <2> QED BY <1>16, <1>17, <2>2, <2>3, <2>4, <2>5
<1>23. \A k \in 1..args : v[16 + env + (args - k + 1)] = Address(4 + env + k)
  <2> TAKE k \in 1..args
  <2>1. PICK i \in 1..args : i = args - k + 1  OBVIOUS
  <2>2. as[i] = Address(f + k)  BY <1>5, <2>1
  <2>3. v[n3 + i] = as[i]  BY <1>12 DEF IsJoin
  <2>4. n3 + i = 16 + env + (args - k + 1) /\ f + k = 4 + env + k  BY <1>2, <1>3, <1>14, <2>1
  <2> QED BY <2>2, <2>3, <2>4
<1> QED BY <1>13, <1>15, <1>19, <1>20, <1>21, <1>22, <1>23 DEF VectorsRead

(* The stack, from the stack pointer up: argc, the vectors from the last   *)
(* pushed to the first, what aligns them, and the strings likewise.        *)
IsStacked(s, v, w, m, n, c) ==
  /\ Len(s) \in Nat /\ Len(s) >= 1 + m + n /\ s[1] = c
  /\ \A i \in 1..m : s[1 + i] = v[m - i + 1]
  /\ \A i \in 1..n : s[Len(s) - i + 1] = w[i]

LEMMA StackIs ==
  ASSUME NEW v \in Seq(Items), NEW w \in Seq(Items), NEW m \in Nat, NEW n \in Nat,
         Len(v) = m, Len(w) = n, NEW c \in Items, NEW pad \in {<<>>, <<<<"pad", 1>>>>}
  PROVE  IsStacked(Pushed(<<c>>, Pushed(v, pad \o Pushed(w, <<>>))), v, w, m, n, c)
<1>1. PICK cs \in Seq(Items) : cs = <<c>> /\ Len(cs) = 1 /\ cs[1] = c
  <2>1. PICK cs : cs = <<c>>  OBVIOUS
  <2>2. cs \in Seq(Items) /\ Len(cs) = 1 /\ cs[1] = c  BY <2>1
  <2> QED BY <2>1, <2>2
<1>2. PICK cr \in Seq(Items) : cr = Reverse(cs) /\ Len(cr) = 1 /\ cr[1] = c
  <2>1. /\ Reverse(cs) \in Seq(Items) /\ Len(Reverse(cs)) = 1
        /\ \A i \in 1..1 : Reverse(cs)[i] = cs[1 - i + 1]
    BY <1>1, ReverseIs
  <2>2. Reverse(cs)[1] = cs[1]  BY <2>1
  <2> QED BY <1>1, <2>1, <2>2
<1>3. PICK vr \in Seq(Items) : vr = Reverse(v) /\ Len(vr) = m /\ \A i \in 1..m : vr[i] = v[m - i + 1]
  <2>1. /\ Reverse(v) \in Seq(Items) /\ Len(Reverse(v)) = m
        /\ \A i \in 1..m : Reverse(v)[i] = v[m - i + 1]
    BY ReverseIs
  <2> QED BY <2>1
<1>4. PICK wr \in Seq(Items) : wr = Reverse(w) /\ Len(wr) = n /\ \A i \in 1..n : wr[i] = w[n - i + 1]
  <2>1. /\ Reverse(w) \in Seq(Items) /\ Len(Reverse(w)) = n
        /\ \A i \in 1..n : Reverse(w)[i] = w[n - i + 1]
    BY ReverseIs
  <2> QED BY <2>1
<1>5. PICK ws \in Seq(Items) : ws = Pushed(w, <<>>) /\ ws = wr
  <2>1. wr \o <<>> = wr  BY ConcatEmptySeq
  <2> QED BY <1>4, <2>1 DEF Pushed
<1>6. PICK k \in Nat : pad \in Seq(Items) /\ Len(pad) = k
  <2>1. CASE pad = <<>>  BY <2>1
  <2>2. CASE pad = <<<<"pad", 1>>>>
    <3>1. PICK p \in Items : p = <<"pad", 1>>  BY ItemsAre
    <3>2. pad = <<p>>  BY <2>2, <3>1
    <3>3. pad \in Seq(Items) /\ Len(pad) = 1  BY <3>2
    <3> QED BY <3>3
  <2> QED BY <2>1, <2>2
<1>7. PICK al \in Seq(Items) : IsJoin(al, pad, wr, k, n)  BY <1>4, <1>6, Joined
<1>8. PICK n1 \in Nat : n1 = k + n /\ Len(al) = n1  BY <1>7 DEF IsJoin
<1>9. PICK va \in Seq(Items) : IsJoin(va, vr, al, m, n1)  BY <1>3, <1>8, Joined
<1>10. PICK n2 \in Nat : n2 = m + n1 /\ Len(va) = n2  BY <1>9 DEF IsJoin
<1>11. PICK c1 \in Nat : c1 = 1 /\ Len(cr) = c1  BY <1>2
<1>12. PICK s \in Seq(Items) : IsJoin(s, cr, va, c1, n2)  BY <1>2, <1>10, <1>11, Joined
<1>13. s = Pushed(<<c>>, Pushed(v, pad \o Pushed(w, <<>>)))
  BY <1>1, <1>2, <1>3, <1>5, <1>7, <1>9, <1>12, Zenon DEF IsJoin, Pushed
<1>14. PICK l \in Nat : l = Len(s) /\ l = 1 + n2  BY <1>11, <1>12 DEF IsJoin
<1>15. l >= 1 + m + n  BY <1>8, <1>10, <1>14
<1>16. s[1] = c
  <2>1. \A i \in 1..c1 : s[i] = cr[i]  BY <1>12 DEF IsJoin
  <2> QED BY <1>2, <1>11, <2>1
<1>17. \A i \in 1..n2 : s[c1 + i] = va[i]  BY <1>12 DEF IsJoin
<1>18. \A i \in 1..m : s[1 + i] = v[m - i + 1]
  <2> TAKE i \in 1..m
  <2>1. va[i] = vr[i] /\ vr[i] = v[m - i + 1]  BY <1>3, <1>9 DEF IsJoin
  <2>2. i \in 1..n2  BY <1>10
  <2> QED BY <1>11, <1>17, <2>1, <2>2
<1>19. \A i \in 1..n : s[l - i + 1] = w[i]
  <2> TAKE i \in 1..n
  <2>1. PICK j \in 1..n : j = n - i + 1 /\ n - j + 1 = i  OBVIOUS
  <2>2. wr[j] = w[i]  BY <1>4, <2>1
  <2>3. al[k + j] = wr[j]  BY <1>7 DEF IsJoin
  <2>4. PICK g \in 1..n1 : g = k + j  BY <1>8
  <2>5. va[m + g] = al[g]  BY <1>9 DEF IsJoin
  <2>6. PICK h \in 1..n2 : h = m + g  BY <1>10
  <2>7. s[c1 + h] = va[h]  BY <1>17
  <2>8. c1 + h = l - i + 1  BY <1>8, <1>10, <1>11, <1>14, <2>1, <2>4, <2>6
  <2> QED BY <2>2, <2>3, <2>4, <2>5, <2>6, <2>7, <2>8
<1> QED BY <1>13, <1>14, <1>15, <1>16, <1>18, <1>19 DEF IsStacked

LEMMA AuxvIs ==
  ASSUME LoadTypes
  PROVE  /\ Auxv \in Seq(Items) /\ Len(Auxv) = 14
         /\ Auxv[2] = Key("NULL") /\ Auxv[3] = Address(1) /\ Auxv[4] = Key("PLATFORM")
         /\ Auxv[5] = Address(4) /\ Auxv[6] = Key("EXECFN") /\ Auxv[7] = Address(3)
         /\ Auxv[8] = Key("RANDOM") /\ Auxv[9] = Number(base + program.bin.entry)
         /\ Auxv[10] = Key("ENTRY") /\ Auxv[11] = Number(interpBase) /\ Auxv[12] = Key("BASE")
         /\ Auxv[13] = Number(phdrLoadedAddr) /\ Auxv[14] = Key("PHDR")
<1>1. IsImage(program.bin) /\ base \in Nat /\ interpBase \in Nat
  BY FilesAre, NumbersAre
<1>2. PICK en \in Nat : en = base + program.bin.entry
  <2>1. PICK x \in Nat, y \in Nat : x = base /\ y = program.bin.entry  BY <1>1 DEF IsImage
  <2> QED BY <2>1
<1>3. PICK ph \in Nat : ph = phdrLoadedAddr
  <2>1. CASE program.bin.phdrAt # None /\ base + program.bin.phdrAt # 0
    <3>1. PICK x \in Nat, y \in Nat : x = base /\ y = program.bin.phdrAt
      BY <1>1, <2>1 DEF IsImage
    <3>2. x + y \in Nat  OBVIOUS
    <3> QED BY <2>1, <3>1, <3>2 DEF phdrLoadedAddr
  <2>2. CASE ~(program.bin.phdrAt # None /\ base + program.bin.phdrAt # 0)
    <3>1. PICK x \in Nat, y \in Nat : x = base /\ y = Phoff  BY <1>1, ElfLoaderAssumption
    <3>2. x + y \in Nat  OBVIOUS
    <3> QED BY <2>2, <3>1, <3>2 DEF phdrLoadedAddr
  <2> QED BY <2>1, <2>2
<1>4. /\ Number(0) \in Items /\ Address(1) \in Items /\ Address(4) \in Items /\ Address(3) \in Items
      /\ Number(en) \in Items /\ Number(interpBase) \in Items /\ Number(ph) \in Items
  BY <1>1, ItemsAre
<1>5. /\ Key("NULL") \in Items /\ Key("PLATFORM") \in Items /\ Key("EXECFN") \in Items
      /\ Key("RANDOM") \in Items /\ Key("ENTRY") \in Items /\ Key("BASE") \in Items
      /\ Key("PHDR") \in Items
  BY DEF Key, Items, Tags, Keys
<1>6. \A a, b, c, d, e, f, g, h, i, j, k, l, m, n \in Items :
        LET x == <<a, b, c, d, e, f, g, h, i, j, k, l, m, n>>
        IN  /\ x \in Seq(Items) /\ Len(x) = 14
            /\ x[2] = b /\ x[3] = c /\ x[4] = d /\ x[5] = e /\ x[6] = f /\ x[7] = g /\ x[8] = h
            /\ x[9] = i /\ x[10] = j /\ x[11] = k /\ x[12] = l /\ x[13] = m /\ x[14] = n
  OBVIOUS
<1>7. Auxv = << Number(0), Key("NULL"), Address(1), Key("PLATFORM"),
                Address(4), Key("EXECFN"), Address(3), Key("RANDOM"),
                Number(en), Key("ENTRY"), Number(interpBase), Key("BASE"),
                Number(ph), Key("PHDR") >>
  BY <1>2, <1>3 DEF Auxv
<1> HIDE DEF Auxv
<1> QED BY <1>2, <1>3, <1>4, <1>5, <1>6, <1>7

(* What the program finds from its stack pointer up.                       *)
StackRead(s, args, env, w, aux) ==
  /\ s[1] = Number(args)
  /\ \A k \in 1..args : s[1 + k] = Address(4 + env + k)
  /\ s[args + 2] = Number(0)
  /\ \A k \in 1..env : s[args + 2 + k] = Address(4 + k)
  /\ s[args + env + 3] = Number(0)
  /\ \A t \in 1..14 : s[args + env + 3 + t] = aux[15 - t]
  /\ Len(s) \in Nat /\ Len(s) >= 21 + args + env
  /\ \A i \in 1..(4 + env + args) : s[Len(s) - i + 1] = w[i]

LEMMA StackReads ==
  ASSUME NEW aux \in Seq(Items), Len(aux) = 14, NEW args \in Nat, NEW env \in Nat
  PROVE  StackRead(StackFrom(aux, args, env), args, env, AllStrings(args, env), aux)
<1>1. PICK w \in Seq(Items), n \in Nat : w = AllStrings(args, env) /\ n = 4 + env + args /\ Len(w) = n
  <2>1. PICK w : w = AllStrings(args, env) /\ StringsRead(w, args, env)  BY AllStringsAre
  <2>2. PICK n \in Nat : n = 4 + env + args  OBVIOUS
  <2> QED BY <2>1, <2>2 DEF StringsRead
<1>2. PICK v \in Seq(Items), m \in Nat :
        /\ v = AllVectors(aux, args, env) /\ m = 16 + env + args /\ Len(v) = m
        /\ \A i \in 1..14 : v[i] = aux[i]
        /\ v[15] = Number(0) /\ v[16 + env] = Number(0)
        /\ \A k \in 1..env : v[15 + (env - k + 1)] = Address(4 + k)
        /\ \A k \in 1..args : v[16 + env + (args - k + 1)] = Address(4 + env + k)
  <2>1. PICK v : v = AllVectors(aux, args, env) /\ VectorsRead(v, aux, args, env)
    BY AllVectorsAre
  <2>2. PICK m \in Nat : m = 16 + env + args  OBVIOUS
  <2> QED BY <2>1, <2>2 DEF VectorsRead
<1>m. m \in Nat /\ m = 16 + env + args  BY <1>2
<1>3. PICK c \in Items : c = Number(args)  BY ItemsAre
<1>4. PICK st : st = Pushed(w, <<>>)  OBVIOUS
<1>5. PICK pad \in {<<>>, <<<<"pad", 1>>>>} :
        (IF Len(st) % 2 = 0 THEN st ELSE Pushed(<<<<"pad", 1>>>>, st)) = pad \o st
  <2>1. CASE Len(st) % 2 = 0
    <3>1. st \in Seq(Items)
      <4>1. Reverse(w) \in Seq(Items)  BY ReverseIs
      <4>2. Reverse(w) \o <<>> = Reverse(w)  BY <4>1, ConcatEmptySeq
      <4> QED BY <1>4, <4>1, <4>2 DEF Pushed
    <3>2. <<>> \o st = st  BY <3>1, ConcatEmptySeq
    <3> QED BY <2>1, <3>2
  <2>2. CASE Len(st) % 2 # 0
    <3>1. Reverse(<<<<"pad", 1>>>>) = <<<<"pad", 1>>>>
      <4>1. PICK p \in Items : p = <<"pad", 1>>  BY ItemsAre
      <4>2. PICK x : x = <<p>>  OBVIOUS
      <4>3. x \in Seq(Items) /\ Len(x) = 1 /\ x = [i \in 1..1 |-> x[i]]  BY <4>2
      <4>4. Reverse(x) = [i \in 1..1 |-> x[(1 - i) + 1]]  BY <4>3 DEF Reverse
      <4>5. \A i \in 1..1 : (1 - i) + 1 = i  OBVIOUS
      <4>6. Reverse(x) = x  BY <4>3, <4>4, <4>5
      <4> QED BY <4>1, <4>2, <4>6
    <3>2. Pushed(<<<<"pad", 1>>>>, st) = <<<<"pad", 1>>>> \o st  BY <3>1 DEF Pushed
    <3> QED BY <2>2, <3>2
  <2> QED BY <2>1, <2>2
<1>6. PICK s : s = Pushed(<<c>>, Pushed(v, pad \o Pushed(w, <<>>)))  OBVIOUS
<1>7. s = StackFrom(aux, args, env)
  BY <1>1, <1>2, <1>3, <1>4, <1>5, <1>6, Zenon DEF StackFrom
<1>8. PICK l \in Nat : /\ l = Len(s) /\ l >= 1 + m + n /\ s[1] = c
                       /\ \A i \in 1..m : s[1 + i] = v[m - i + 1]
                       /\ \A i \in 1..n : s[l - i + 1] = w[i]
  <2>1. IsStacked(s, v, w, m, n, c)  BY <1>1, <1>2, <1>6, StackIs
  <2> QED BY <2>1 DEF IsStacked
<1>9. \A i \in 1..m : s[1 + i] = v[m - i + 1]  BY <1>8
<1>10. \A k \in 1..args : s[1 + k] = Address(4 + env + k)
  <2> TAKE k \in 1..args
  <2>1. k \in 1..m /\ m - k + 1 = 16 + env + (args - k + 1)  BY <1>m
  <2>2. v[16 + env + (args - k + 1)] = Address(4 + env + k)  BY <1>2
  <2> QED BY <1>9, <2>1, <2>2
<1>11. s[args + 2] = Number(0)
  <2>1. PICK i \in 1..m : i = args + 1 /\ m - i + 1 = 16 + env /\ 1 + i = args + 2
    <3>1. PICK i \in Nat : i = args + 1  OBVIOUS
    <3>2. i \in 1..m /\ m - i + 1 = 16 + env /\ 1 + i = args + 2  BY <1>m, <3>1
    <3> QED BY <3>1, <3>2
  <2> QED BY <1>2, <1>9, <2>1
<1>12. \A k \in 1..env : s[args + 2 + k] = Address(4 + k)
  <2> TAKE k \in 1..env
  <2>1. PICK i \in 1..m : i = args + 1 + k /\ m - i + 1 = 15 + (env - k + 1) /\ 1 + i = args + 2 + k
    BY <1>m
  <2>2. v[15 + (env - k + 1)] = Address(4 + k)  BY <1>2
  <2> QED BY <1>9, <2>1, <2>2
<1>13. s[args + env + 3] = Number(0)
  <2>1. PICK i \in 1..m : i = args + env + 2 /\ m - i + 1 = 15 /\ 1 + i = args + env + 3  BY <1>m
  <2> QED BY <1>2, <1>9, <2>1
<1>14. \A t \in 1..14 : s[args + env + 3 + t] = aux[15 - t]
  <2> TAKE t \in 1..14
  <2>1. PICK i \in 1..m : i = args + env + 2 + t /\ m - i + 1 = 15 - t /\ 1 + i = args + env + 3 + t
    BY <1>m
  <2>2. 15 - t \in 1..14  OBVIOUS
  <2>3. v[15 - t] = aux[15 - t]  BY <1>2, <2>2
  <2> QED BY <1>9, <2>1, <2>3
<1>15. l >= 21 + args + env  BY <1>1, <1>2, <1>8
<1> QED BY <1>1, <1>3, <1>7, <1>8, <1>10, <1>11, <1>12, <1>13, <1>14, <1>15 DEF StackRead

(* What StackReadsBack looks for in the auxiliary vector, and finds.       *)
PairsOf(s, x) == {k \in 1..Len(s) : k > x /\ (k - x) % 2 = 1 /\ k < Len(s)}
EndOf(s, x) == Min({k \in PairsOf(s, x) : s[k] = Key("NULL")})
ValueOf(s, x, name) == s[1 + CHOOSE k \in PairsOf(s, x) : k < EndOf(s, x) /\ s[k] = Key(name)]

KeysRead(s, x) ==
  /\ Len(s) \in Nat /\ Len(s) >= x + 14
  /\ s[x + 1] = Key("PHDR") /\ s[x + 3] = Key("BASE") /\ s[x + 5] = Key("ENTRY")
  /\ s[x + 7] = Key("RANDOM") /\ s[x + 9] = Key("EXECFN") /\ s[x + 11] = Key("PLATFORM")
  /\ s[x + 13] = Key("NULL")

(* The keys before the end, by their place.                                *)
KeyNames == [t \in {1, 3, 5, 7, 9, 11, 13} |->
  CASE t = 1 -> "PHDR" [] t = 3 -> "BASE" [] t = 5 -> "ENTRY" [] t = 7 -> "RANDOM"
    [] t = 9 -> "EXECFN" [] t = 11 -> "PLATFORM" [] OTHER -> "NULL"]

LEMMA KeyNamesAre ==
  /\ KeyNames[1] = "PHDR" /\ KeyNames[3] = "BASE" /\ KeyNames[5] = "ENTRY"
  /\ KeyNames[7] = "RANDOM" /\ KeyNames[9] = "EXECFN" /\ KeyNames[11] = "PLATFORM"
  /\ KeyNames[13] = "NULL"
  /\ \A t, u \in {1, 3, 5, 7, 9, 11, 13} : Key(KeyNames[t]) = Key(KeyNames[u]) => t = u
<1>1. /\ KeyNames[1] = "PHDR" /\ KeyNames[3] = "BASE" /\ KeyNames[5] = "ENTRY"
      /\ KeyNames[7] = "RANDOM" /\ KeyNames[9] = "EXECFN" /\ KeyNames[11] = "PLATFORM"
      /\ KeyNames[13] = "NULL"
  BY DEF KeyNames
<1>2. \A m, n : Key(m) = Key(n) => m = n  BY DEF Key
<1>3. \A t, u \in {1, 3, 5, 7, 9, 11, 13} : KeyNames[t] = KeyNames[u] => t = u  BY <1>1
<1> QED BY <1>1, <1>2, <1>3

LEMMA PairsAre ==
  ASSUME NEW s, NEW x \in Nat, KeysRead(s, x)
  PROVE  /\ \A t \in {1, 3, 5, 7, 9, 11, 13} :
              x + t \in PairsOf(s, x) /\ s[x + t] = Key(KeyNames[t])
         /\ \A k \in PairsOf(s, x) : k <= x + 13 =>
              \E t \in {1, 3, 5, 7, 9, 11, 13} : k = x + t
<1>1. PICK l \in Nat : l = Len(s) /\ l >= x + 14  BY DEF KeysRead
<1>2. \A t \in {1, 3, 5, 7, 9, 11, 13} : x + t \in PairsOf(s, x)
  <2> TAKE t \in {1, 3, 5, 7, 9, 11, 13}
  <2>1. PICK k \in 1..l : k = x + t /\ k > x /\ k < l /\ k - x = t  BY <1>1
  <2>2. t % 2 = 1  OBVIOUS
  <2> QED BY <1>1, <2>1, <2>2 DEF PairsOf
<1>3. \A t \in {1, 3, 5, 7, 9, 11, 13} : s[x + t] = Key(KeyNames[t])
  BY KeyNamesAre DEF KeysRead
<1>4. \A k \in PairsOf(s, x) : k <= x + 13 => \E t \in {1, 3, 5, 7, 9, 11, 13} : k = x + t
  <2> TAKE k \in PairsOf(s, x)
  <2>1. k \in 1..l /\ k > x /\ (k - x) % 2 = 1  BY <1>1 DEF PairsOf
  <2>2. ASSUME k <= x + 13 PROVE \E t \in {1, 3, 5, 7, 9, 11, 13} : k = x + t
    <3>1. PICK t \in Nat : t = k - x  BY <2>1
    <3>2. t % 2 = 1 /\ t >= 1 /\ t <= 13 /\ k = x + t  BY <2>1, <2>2, <3>1
    <3>3. t \in {1, 3, 5, 7, 9, 11, 13}  BY <3>2
    <3> QED BY <3>2, <3>3
  <2> QED BY <2>2
<1> QED BY <1>2, <1>3, <1>4

LEMMA EndIs ==
  ASSUME NEW s, NEW x \in Nat, KeysRead(s, x)
  PROVE  EndOf(s, x) = x + 13
<1> DEFINE T == {k \in PairsOf(s, x) : s[k] = Key("NULL")}
<1>1. PICK y \in Nat : y = x + 13  OBVIOUS
<1>2. y \in T
  <2>1. x + 13 \in PairsOf(s, x) /\ s[x + 13] = Key(KeyNames[13])  BY PairsAre
  <2> QED BY <1>1, <2>1, KeyNamesAre
<1>3. T \subseteq Nat  BY DEF PairsOf
<1>4. Min(T) \in T /\ \A k \in T : Min(T) <= k
  <2> HIDE DEF T
  <2> QED BY <1>2, <1>3, MinIs
<1>5. PICK m \in Nat : m = Min(T) /\ m \in T /\ m <= y  BY <1>2, <1>3, <1>4
<1>6. PICK t \in {1, 3, 5, 7, 9, 11, 13} : m = x + t
  <2>1. m \in PairsOf(s, x)  BY <1>5
  <2> QED BY <1>1, <1>5, <2>1, PairsAre
<1>7. Key(KeyNames[t]) = Key(KeyNames[13])
  <2>1. s[m] = Key("NULL")  BY <1>5
  <2>2. s[x + t] = Key(KeyNames[t])  BY PairsAre
  <2> QED BY <1>6, <2>1, <2>2, KeyNamesAre
<1>8. t = 13  BY <1>7, KeyNamesAre
<1> QED BY <1>5, <1>6, <1>8 DEF EndOf

LEMMA ValueIs ==
  ASSUME NEW s, NEW x \in Nat, KeysRead(s, x), NEW t \in {1, 3, 5, 7, 9, 11}
  PROVE  ValueOf(s, x, KeyNames[t]) = s[x + t + 1]
<1>1. PICK y \in Nat : y = x + 13 /\ y = EndOf(s, x)  BY EndIs
<1>2. PICK k \in Nat : k = x + t /\ k < y /\ 1 + k = x + t + 1  BY <1>1
<1>3. k \in PairsOf(s, x) /\ k < EndOf(s, x) /\ s[k] = Key(KeyNames[t])  BY <1>1, <1>2, PairsAre
<1>4. ASSUME NEW j \in PairsOf(s, x), j < EndOf(s, x), s[j] = Key(KeyNames[t]) PROVE j = k
  <2>1. j \in Nat  BY DEF PairsOf
  <2>2. j <= x + 13  BY <1>1, <1>4, <2>1
  <2>3. PICK u \in {1, 3, 5, 7, 9, 11, 13} : j = x + u  BY <2>2, PairsAre
  <2>4. Key(KeyNames[u]) = Key(KeyNames[t])  BY <1>4, <2>3, PairsAre
  <2>5. u = t  BY <2>4, KeyNamesAre
  <2> QED BY <1>2, <2>3, <2>5
<1>5. (CHOOSE j \in PairsOf(s, x) : j < EndOf(s, x) /\ s[j] = Key(KeyNames[t])) = k
  BY <1>3, <1>4
<1> QED BY <1>2, <1>5 DEF ValueOf

-----------------------------------------------------------------------------
(* The headers that a segment has are found where AT_PHDR says: a place    *)
(* that is reserved begins behind the first page, so that it is never 0.   *)
LEMMA HeadersAreThere ==
  ASSUME LoadTypes, Loaded, Usual, pc = "jumped", HeadersMapped(program.bin)
  PROVE  data[phdrLoadedAddr] = <<"bin", Phoff>>
<1>1. PICK b \in Nat, n \in Nat \ {0} : b = base /\ n = PageSize
  BY NumbersAre, ElfLoaderAssumption
<1>2. IsImage(program.bin) /\ UsualFile(program.bin)  BY FilesAre
<1>3. PICK at \in Nat : at = IF program.bin.phdrAt # None THEN program.bin.phdrAt ELSE Phoff
  BY <1>2, ElfLoaderAssumption DEF IsImage
<1>4. PICK s \in ToSet(program.bin.segments) :
        /\ at - s.vaddr \in 0..(s.memsz - 1)
        /\ Content(program.bin, "bin", s, at - s.vaddr) = <<"bin", Phoff>>
  BY <1>3 DEF HeadersMapped
<1>5. PICK l \in Nat : l = Len(program.bin.segments)  BY <1>2, SegmentsOf
<1>6. PICK j \in 1..l : s = program.bin.segments[j] /\ s \in SegmentRecord
  <2>1. ToSet(program.bin.segments) = {program.bin.segments[k] : k \in 1..l}  BY <1>2, <1>5, SegmentsOf
  <2>2. PICK j \in 1..l : s = program.bin.segments[j]  BY <1>4, <2>1
  <2>3. \A k \in 1..l : program.bin.segments[k] \in SegmentRecord  BY <1>2, <1>5, SegmentsOf
  <2> QED BY <2>2, <2>3
<1>7. PICK v \in Nat, m \in Nat : v = s.vaddr /\ m = s.memsz  BY <1>6 DEF SegmentRecord
<1>8. PICK i \in 0..(m - 1) : i = at - v /\ i \in 0..(s.memsz - 1)  BY <1>4, <1>7
<1>9. Has(program.bin, b, map, others) /\ SegmentPlaced(s, program.bin, "bin", b, map, data)
  <2>1. /\ Has(program.bin, b, map, others)
        /\ Placed(program.bin, "bin", b, Len(program.bin.segments) + 1, map, data)
    BY <1>1 DEF Loaded, BinLoaded, Underway
  <2>2. j < l + 1  OBVIOUS
  <2> QED BY <1>5, <1>6, <2>1, <2>2 DEF Placed
<1>10. PICK w \in Nat : w = b + at  BY <1>1
<1>11. b + v + i = w  BY <1>1, <1>7, <1>8, <1>10
<1>12. data[w] = <<"bin", Phoff>>
  BY <1>4, <1>7, <1>8, <1>9, <1>11 DEF SegmentPlaced
<1>13. PICK p \in Nat : p = PageOf(b) /\ b = p * PageSize  BY <1>9, PageOfWord DEF Has
<1>14. p \in Area(program.bin, b)
  <2>1. PICK q \in Nat : q = PageOf(w)  BY PageOfWord
  <2>2. PageOf(b + s.vaddr + i) \in SegmentPages(s, b)  BY <1>1, <1>6, <1>8, PagesOfItsWords
  <2>3. q \in SegmentPages(s, b)  BY <1>7, <1>11, <2>1, <2>2
  <2>4. SegmentPages(s, b) \subseteq Area(program.bin, b)
    BY <1>2, <1>5, <1>6, <1>13, SegmentsInArea
  <2>5. q \in p..(p + Reserved(program.bin) - 1)  BY <1>13, <2>3, <2>4 DEF Area
  <2>6. PICK r \in Nat : r = Reserved(program.bin)  BY <1>2, SpanIs
  <2>7. p \in p..(p + r - 1)  BY <2>5, <2>6
  <2> QED BY <1>13, <2>6, <2>7 DEF Area
<1>15. p # 0
  <2>1. p \notin others  BY <1>9, <1>14 DEF Has
  <2> QED BY <2>1 DEF LoadTypes
<1>16. b # 0
  <2>1. PICK z \in 0..(n - 1) : z = 0 /\ z \in Nat  BY <1>1
  <2>2. z = z * n + z  BY <1>1, <2>1
  <2>3. PageOf(z) = z  BY <1>1, <2>1, <2>2, PageIs
  <2> QED BY <1>13, <1>15, <2>1, <2>3
<1>17. w = phdrLoadedAddr
  <2>1. b + at # 0  BY <1>16
  <2>2. CASE program.bin.phdrAt # None
    BY <1>1, <1>3, <1>10, <2>1, <2>2 DEF phdrLoadedAddr
  <2>3. CASE program.bin.phdrAt = None
    BY <1>1, <1>3, <1>10, <2>3 DEF phdrLoadedAddr
  <2> QED BY <2>2, <2>3
<1> QED BY <1>12, <1>17

(* What the words of a stack that was built lead to.                       *)
ValuesRead(s, x, w) ==
  /\ KeysRead(s, x) /\ Len(s) >= 4
  /\ s[x + 2] = Number(phdrLoadedAddr) /\ s[x + 4] = Number(interpBase)
  /\ s[x + 6] = Number(base + program.bin.entry)
  /\ s[x + 8] = Address(3) /\ s[x + 10] = Address(4) /\ s[x + 12] = Address(1)

LEMMA ValuesAre ==
  ASSUME LoadTypes, NEW args \in Nat, NEW env \in Nat, NEW x \in Nat, x = args + env + 3,
         NEW s, NEW w, StackRead(s, args, env, w, Auxv)
  PROVE  ValuesRead(s, x, w)
<1>1. \A t \in 1..14 : s[x + t] = Auxv[15 - t]  BY DEF StackRead
<1>2. /\ s[x + 1] = Auxv[14] /\ s[x + 2] = Auxv[13] /\ s[x + 3] = Auxv[12] /\ s[x + 4] = Auxv[11]
      /\ s[x + 5] = Auxv[10] /\ s[x + 6] = Auxv[9] /\ s[x + 7] = Auxv[8] /\ s[x + 8] = Auxv[7]
      /\ s[x + 9] = Auxv[6] /\ s[x + 10] = Auxv[5] /\ s[x + 11] = Auxv[4] /\ s[x + 12] = Auxv[3]
      /\ s[x + 13] = Auxv[2]
  <2> HIDE DEF Auxv
  <2> QED BY <1>1
<1>3. Len(s) \in Nat /\ Len(s) >= x + 14 /\ Len(s) >= 4
  <2>1. PICK l \in Nat : l = Len(s) /\ l >= 21 + args + env  BY DEF StackRead
  <2>2. l >= x + 14 /\ l >= 4  BY <2>1
  <2> QED BY <2>1, <2>2
<1>4. KeysRead(s, x)  BY <1>2, <1>3, AuxvIs DEF KeysRead
<1> QED BY <1>2, <1>3, <1>4, AuxvIs DEF ValuesRead

(* The values of the auxiliary vector, by their keys, and their strings.   *)
FoundBack(s, x) ==
  /\ ValueOf(s, x, "PHDR") = Number(phdrLoadedAddr) /\ ValueOf(s, x, "BASE") = Number(interpBase)
  /\ ValueOf(s, x, "ENTRY") = Number(base + program.bin.entry)
  /\ ValueOf(s, x, "RANDOM") = Address(3) /\ ValueOf(s, x, "EXECFN") = Address(4)
  /\ ValueOf(s, x, "PLATFORM") = Address(1)

LEMMA ValuesAreFound ==
  ASSUME NEW s, NEW x \in Nat, NEW w, ValuesRead(s, x, w)
  PROVE  FoundBack(s, x)
<1>1. KeysRead(s, x)  BY DEF ValuesRead
<1>2. \A t \in {1, 3, 5, 7, 9, 11} : ValueOf(s, x, KeyNames[t]) = s[x + t + 1]  BY <1>1, ValueIs
<1>3. /\ ValueOf(s, x, "PHDR") = s[x + 1 + 1] /\ ValueOf(s, x, "BASE") = s[x + 3 + 1]
      /\ ValueOf(s, x, "ENTRY") = s[x + 5 + 1] /\ ValueOf(s, x, "RANDOM") = s[x + 7 + 1]
      /\ ValueOf(s, x, "EXECFN") = s[x + 9 + 1] /\ ValueOf(s, x, "PLATFORM") = s[x + 11 + 1]
  BY <1>2, KeyNamesAre
<1>4. /\ x + 1 + 1 = x + 2 /\ x + 3 + 1 = x + 4 /\ x + 5 + 1 = x + 6 /\ x + 7 + 1 = x + 8
      /\ x + 9 + 1 = x + 10 /\ x + 11 + 1 = x + 12
  OBVIOUS
<1> QED BY <1>3, <1>4 DEF ValuesRead, FoundBack

(* The strings, by the addresses that the vectors have of them.            *)
StringsFound(s, args, env) ==
  /\ \A k \in 1..args : s[Len(s) - s[1 + k][2] + 1] = <<"arg", k>>
  /\ \A k \in 1..env : s[Len(s) - s[args + 2 + k][2] + 1] = <<"env", k>>
  /\ s[Len(s) - Address(1)[2] + 1] = <<"platform", 1>>
  /\ s[Len(s) - Address(3)[2] + 1] = <<"random", 1>>
  /\ s[Len(s) - Address(4)[2] + 1] = <<"execfn", 1>>

LEMMA StringsAreFound ==
  ASSUME NEW args \in Nat, NEW env \in Nat, NEW s, NEW w, NEW aux,
         StackRead(s, args, env, w, aux), StringsRead(w, args, env)
  PROVE  StringsFound(s, args, env)
<1>1. PICK n \in Nat : n = 4 + env + args  OBVIOUS
<1>2. \A a \in 1..n : s[Len(s) - Address(a)[2] + 1] = w[a]
  <2> TAKE a \in 1..n
  <2>1. Address(a)[2] = a  BY DEF Address
  <2>2. s[Len(s) - a + 1] = w[a]  BY <1>1 DEF StackRead
  <2> QED BY <2>1, <2>2
<1>3. \A k \in 1..args : s[Len(s) - s[1 + k][2] + 1] = <<"arg", k>>
  <2> TAKE k \in 1..args
  <2>1. PICK a \in 1..n : a = 4 + env + k  BY <1>1
  <2>2. s[1 + k] = Address(a)  BY <2>1 DEF StackRead
  <2>3. w[a] = <<"arg", k>>  BY <2>1 DEF StringsRead
  <2> QED BY <1>2, <2>2, <2>3
<1>4. \A k \in 1..env : s[Len(s) - s[args + 2 + k][2] + 1] = <<"env", k>>
  <2> TAKE k \in 1..env
  <2>1. PICK a \in 1..n : a = 4 + k  BY <1>1
  <2>2. s[args + 2 + k] = Address(a)  BY <2>1 DEF StackRead
  <2>3. w[a] = <<"env", k>>  BY <2>1 DEF StringsRead
  <2> QED BY <1>2, <2>2, <2>3
<1>5. 1 \in 1..n /\ 3 \in 1..n /\ 4 \in 1..n  BY <1>1
<1>6. w[1] = <<"platform", 1>> /\ w[3] = <<"random", 1>> /\ w[4] = <<"execfn", 1>>
  BY DEF StringsRead
<1> QED BY <1>2, <1>3, <1>4, <1>5, <1>6 DEF StringsFound

(* The stack reads back as the ABI has it when the program is entered, for *)
(* any number of arguments and of variables of the environment.            *)
THEOREM StackCorrect == LoadSpec => []StackReadsBack
<1>1. LoadInv => StackReadsBack
  <2> SUFFICES ASSUME LoadInv, pc = "jumped" PROVE StackReadsBack  BY DEF StackReadsBack
  <2>1. LoadTypes  BY DEF LoadInv
  <2>2. program.args \in Nat /\ program.env \in Nat
    BY <2>1, ProgramsAssumption DEF LoadTypes
  <2>3. stack = StackFrom(Auxv, program.args, program.env)  BY BuiltStackIs DEF LoadInv
  <2>4. PICK aux \in Seq(Items) : aux = Auxv /\ Len(aux) = 14  BY <2>1, AuxvIs
  <2>5. PICK w : w = AllStrings(program.args, program.env) /\ StringsRead(w, program.args, program.env)
    BY <2>2, AllStringsAre
  <2>6. StackRead(stack, program.args, program.env, w, Auxv)
    <3>1. StackRead(StackFrom(aux, program.args, program.env), program.args, program.env,
                    AllStrings(program.args, program.env), aux)
      BY <2>2, <2>4, StackReads
    <3> QED BY <2>3, <2>4, <2>5, <3>1
  <2>7. StringsFound(stack, program.args, program.env)  BY <2>2, <2>5, <2>6, StringsAreFound
  <2>8. FoundBack(stack, program.args + program.env + 3)
    <3>1. PICK args \in Nat, env \in Nat, x \in Nat :
            args = program.args /\ env = program.env /\ x = args + env + 3
      BY <2>2
    <3>2. StackRead(stack, args, env, w, Auxv)  BY <2>6, <3>1
    <3>3. ValuesRead(stack, x, w)  BY <2>1, <3>1, <3>2, ValuesAre
    <3>4. FoundBack(stack, x)  BY <3>3, ValuesAreFound
    <3> QED BY <3>1, <3>4
  <2>9. /\ stack[1] = Number(program.args) /\ stack[program.args + 2] = Number(0)
        /\ stack[program.args + program.env + 3] = Number(0)
    BY <2>6 DEF StackRead
  <2>10. Usual /\ HeadersMapped(program.bin) => data[Number(phdrLoadedAddr)[2]] = <<"bin", Phoff>>
    <3>1. Number(phdrLoadedAddr)[2] = phdrLoadedAddr  BY DEF Number
    <3> QED BY <2>1, <3>1, HeadersAreThere DEF LoadInv
  <2> QED BY <2>7, <2>8, <2>9, <2>10, Zenon
          DEF StackReadsBack, StringsFound, FoundBack, ValueOf, EndOf, PairsOf
<1> QED BY <1>1, LoadInvariant, PTL
=============================================================================
