--------------------------- MODULE QemuPipeProofs ---------------------------
(***************************************************************************)
(* Theorems about QemuPipe for any number of connections, sessions and     *)
(* descriptors: its type invariant, that a listed descriptor has a thread  *)
(* to erase it, that a stopped server has no thread and no socket, and     *)
(* that in the first session no descriptor is closed under its user and an *)
(* update reaches only those who asked for it.                             *)
(***************************************************************************)
EXTENDS QemuPipe, TLAPS

(* The types are inductive.                                                *)
LEMMA TypesStep == TypeOK /\ [Next]_vars => VarTypes'
<1> SUFFICES ASSUME VarTypes, CallsHaveSockets, [Next]_vars PROVE VarTypes'
  BY DEF TypeOK
<1> USE QemuPipeAssumption
    DEF VarTypes, Objects, Listed, Services, ServerState, ThreadState, MainState,
        vars, registryVars, kernelVars, serverVars, threadVars,
        guestVars, mainVars
<1>1. CASE UNCHANGED vars
  BY <1>1
<1>2. ASSUME NEW s \in Sessions, NEW f \in Fds, Start(s, f) PROVE VarTypes'
  BY <1>2 DEF Start, Free
<1>3. CASE StopBegin
  BY <1>3 DEF StopBegin
<1>4. CASE StopShutdown
  BY <1>4 DEF StopShutdown, Resolve
<1>5. CASE StopClose
  BY <1>5 DEF StopClose
<1>6. CASE StopJoin
  BY <1>6 DEF StopJoin
<1>7. CASE StopCloseClients
  BY <1>7 DEF StopCloseClients
<1>8. ASSUME NEW list \in Listed, SendBegin(list) PROVE VarTypes'
  BY <1>8 DEF SendBegin
<1>9. ASSUME NEW e \in toSend, SendOne(e) PROVE VarTypes'
  BY <1>9 DEF SendOne
<1>10. CASE SendResumes
  BY <1>10 DEF SendResumes
<1>11. CASE SendEnd
  BY <1>11 DEF SendEnd
<1>12. CASE ServerCheck
  BY <1>12 DEF ServerCheck
<1>13. CASE ServerEnterAccept
  BY <1>13 DEF ServerEnterAccept, Resolve
<1>14. ASSUME NEW c \in Conns, NEW f \in Fds, ServerAccept(c, f) PROVE VarTypes'
  BY <1>14 DEF ServerAccept, Free
<1>15. CASE ServerAcceptError
  BY <1>15 DEF ServerAcceptError
<1>16. ASSUME NEW c \in Conns, HelloEnterRecv(c) PROVE VarTypes'
  BY <1>16 DEF HelloEnterRecv, EnterRecv, Goto
<1>17. ASSUME NEW c \in Conns, HelloRecv(c) PROVE VarTypes'
  <2>1. ref[c] \in Conns
    BY <1>17 DEF HelloRecv, CallsHaveSockets
  <2>2. unread' \in [Conns -> BOOLEAN]
    BY <1>17, <2>1 DEF HelloRecv
  <2>3. thread' \in [Conns -> ThreadState]
    BY <1>17 DEF HelloRecv, Goto
  <2>4. type' \in [Conns -> Services]
    BY <1>17, <2>1 DEF HelloRecv
  <2>5. ref' \in [Conns -> Conns \cup {NoObject}]
    BY <1>17 DEF HelloRecv
  <2> QED
    BY <1>17, <2>1, <2>2, <2>3, <2>5, <2>4 DEF HelloRecv
<1>18. ASSUME NEW c \in Conns, Register(c) PROVE VarTypes'
  <2>1. fd[c] \in Fds
    BY <1>18 DEF Register, CallsHaveSockets
  <2>2. entries' \subseteq [owner : Conns, fd : Fds, list : Listed]
    BY <1>18, <2>1 DEF Register
  <2>3. thread' \in [Conns -> ThreadState]
    BY <1>18 DEF Register, Goto
  <2> QED
    BY <1>18, <2>2, <2>3 DEF Register
<1>19. ASSUME NEW c \in Conns, ServeCheck(c) PROVE VarTypes'
  BY <1>19 DEF ServeCheck, Goto
<1>20. ASSUME NEW c \in Conns, ServeEnterRecv(c) PROVE VarTypes'
  BY <1>20 DEF ServeEnterRecv, EnterRecv, Goto
<1>21. ASSUME NEW c \in Conns, ServeRecv(c) PROVE VarTypes'
  <2>1. ref[c] \in Conns
    BY <1>21 DEF ServeRecv, CallsHaveSockets
  <2>2. unread' \in [Conns -> BOOLEAN]
    BY <1>21, <2>1 DEF ServeRecv
  <2>3. thread' \in [Conns -> ThreadState]
    BY <1>21 DEF ServeRecv, Goto
  <2>5. ref' \in [Conns -> Conns \cup {NoObject}]
    BY <1>21 DEF ServeRecv
  <2> QED
    BY <1>21, <2>1, <2>2, <2>3, <2>5 DEF ServeRecv
<1>22. ASSUME NEW c \in Conns, Unregister(c) PROVE VarTypes'
  BY <1>22 DEF Unregister, Goto
<1>23. ASSUME NEW c \in Conns, CloseClient(c) PROVE VarTypes'
  BY <1>23 DEF CloseClient, Goto
<1>24. ASSUME NEW c \in Conns, Connect(c) PROVE VarTypes'
  BY <1>24 DEF Connect
<1>25. ASSUME NEW c \in Conns, GuestSend(c) PROVE VarTypes'
  BY <1>25 DEF GuestSend
<1>26. ASSUME NEW c \in Conns, GuestStallsOrReads(c) PROVE VarTypes'
  BY <1>26 DEF GuestStallsOrReads
<1>27. ASSUME NEW c \in Conns, GuestCloses(c) PROVE VarTypes'
  BY <1>27 DEF GuestCloses
<1> HIDE DEF VarTypes, vars, Listed
<1> QED
  BY <1>1, <1>2, <1>3, <1>4, <1>5, <1>6, <1>7, <1>8, <1>9, <1>10, <1>11, <1>12, <1>13,
     <1>14, <1>15, <1>16, <1>17, <1>18, <1>19, <1>20, <1>21, <1>22, <1>23, <1>24, <1>25, <1>26, <1>27
     DEF Next, StopStep, SendStep, ServerStep, ThreadStep, GuestStep

(* Every call in progress has a socket, every thread at work a descriptor. *)
LEMMA SocketsStep == TypeOK /\ [Next]_vars => CallsHaveSockets'
<1> SUFFICES ASSUME VarTypes, CallsHaveSockets, [Next]_vars PROVE CallsHaveSockets'
  BY DEF TypeOK
<1> USE QemuPipeAssumption
    DEF VarTypes, CallsHaveSockets, Objects, ServerState, ThreadState, MainState,
        vars, registryVars, kernelVars, serverVars, threadVars,
        guestVars, mainVars
<1>1. CASE UNCHANGED vars
  BY <1>1
<1>2. ASSUME NEW s \in Sessions, NEW f \in Fds, Start(s, f) PROVE CallsHaveSockets'
  BY <1>2 DEF Start, Free
<1>3. CASE StopBegin
  BY <1>3 DEF StopBegin
<1>4. CASE StopShutdown
  BY <1>4 DEF StopShutdown, Resolve
<1>5. CASE StopClose
  BY <1>5 DEF StopClose
<1>6. CASE StopJoin
  BY <1>6 DEF StopJoin
<1>7. CASE StopCloseClients
  BY <1>7 DEF StopCloseClients
<1>8. ASSUME NEW list \in Listed, SendBegin(list) PROVE CallsHaveSockets'
  BY <1>8 DEF SendBegin
<1>9. ASSUME NEW e \in toSend, SendOne(e) PROVE CallsHaveSockets'
  BY <1>9 DEF SendOne
<1>10. CASE SendResumes
  BY <1>10 DEF SendResumes
<1>11. CASE SendEnd
  BY <1>11 DEF SendEnd
<1>12. CASE ServerCheck
  BY <1>12 DEF ServerCheck
<1>13. CASE ServerEnterAccept
  BY <1>13 DEF ServerEnterAccept, Resolve
<1>14. ASSUME NEW c \in Conns, NEW f \in Fds, ServerAccept(c, f) PROVE CallsHaveSockets'
  BY <1>14 DEF ServerAccept, Free
<1>15. CASE ServerAcceptError
  BY <1>15 DEF ServerAcceptError
<1>16. ASSUME NEW c \in Conns, HelloEnterRecv(c) PROVE CallsHaveSockets'
  BY <1>16 DEF HelloEnterRecv, EnterRecv, Goto
<1>17. ASSUME NEW c \in Conns, HelloRecv(c) PROVE CallsHaveSockets'
  BY <1>17 DEF HelloRecv, Goto
<1>18. ASSUME NEW c \in Conns, Register(c) PROVE CallsHaveSockets'
  BY <1>18 DEF Register, Goto
<1>19. ASSUME NEW c \in Conns, ServeCheck(c) PROVE CallsHaveSockets'
  BY <1>19 DEF ServeCheck, Goto
<1>20. ASSUME NEW c \in Conns, ServeEnterRecv(c) PROVE CallsHaveSockets'
  BY <1>20 DEF ServeEnterRecv, EnterRecv, Goto
<1>21. ASSUME NEW c \in Conns, ServeRecv(c) PROVE CallsHaveSockets'
  BY <1>21 DEF ServeRecv, Goto
<1>22. ASSUME NEW c \in Conns, Unregister(c) PROVE CallsHaveSockets'
  BY <1>22 DEF Unregister, Goto
<1>23. ASSUME NEW c \in Conns, CloseClient(c) PROVE CallsHaveSockets'
  BY <1>23 DEF CloseClient, Goto
<1>24. ASSUME NEW c \in Conns, Connect(c) PROVE CallsHaveSockets'
  BY <1>24 DEF Connect
<1>25. ASSUME NEW c \in Conns, GuestSend(c) PROVE CallsHaveSockets'
  BY <1>25 DEF GuestSend
<1>26. ASSUME NEW c \in Conns, GuestStallsOrReads(c) PROVE CallsHaveSockets'
  BY <1>26 DEF GuestStallsOrReads
<1>27. ASSUME NEW c \in Conns, GuestCloses(c) PROVE CallsHaveSockets'
  BY <1>27 DEF GuestCloses
<1> HIDE DEF VarTypes, CallsHaveSockets, vars
<1> QED
  BY <1>1, <1>2, <1>3, <1>4, <1>5, <1>6, <1>7, <1>8, <1>9, <1>10, <1>11, <1>12, <1>13,
     <1>14, <1>15, <1>16, <1>17, <1>18, <1>19, <1>20, <1>21, <1>22, <1>23, <1>24, <1>25, <1>26, <1>27
     DEF Next, StopStep, SendStep, ServerStep, ThreadStep, GuestStep

(* Every reachable state is well typed, every call in progress has a       *)
(* socket and every thread at work has a descriptor.                       *)
THEOREM TypeCorrect == Spec => []TypeOK
<1>1. Init => TypeOK
  <2> SUFFICES ASSUME Init PROVE VarTypes /\ CallsHaveSockets
    BY DEF TypeOK
  <2>1. VarTypes
    BY DEF Init, VarTypes, Objects, Services, Listed, ServerState, ThreadState, MainState
  <2>2. CallsHaveSockets
    BY DEF Init, CallsHaveSockets
  <2> QED
    BY <2>1, <2>2
<1>2. TypeOK /\ [Next]_vars => TypeOK'
  BY TypesStep, SocketsStep DEF TypeOK
<1> QED
  BY <1>1, <1>2, PTL DEF Spec

-----------------------------------------------------------------------------

(* A listed descriptor has a thread that will erase it: the thread that    *)
(* pushed it keeps its number until it has erased that number.             *)
THEOREM EntryOwnerCorrect == Spec => []EntryHasOwner
<1>1. Init => EntryHasOwner
  BY DEF Init, EntryHasOwner
<1>2. TypeOK /\ EntryHasOwner /\ [Next]_vars => EntryHasOwner'
  <2> SUFFICES ASSUME TypeOK, EntryHasOwner, [Next]_vars PROVE EntryHasOwner'
    OBVIOUS
  <2> USE DEF TypeOK, VarTypes, EntryHasOwner, vars, registryVars, kernelVars, serverVars, threadVars,
        guestVars, mainVars
  <2>1. CASE UNCHANGED vars
    BY <2>1
  <2>2. ASSUME NEW s \in Sessions, NEW f \in Fds, Start(s, f) PROVE EntryHasOwner'
    BY <2>2 DEF Start, Free
  <2>3. CASE StopBegin
    BY <2>3 DEF StopBegin
  <2>4. CASE StopShutdown
    BY <2>4 DEF StopShutdown, Resolve
  <2>5. CASE StopClose
    BY <2>5 DEF StopClose
  <2>6. CASE StopJoin
    BY <2>6 DEF StopJoin
  <2>7. CASE StopCloseClients
    BY <2>7 DEF StopCloseClients
  <2>8. ASSUME NEW list \in Listed, SendBegin(list) PROVE EntryHasOwner'
    BY <2>8 DEF SendBegin
  <2>9. ASSUME NEW e \in toSend, SendOne(e) PROVE EntryHasOwner'
    BY <2>9 DEF SendOne
  <2>10. CASE SendResumes
    BY <2>10 DEF SendResumes
  <2>11. CASE SendEnd
    BY <2>11 DEF SendEnd
  <2>12. CASE ServerCheck
    BY <2>12 DEF ServerCheck
  <2>13. CASE ServerEnterAccept
    BY <2>13 DEF ServerEnterAccept, Resolve
  <2>14. ASSUME NEW c \in Conns, NEW f \in Fds, ServerAccept(c, f) PROVE EntryHasOwner'
    BY <2>14 DEF ServerAccept, Free
  <2>15. CASE ServerAcceptError
    BY <2>15 DEF ServerAcceptError
  <2>16. ASSUME NEW c \in Conns, HelloEnterRecv(c) PROVE EntryHasOwner'
    BY <2>16 DEF HelloEnterRecv, EnterRecv, Goto
  <2>17. ASSUME NEW c \in Conns, HelloRecv(c) PROVE EntryHasOwner'
    BY <2>17 DEF HelloRecv, Goto
  <2>18. ASSUME NEW c \in Conns, Register(c) PROVE EntryHasOwner'
    BY <2>18 DEF Register, Goto
  <2>19. ASSUME NEW c \in Conns, ServeCheck(c) PROVE EntryHasOwner'
    BY <2>19 DEF ServeCheck, Goto
  <2>20. ASSUME NEW c \in Conns, ServeEnterRecv(c) PROVE EntryHasOwner'
    BY <2>20 DEF ServeEnterRecv, EnterRecv, Goto
  <2>21. ASSUME NEW c \in Conns, ServeRecv(c) PROVE EntryHasOwner'
    BY <2>21 DEF ServeRecv, Goto
  <2>22. ASSUME NEW c \in Conns, Unregister(c) PROVE EntryHasOwner'
    BY <2>22 DEF Unregister, Goto
  <2>23. ASSUME NEW c \in Conns, CloseClient(c) PROVE EntryHasOwner'
    BY <2>23 DEF CloseClient, Goto
  <2>24. ASSUME NEW c \in Conns, Connect(c) PROVE EntryHasOwner'
    BY <2>24 DEF Connect
  <2>25. ASSUME NEW c \in Conns, GuestSend(c) PROVE EntryHasOwner'
    BY <2>25 DEF GuestSend
  <2>26. ASSUME NEW c \in Conns, GuestStallsOrReads(c) PROVE EntryHasOwner'
    BY <2>26 DEF GuestStallsOrReads
  <2>27. ASSUME NEW c \in Conns, GuestCloses(c) PROVE EntryHasOwner'
    BY <2>27 DEF GuestCloses
  <2> HIDE DEF TypeOK, EntryHasOwner, vars
  <2> QED
    BY <2>1, <2>2, <2>3, <2>4, <2>5, <2>6, <2>7, <2>8, <2>9, <2>10, <2>11, <2>12, <2>13,
       <2>14, <2>15, <2>16, <2>17, <2>18, <2>19, <2>20, <2>21, <2>22, <2>23, <2>24, <2>25, <2>26, <2>27
       DEF Next, StopStep, SendStep, ServerStep, ThreadStep, GuestStep
<1> QED
  BY <1>1, <1>2, TypeCorrect, PTL DEF Spec

-----------------------------------------------------------------------------
(* How far stop() has come decides whether there is a server thread, and   *)
(* serverFd_ is the only descriptor that can mean a listening socket.      *)
ServerPhase ==
  /\ isRunning => main \in {"idle", "sending", "blocked"} /\ server # "exited"
  /\ main = "closeClients" => server = "none"
  /\ (~isRunning /\ main \in {"idle", "sending", "blocked"}) => server = "none"
  /\ serverFd = NoFd <=> ~isRunning /\ main \notin {"shutdown", "close"}
  /\ \A f \in Fds : fdTable[f] \in Sessions => f = serverFd

(* Every reachable state is in one of these phases.                        *)
LEMMA PhaseCorrect == Spec => []ServerPhase
<1>1. Init => ServerPhase
  BY QemuPipeAssumption DEF Init, ServerPhase
<1>2. TypeOK /\ ServerPhase /\ [Next]_vars => ServerPhase'
  <2> SUFFICES ASSUME TypeOK, ServerPhase, [Next]_vars PROVE ServerPhase'
    OBVIOUS
  <2> USE QemuPipeAssumption
      DEF TypeOK, VarTypes, Objects, MainState, ServerPhase,
          vars, registryVars, kernelVars, serverVars, threadVars,
          guestVars, mainVars
  <2>1. CASE UNCHANGED vars
    BY <2>1
  <2>2. ASSUME NEW s \in Sessions, NEW f \in Fds, Start(s, f) PROVE ServerPhase'
    BY <2>2 DEF Start, Free
  <2>3. CASE StopBegin
    BY <2>3 DEF StopBegin
  <2>4. CASE StopShutdown
    BY <2>4 DEF StopShutdown, Resolve
  <2>5. CASE StopClose
    BY <2>5 DEF StopClose
  <2>6. CASE StopJoin
    BY <2>6 DEF StopJoin
  <2>7. CASE StopCloseClients
    BY <2>7 DEF StopCloseClients
  <2>8. ASSUME NEW list \in Listed, SendBegin(list) PROVE ServerPhase'
    BY <2>8 DEF SendBegin
  <2>9. ASSUME NEW e \in toSend, SendOne(e) PROVE ServerPhase'
    BY <2>9 DEF SendOne
  <2>10. CASE SendResumes
    BY <2>10 DEF SendResumes
  <2>11. CASE SendEnd
    BY <2>11 DEF SendEnd
  <2>12. CASE ServerCheck
    BY <2>12 DEF ServerCheck
  <2>13. CASE ServerEnterAccept
    BY <2>13 DEF ServerEnterAccept, Resolve
  <2>14. ASSUME NEW c \in Conns, NEW f \in Fds, ServerAccept(c, f) PROVE ServerPhase'
    BY <2>14 DEF ServerAccept, Free
  <2>15. CASE ServerAcceptError
    BY <2>15 DEF ServerAcceptError
  <2>16. ASSUME NEW c \in Conns, HelloEnterRecv(c) PROVE ServerPhase'
    BY <2>16 DEF HelloEnterRecv, EnterRecv, Goto
  <2>17. ASSUME NEW c \in Conns, HelloRecv(c) PROVE ServerPhase'
    BY <2>17 DEF HelloRecv, Goto
  <2>18. ASSUME NEW c \in Conns, Register(c) PROVE ServerPhase'
    BY <2>18 DEF Register, Goto
  <2>19. ASSUME NEW c \in Conns, ServeCheck(c) PROVE ServerPhase'
    BY <2>19 DEF ServeCheck, Goto
  <2>20. ASSUME NEW c \in Conns, ServeEnterRecv(c) PROVE ServerPhase'
    BY <2>20 DEF ServeEnterRecv, EnterRecv, Goto
  <2>21. ASSUME NEW c \in Conns, ServeRecv(c) PROVE ServerPhase'
    BY <2>21 DEF ServeRecv, Goto
  <2>22. ASSUME NEW c \in Conns, Unregister(c) PROVE ServerPhase'
    BY <2>22 DEF Unregister, Goto
  <2>23. ASSUME NEW c \in Conns, CloseClient(c) PROVE ServerPhase'
    BY <2>23 DEF CloseClient, Goto
  <2>24. ASSUME NEW c \in Conns, Connect(c) PROVE ServerPhase'
    BY <2>24 DEF Connect
  <2>25. ASSUME NEW c \in Conns, GuestSend(c) PROVE ServerPhase'
    BY <2>25 DEF GuestSend
  <2>26. ASSUME NEW c \in Conns, GuestStallsOrReads(c) PROVE ServerPhase'
    BY <2>26 DEF GuestStallsOrReads
  <2>27. ASSUME NEW c \in Conns, GuestCloses(c) PROVE ServerPhase'
    BY <2>27 DEF GuestCloses
  <2> HIDE DEF TypeOK, ServerPhase, vars
  <2> QED
    BY <2>1, <2>2, <2>3, <2>4, <2>5, <2>6, <2>7, <2>8, <2>9, <2>10, <2>11, <2>12, <2>13,
       <2>14, <2>15, <2>16, <2>17, <2>18, <2>19, <2>20, <2>21, <2>22, <2>23, <2>24, <2>25, <2>26, <2>27
       DEF Next, StopStep, SendStep, ServerStep, ThreadStep, GuestStep
<1> QED
  BY <1>1, <1>2, TypeCorrect, PTL DEF Spec

(* A stopped server has no thread and no open listening socket: the thread *)
(* was joined before, and the socket can only have been in serverFd_.      *)
THEOREM StoppedServerCorrect == Spec => []StoppedServerIsQuiet
<1>1. TypeOK /\ ServerPhase => StoppedServerIsQuiet
  BY QemuPipeAssumption DEF TypeOK, VarTypes, ServerPhase, StoppedServerIsQuiet
<1> QED
  BY <1>1, TypeCorrect, PhaseCorrect, PTL

-----------------------------------------------------------------------------
(* The first session, whose threads no stop() has left behind.             *)

(* Before the first start() no guest has been there.                       *)
Untouched ==
  used = {} =>
    /\ main = "idle" /\ ~isRunning /\ server = "none" /\ path = NoObject /\ entries = {}
    /\ \A c \in Conns : thread[c] = "none" /\ peer[c] = "none"

(* A thread serves a guest that has connected, so that the service its     *)
(* guest asks for does not change any more.                                *)
ServedHasConnected == \A c \in Conns : thread[c] # "none" => peer[c] # "none"

(* What is left to send is listed: who erases a descriptor waits for the   *)
(* mutex that the send function holds.                                     *)
SendsAreListed ==
  /\ toSend \subseteq entries
  /\ MutexFree => toSend = {}

Identified == {"greeted", "serving", "toRecv", "recv", "leaving"}

(* In the first session a descriptor, a call that waits, a service and an  *)
(* entry of a list all belong to the connection of their thread.           *)
EachHasItsOwn ==
  FirstSession =>
    /\ fdTable[serverFd] \in Sessions
    /\ \A c \in Conns :
         /\ fd[c] \in Fds => fdTable[fd[c]] = c
         /\ ref[c] \in {c, NoObject}
         /\ thread[c] \in Identified => type[c] = service[c]
    /\ \A e \in entries : e.list = service[e.owner]

FirstInv == Untouched /\ ServedHasConnected /\ SendsAreListed /\ EachHasItsOwn

LEMMA UntouchedStep == TypeOK /\ Untouched /\ [Next]_vars => Untouched'
<1> SUFFICES ASSUME TypeOK, Untouched, [Next]_vars, used' = {} PROVE Untouched'
  BY DEF Untouched
<1> USE QemuPipeAssumption
    DEF TypeOK, VarTypes, Untouched, vars, registryVars, kernelVars, serverVars,
        threadVars, guestVars, mainVars
<1>1. CASE UNCHANGED vars
  BY <1>1
<1>2. ASSUME NEW s \in Sessions, NEW f \in Fds, Start(s, f) PROVE Untouched'
  BY <1>2 DEF Start
<1>3. CASE StopBegin \/ StopStep
  BY <1>3 DEF StopBegin, StopStep, StopShutdown, StopClose, StopJoin, StopCloseClients, Resolve
<1>4. CASE (\E list \in Listed : SendBegin(list)) \/ SendStep
  BY <1>4 DEF SendBegin, SendStep, SendOne, SendResumes, SendEnd
<1>5. CASE ServerStep
  BY <1>5 DEF ServerStep, ServerCheck, ServerEnterAccept, ServerAccept, ServerAcceptError
<1>6. ASSUME NEW c \in Conns, ThreadStep(c) PROVE Untouched'
  BY <1>6 DEF ThreadStep, HelloEnterRecv, HelloRecv, Register, ServeCheck, ServeEnterRecv,
              ServeRecv, Unregister, CloseClient, EnterRecv, Goto
<1>7. ASSUME NEW c \in Conns, GuestStep(c) PROVE Untouched'
  BY <1>7 DEF GuestStep, Connect, GuestSend, GuestStallsOrReads, GuestCloses
<1> QED
  BY <1>1, <1>2, <1>3, <1>4, <1>5, <1>6, <1>7 DEF Next

LEMMA ConnectedStep == TypeOK /\ ServedHasConnected /\ [Next]_vars => ServedHasConnected'
<1> SUFFICES ASSUME TypeOK, ServedHasConnected, [Next]_vars PROVE ServedHasConnected'
  OBVIOUS
<1> USE DEF TypeOK, VarTypes, ServedHasConnected, vars, registryVars, kernelVars, serverVars,
            threadVars, guestVars, mainVars
<1>1. CASE UNCHANGED vars
  BY <1>1
<1>2. ASSUME NEW s \in Sessions, NEW f \in Fds, Start(s, f) PROVE ServedHasConnected'
  BY <1>2 DEF Start
<1>3. CASE StopBegin \/ StopStep
  BY <1>3 DEF StopBegin, StopStep, StopShutdown, StopClose, StopJoin, StopCloseClients
<1>4. CASE (\E list \in Listed : SendBegin(list)) \/ SendStep
  BY <1>4 DEF SendBegin, SendStep, SendOne, SendResumes, SendEnd
<1>5. CASE ServerStep
  BY <1>5 DEF ServerStep, ServerCheck, ServerEnterAccept, ServerAccept, ServerAcceptError
<1>6. ASSUME NEW c \in Conns, ThreadStep(c) PROVE ServedHasConnected'
  BY <1>6 DEF ThreadStep, HelloEnterRecv, HelloRecv, Register, ServeCheck, ServeEnterRecv,
              ServeRecv, Unregister, CloseClient, EnterRecv, Goto
<1>7. ASSUME NEW c \in Conns, GuestStep(c) PROVE ServedHasConnected'
  BY <1>7 DEF GuestStep, Connect, GuestSend, GuestStallsOrReads, GuestCloses
<1> QED
  BY <1>1, <1>2, <1>3, <1>4, <1>5, <1>6, <1>7 DEF Next

LEMMA SendsStep == SendsAreListed /\ [Next]_vars => SendsAreListed'
<1> SUFFICES ASSUME SendsAreListed, [Next]_vars PROVE SendsAreListed'
  OBVIOUS
<1> USE DEF SendsAreListed, MutexFree, vars, registryVars, kernelVars, serverVars,
            threadVars, guestVars, mainVars
<1>1. CASE UNCHANGED vars
  BY <1>1
<1>2. ASSUME NEW s \in Sessions, NEW f \in Fds, Start(s, f) PROVE SendsAreListed'
  BY <1>2 DEF Start
<1>3. CASE StopBegin \/ StopStep
  BY <1>3 DEF StopBegin, StopStep, StopShutdown, StopClose, StopJoin, StopCloseClients
<1>4. CASE (\E list \in Listed : SendBegin(list)) \/ SendStep
  BY <1>4 DEF SendBegin, SendStep, SendOne, SendResumes, SendEnd
<1>5. CASE ServerStep
  BY <1>5 DEF ServerStep, ServerCheck, ServerEnterAccept, ServerAccept, ServerAcceptError
<1>6. ASSUME NEW c \in Conns, ThreadStep(c) PROVE SendsAreListed'
  BY <1>6 DEF ThreadStep, HelloEnterRecv, HelloRecv, Register, ServeCheck, ServeEnterRecv,
              ServeRecv, Unregister, CloseClient, EnterRecv
<1>7. ASSUME NEW c \in Conns, GuestStep(c) PROVE SendsAreListed'
  BY <1>7 DEF GuestStep, Connect, GuestSend, GuestStallsOrReads, GuestCloses
<1> QED
  BY <1>1, <1>2, <1>3, <1>4, <1>5, <1>6, <1>7 DEF Next

(* The first session begins once, with a first start(), and stop() ends it. *)
LEMMA FirstSessionBegins ==
  ASSUME VarTypes, Untouched, [Next]_vars, FirstSession'
  PROVE  \/ FirstSession
         \/ used = {} /\ \E s \in Sessions, f \in Fds : Start(s, f)
<1> USE DEF VarTypes, FirstSession, vars, registryVars, kernelVars
<1>1. ASSUME NEW s \in Sessions, NEW f \in Fds, Start(s, f) PROVE used = {}
  <2>1. s \notin used /\ used' = used \cup {s}
    BY <1>1 DEF Start
  <2>2. PICK t \in Sessions : used' = {t}
    OBVIOUS
  <2> QED BY <2>1, <2>2
<1>2. CASE UNCHANGED <<isRunning, used>>
  BY <1>2
<1>3. CASE isRunning' = FALSE
  BY <1>3
<1>4. CASE StopBegin \/ StopStep
  BY <1>2, <1>3, <1>4 DEF StopBegin, StopStep, StopShutdown, StopClose, StopJoin, StopCloseClients
<1>5. CASE (\E list \in Listed : SendBegin(list)) \/ SendStep
  BY <1>2, <1>5 DEF SendBegin, SendStep, SendOne, SendResumes, SendEnd
<1>6. CASE ServerStep
  BY <1>2, <1>6 DEF ServerStep, ServerCheck, ServerEnterAccept, ServerAccept, ServerAcceptError
<1>7. ASSUME NEW c \in Conns, ThreadStep(c) PROVE FirstSession
  BY <1>2, <1>7 DEF ThreadStep, HelloEnterRecv, HelloRecv, Register, ServeCheck, ServeEnterRecv,
              ServeRecv, Unregister, CloseClient, EnterRecv
<1>8. ASSUME NEW c \in Conns, GuestStep(c) PROVE FirstSession
  BY <1>2, <1>8 DEF GuestStep, Connect, GuestSend, GuestStallsOrReads, GuestCloses
<1> QED
  BY <1>1, <1>2, <1>4, <1>5, <1>6, <1>7, <1>8 DEF Next

LEMMA OwnStep ==
  TypeOK /\ ServerPhase /\ EntryHasOwner /\ FirstInv /\ [Next]_vars => EachHasItsOwn'
<1> SUFFICES ASSUME TypeOK, ServerPhase, EntryHasOwner, FirstInv, [Next]_vars, FirstSession'
             PROVE  EachHasItsOwn'
  BY DEF EachHasItsOwn
<1> USE QemuPipeAssumption DEF TypeOK, VarTypes, Objects
<1>1. ASSUME NEW s \in Sessions, NEW f \in Fds, Start(s, f), used = {} PROVE EachHasItsOwn'
  <2>1. \A c \in Conns : thread[c] = "none" /\ fd[c] = NoFd /\ ref[c] = NoObject
    BY <1>1 DEF FirstInv, Untouched, CallsHaveSockets
  <2>2. entries = {}
    BY <1>1 DEF FirstInv, Untouched
  <2>3. /\ serverFd' = f /\ fdTable'[f] = s
        /\ UNCHANGED <<entries, thread, fd, ref, type, service>>
    BY <1>1 DEF Start, threadVars, guestVars
  <2> QED
    BY <2>1, <2>2, <2>3 DEF EachHasItsOwn, Identified
<1>2. CASE FirstSession
  <2>1. /\ isRunning /\ serverFd \in Fds /\ fdTable[serverFd] \in Sessions
        /\ main \in {"idle", "sending", "blocked"}
    BY <1>2 DEF FirstInv, EachHasItsOwn, FirstSession, ServerPhase
  <2>2. \A c \in Conns : /\ fd[c] \in Fds => fdTable[fd[c]] = c
                         /\ ref[c] \in {c, NoObject}
                         /\ thread[c] \in Identified => type[c] = service[c]
    BY <1>2 DEF FirstInv, EachHasItsOwn
  <2>3. \A e \in entries : e.owner \in Conns /\ e.list = service[e.owner]
    BY <1>2 DEF FirstInv, EachHasItsOwn
  <2>4. isRunning'
    BY DEF FirstSession
  <2> USE DEF EachHasItsOwn
  <2>5. CASE UNCHANGED vars
    BY <2>1, <2>2, <2>3, <2>5 DEF vars, registryVars, kernelVars, threadVars, guestVars
  <2>6. ASSUME NEW s \in Sessions, NEW f \in Fds, Start(s, f) PROVE FALSE
    BY <2>1, <2>6 DEF Start
  <2>7. CASE StopBegin \/ StopStep
    BY <2>1, <2>4, <2>7 DEF StopBegin, StopStep, StopShutdown, StopClose, StopJoin, StopCloseClients
  <2>8. CASE (\E list \in Listed : SendBegin(list)) \/ SendStep
    BY <2>1, <2>2, <2>3, <2>8 DEF SendBegin, SendStep, SendOne, SendResumes, SendEnd,
                               registryVars, kernelVars, threadVars, guestVars
  <2>9. CASE ServerCheck \/ ServerEnterAccept \/ ServerAcceptError
    BY <2>1, <2>2, <2>3, <2>9 DEF ServerCheck, ServerEnterAccept, ServerAcceptError,
                               registryVars, kernelVars, threadVars, guestVars
  <2>10. ASSUME NEW c \in Conns, NEW f \in Fds, ServerAccept(c, f) PROVE EachHasItsOwn'
    <3>1. /\ Free(f) /\ thread[c] = "none"
          /\ fdTable' = [fdTable EXCEPT ![f] = c] /\ fd' = [fd EXCEPT ![c] = f]
          /\ thread' = [thread EXCEPT ![c] = "hello"]
          /\ UNCHANGED <<registryVars, ref, type, service>>
      BY <2>10 DEF ServerAccept
    <3>2. f # serverFd /\ \A d \in Conns : fd[d] \in Fds => f # fd[d]
      BY <2>1, <2>2, <3>1 DEF Free
    <3> QED
      BY <2>1, <2>2, <2>3, <3>1, <3>2 DEF registryVars, Identified
  <2>11. ASSUME NEW c \in Conns, HelloEnterRecv(c) \/ ServeEnterRecv(c) PROVE EachHasItsOwn'
    <3>1. fdTable[fd[c]] = c
      BY <2>2, <2>11 DEF HelloEnterRecv, ServeEnterRecv, EnterRecv, CallsHaveSockets
    <3>2. /\ ref' = [ref EXCEPT ![c] = c]
          /\ UNCHANGED <<registryVars, kernelVars, fd, type, guestVars>>
      BY <2>11, <3>1 DEF HelloEnterRecv, ServeEnterRecv, EnterRecv
    <3>3. \A d \in Conns : thread'[d] \in Identified => thread[d] \in Identified
      BY <2>11, <3>1 DEF HelloEnterRecv, ServeEnterRecv, EnterRecv, Goto, Identified
    <3> QED
      BY <2>1, <2>2, <2>3, <3>2, <3>3 DEF registryVars, kernelVars, guestVars
  <2>12. ASSUME NEW c \in Conns, HelloRecv(c) PROVE EachHasItsOwn'
    <3>1. ref[c] = c
      BY <2>2, <2>12 DEF HelloRecv, CallsHaveSockets
    <3> QED
      BY <2>1, <2>2, <2>3, <2>12, <3>1 DEF HelloRecv, Goto, Identified, registryVars, kernelVars
  <2>13. ASSUME NEW c \in Conns, Register(c) PROVE EachHasItsOwn'
    BY <2>1, <2>2, <2>3, <2>13 DEF Register, Goto, Identified, kernelVars, guestVars
  <2>14. ASSUME NEW c \in Conns, ServeCheck(c) \/ ServeRecv(c) PROVE EachHasItsOwn'
    <3>1. \A d \in Conns : thread'[d] \in Identified => thread[d] \in Identified
      BY <2>14 DEF ServeCheck, ServeRecv, Goto, Identified
    <3>2. /\ \A d \in Conns : ref'[d] \in {ref[d], NoObject}
          /\ UNCHANGED <<registryVars, kernelVars, fd, type, service>>
      BY <2>14 DEF ServeCheck, ServeRecv, guestVars
    <3> QED
      BY <2>1, <2>2, <2>3, <3>1, <3>2 DEF registryVars, kernelVars
  <2>15. ASSUME NEW c \in Conns, Unregister(c) PROVE EachHasItsOwn'
    BY <2>1, <2>2, <2>3, <2>15 DEF Unregister, Goto, Identified, kernelVars, guestVars
  <2>16. ASSUME NEW c \in Conns, CloseClient(c) PROVE EachHasItsOwn'
    <3>1. fd[c] \in Fds
      BY <2>16 DEF CloseClient, CallsHaveSockets
    <3>2. fd[c] # serverFd /\ \A d \in Conns : d # c /\ fd[d] \in Fds => fd[d] # fd[c]
      BY <2>1, <2>2, <3>1
    <3> QED
      BY <2>1, <2>2, <2>3, <2>16, <3>1, <3>2 DEF CloseClient, Goto, Identified, registryVars, guestVars
  <2>17. ASSUME NEW c \in Conns, Connect(c) PROVE EachHasItsOwn'
    <3>1. thread[c] = "none" /\ \A e \in entries : e.owner # c
      BY <2>17 DEF Connect, FirstInv, ServedHasConnected, EntryHasOwner
    <3> QED
      BY <2>1, <2>2, <2>3, <2>17, <3>1 DEF Connect, Identified, registryVars, kernelVars, threadVars
  <2>18. ASSUME NEW c \in Conns, GuestSend(c) \/ GuestStallsOrReads(c) \/ GuestCloses(c)
         PROVE  EachHasItsOwn'
    BY <2>1, <2>2, <2>3, <2>18 DEF GuestSend, GuestStallsOrReads, GuestCloses,
                               registryVars, kernelVars, threadVars
  <2> HIDE DEF EachHasItsOwn
  <2> QED
    BY <2>5, <2>6, <2>7, <2>8, <2>9, <2>10, <2>11, <2>12, <2>13, <2>14, <2>15, <2>16, <2>17, <2>18
       DEF Next, ServerStep, ThreadStep, GuestStep
<1> QED
  BY <1>1, <1>2, FirstSessionBegins DEF FirstInv

(* These facts hold in every reachable state.                              *)
LEMMA FirstInvCorrect == Spec => []FirstInv
<1>1. Init => FirstInv
  <2> SUFFICES ASSUME Init PROVE FirstInv
    OBVIOUS
  <2>1. Untouched /\ ServedHasConnected
    BY DEF Init, Untouched, ServedHasConnected
  <2>2. SendsAreListed
    BY DEF Init, SendsAreListed
  <2>3. EachHasItsOwn
    BY DEF Init, EachHasItsOwn, FirstSession
  <2> QED BY <2>1, <2>2, <2>3 DEF FirstInv
<1>2. TypeOK /\ ServerPhase /\ EntryHasOwner /\ FirstInv /\ [Next]_vars => FirstInv'
  BY UntouchedStep, ConnectedStep, SendsStep, OwnStep DEF FirstInv
<1> QED
  BY <1>1, <1>2, TypeCorrect, PhaseCorrect, EntryOwnerCorrect, PTL DEF Spec

(* In the first session no descriptor is closed under its user, neither    *)
(* the server's nor a connection's, however guests come and go.            *)
THEOREM OwnDescriptorsCorrect == Spec => []OwnDescriptors
<1>1. FirstInv => OwnDescriptors
  BY DEF FirstInv, EachHasItsOwn, OwnDescriptors
<1> QED
  BY <1>1, FirstInvCorrect, PTL

(* An update goes to connections that asked for it: what is left to send   *)
(* is listed, a listed descriptor is that of its thread, and that one      *)
(* means the thread's connection.                                          *)
THEOREM UpdatesCorrect == Spec => []UpdatesReachSubscribers
<1>1. TypeOK /\ EntryHasOwner /\ FirstInv => UpdatesReachSubscribers
  BY DEF TypeOK, VarTypes, EntryHasOwner, FirstInv, SendsAreListed, EachHasItsOwn, UpdatesReachSubscribers
<1> QED
  BY <1>1, TypeCorrect, EntryOwnerCorrect, FirstInvCorrect, PTL
=============================================================================
