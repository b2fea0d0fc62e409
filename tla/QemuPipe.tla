------------------------------ MODULE QemuPipe ------------------------------
(***************************************************************************)
(* QemuPipeServer (hal/qemu_pipe_server.cpp): the UNIX socket server that  *)
(* feeds sensor and GPS data to the guest.                                 *)
(*                                                                         *)
(* Three kinds of threads share it: the main thread runs start(), stop()   *)
(* and the send functions, one server thread per start() accepts, and one  *)
(* detached thread per connection runs handleClientConnection.  They name  *)
(* sockets by file descriptors, which the kernel hands out again as soon   *)
(* as they are closed: fdTable says which socket a descriptor means now, a *)
(* system call in progress keeps the socket it started on.                 *)
(*                                                                         *)
(* The critical sections of clientsMutex_ that cannot block are one step;  *)
(* the one that can is a send on a full socket.  Descriptors opened by the *)
(* rest of the app are left out, and so are the copies of the sockets a    *)
(* forked guest inherits.                                                  *)
(***************************************************************************)
EXTENDS FiniteSets

CONSTANTS Conns,     (* the connections guests open, and their sockets              *)
          Sessions,  (* the successful start() calls, and their listening sockets   *)
          Fds,       (* the file descriptors                                        *)
          Asked,     (* the services guests ask for                                 *)
          NoObject,  (* no socket                                                   *)
          NoFd       (* the value -1 of serverFd_                                   *)

(* The services with a client list, and all the others of HalChannelType.  *)
Listed   == {"sensors", "gps", "hw-control"}
Services == Listed \cup {"other"}

ASSUME QemuPipeAssumption ==
  /\ Asked \subseteq Services
  /\ Conns \cap Sessions = {}
  /\ NoObject \notin Conns \cup Sessions
  /\ NoFd \notin Fds

VARIABLES
  isRunning,  (* QemuPipeServer::isRunning_                                         *)
  serverFd,   (* QemuPipeServer::serverFd_                                          *)
  entries,    (* sensorClients_, gpsClients_ and hwControlClients_, with the thread *)
              (* that pushed each descriptor                                        *)
  fdTable,    (* the socket each descriptor of the app refers to                    *)
  used,       (* the sessions there have been                                       *)
  shut,       (* the listening sockets that were shut down                          *)
  path,       (* the listening socket bound to socketPath_                          *)
  server,     (* where the server thread stands                                     *)
  acceptOn,   (* the socket its accept() in progress waits on                       *)
  thread,     (* where the thread of each connection stands                         *)
  fd,         (* its clientFd                                                       *)
  ref,        (* the socket its recv() in progress reads                            *)
  type,       (* the service it identified                                          *)
  peer,       (* the guest's end of each connection                                 *)
  queuedOn,   (* the listening socket the connection was queued on                  *)
  service,    (* the service the guest asks for                                     *)
  unread,     (* the host has not yet read something the guest sent                 *)
  full,       (* the guest does not read and the socket buffer is full              *)
  main,       (* where the main thread stands                                       *)
  toSend,     (* the entries its send function has still to write to                *)
  blockedOn   (* the full socket its send() in progress waits for                   *)

registryVars == <<isRunning, serverFd, entries>>
kernelVars   == <<fdTable, used, shut, path>>
serverVars   == <<server, acceptOn>>
threadVars   == <<thread, fd, ref, type>>
guestVars    == <<peer, queuedOn, service, unread, full>>
mainVars     == <<main, toSend, blockedOn>>
vars == <<registryVars, kernelVars, serverVars, threadVars, guestVars, mainVars>>

-----------------------------------------------------------------------------

Objects == Conns \cup Sessions \cup {NoObject}

ServerState == {"none", "check", "accept", "blocked", "exited"}
ThreadState == {"none", "hello", "helloRecv", "greeted", "serving", "toRecv",
                "recv", "leaving", "closing", "done"}
MainState   == {"idle", "shutdown", "close", "join", "closeClients", "sending",
                "blocked"}

Free(f) == fdTable[f] = NoObject
(* What a descriptor means to a system call that starts now.               *)
Resolve(f) == IF f \in Fds THEN fdTable[f] ELSE NoObject

Init ==
  /\ isRunning = FALSE
  /\ serverFd = NoFd
  /\ entries = {}
  /\ fdTable = [f \in Fds |-> NoObject]
  /\ used = {} /\ shut = {} /\ path = NoObject
  /\ server = "none" /\ acceptOn = NoObject
  /\ thread = [c \in Conns |-> "none"]
  /\ fd = [c \in Conns |-> NoFd]
  /\ ref = [c \in Conns |-> NoObject]
  /\ type = [c \in Conns |-> "other"]
  /\ peer = [c \in Conns |-> "none"]
  /\ queuedOn = [c \in Conns |-> NoObject]
  /\ service = [c \in Conns |-> "other"]
  /\ unread = [c \in Conns |-> FALSE]
  /\ full = [c \in Conns |-> FALSE]
  /\ main = "idle" /\ toSend = {} /\ blockedOn = NoObject

-----------------------------------------------------------------------------
(* The main thread.                                                        *)

(* start() while the server is down: socket, bind and listen succeed and   *)
(* the server thread exists.  When one of them fails the descriptor is     *)
(* closed again and nothing has changed, nor has it when the server runs.  *)
Start(s, f) ==
  /\ main = "idle" /\ ~isRunning
  /\ s \notin used /\ Free(f)
  /\ used' = used \cup {s}
  /\ fdTable' = [fdTable EXCEPT ![f] = s]
  /\ serverFd' = f
  /\ path' = s
  /\ isRunning' = TRUE
  /\ server' = "check"
  /\ UNCHANGED <<entries, shut, acceptOn, threadVars, guestVars, mainVars>>

(* stop(): isRunning_ = false.                                             *)
StopBegin ==
  /\ main = "idle" /\ isRunning
  /\ isRunning' = FALSE
  /\ main' = "shutdown"
  /\ UNCHANGED <<serverFd, entries, kernelVars, serverVars, threadVars, guestVars, toSend, blockedOn>>

(* Mutation: the socket is closed without shutdown().                      *)
StopNoShutdown ==
  /\ main = "shutdown"
  /\ main' = "close"
  /\ UNCHANGED <<registryVars, kernelVars, serverVars, threadVars, guestVars, toSend, blockedOn>>

(* shutdown(serverFd_, SHUT_RDWR) wakes the accept() on that socket; it    *)
(* ends a client's connection when the descriptor means one by now.        *)
StopShutdown ==
  /\ main = "shutdown"
  /\ main' = "close"
  /\ shut' = shut \cup ({Resolve(serverFd)} \cap Sessions)
  /\ peer' = [c \in Conns |-> IF Resolve(serverFd) = c THEN "closed" ELSE peer[c]]
  /\ UNCHANGED <<registryVars, fdTable, used, path, serverVars, threadVars,
                 queuedOn, service, unread, full, toSend, blockedOn>>

(* close(serverFd_); serverFd_ = -1.                                       *)
StopClose ==
  /\ main = "close"
  /\ main' = "join"
  /\ fdTable' = [fdTable EXCEPT ![serverFd] = NoObject]
  /\ serverFd' = NoFd
  /\ UNCHANGED <<isRunning, entries, used, shut, path, serverVars, threadVars,
                 guestVars, toSend, blockedOn>>

(* Mutation: the server thread is detached instead of joined.              *)
StopDetach ==
  /\ main = "join"
  /\ main' = "closeClients"
  /\ UNCHANGED <<registryVars, kernelVars, serverVars, threadVars, guestVars, toSend, blockedOn>>

(* serverThread_->join().                                                  *)
StopJoin ==
  /\ main = "join"
  /\ server = "exited"
  /\ main' = "closeClients"
  /\ server' = "none"
  /\ UNCHANGED <<registryVars, kernelVars, acceptOn, threadVars, guestVars, toSend, blockedOn>>

(* Every listed descriptor is closed and the lists are cleared, under the  *)
(* mutex; the socket file is removed.                                      *)
StopCloseClients ==
  /\ main = "closeClients"
  /\ main' = "idle"
  /\ fdTable' = [f \in Fds |-> IF \E e \in entries : e.fd = f THEN NoObject ELSE fdTable[f]]
  /\ entries' = {}
  /\ path' = NoObject
  /\ UNCHANGED <<isRunning, serverFd, used, shut, serverVars, threadVars,
                 guestVars, toSend, blockedOn>>

(* sendSensorUpdate and sendGpsLocation: take the mutex, then write to     *)
(* every descriptor of the list.                                           *)
SendBegin(list) ==
  /\ main = "idle"
  /\ list \in {"sensors", "gps"}
  /\ \E e \in entries : e.list = list
  /\ main' = "sending"
  /\ toSend' = {e \in entries : e.list = list}
  /\ UNCHANGED <<registryVars, kernelVars, serverVars, threadVars, guestVars, blockedOn>>

(* The main thread holds clientsMutex_ until it has written to all.        *)
MutexFree == main \notin {"sending", "blocked"}

(* send() on a connection whose buffer is full and whose guest is there.   *)
WouldBlock(c) == full[c] /\ peer[c] = "connected"

(* send() to one descriptor: it is done, or has failed, which is ignored;  *)
(* or it blocks until the guest reads or is gone.                          *)
SendOne(e) ==
  /\ main = "sending"
  /\ e \in toSend
  /\ toSend' = toSend \ {e}
  /\ IF fdTable[e.fd] \in Conns /\ WouldBlock(fdTable[e.fd])
     THEN main' = "blocked" /\ blockedOn' = fdTable[e.fd]
     ELSE main' = "sending" /\ UNCHANGED blockedOn
  /\ UNCHANGED <<registryVars, kernelVars, serverVars, threadVars, guestVars>>

SendResumes ==
  /\ main = "blocked"
  /\ ~WouldBlock(blockedOn)
  /\ main' = "sending"
  /\ blockedOn' = NoObject
  /\ UNCHANGED <<registryVars, kernelVars, serverVars, threadVars, guestVars, toSend>>

SendEnd ==
  /\ main = "sending"
  /\ toSend = {}
  /\ main' = "idle"
  /\ UNCHANGED <<registryVars, kernelVars, serverVars, threadVars, guestVars, toSend, blockedOn>>

-----------------------------------------------------------------------------
(* The server thread.                                                      *)

(* while (isRunning_).                                                     *)
ServerCheck ==
  /\ server = "check"
  /\ server' = IF isRunning THEN "accept" ELSE "exited"
  /\ UNCHANGED <<registryVars, kernelVars, acceptOn, threadVars, guestVars, mainVars>>

(* accept(serverFd_) starts; an error leads back to the loop's test.       *)
ServerEnterAccept ==
  /\ server = "accept"
  /\ IF Resolve(serverFd) \in Sessions
     THEN server' = "blocked" /\ acceptOn' = Resolve(serverFd)
     ELSE server' = "check" /\ UNCHANGED acceptOn
  /\ UNCHANGED <<registryVars, kernelVars, threadVars, guestVars, mainVars>>

(* accept() returns a connection, and its thread is detached.              *)
ServerAccept(c, f) ==
  /\ server = "blocked"
  /\ peer[c] # "none" /\ queuedOn[c] = acceptOn
  /\ thread[c] = "none"
  /\ Free(f)
  /\ fdTable' = [fdTable EXCEPT ![f] = c]
  /\ fd' = [fd EXCEPT ![c] = f]
  /\ thread' = [thread EXCEPT ![c] = "hello"]
  /\ server' = "check" /\ acceptOn' = NoObject
  /\ queuedOn' = [queuedOn EXCEPT ![c] = NoObject]
  /\ UNCHANGED <<registryVars, used, shut, path, ref, type, peer, service, unread, full, mainVars>>

(* accept() fails: the socket was shut down, or no descriptor is free.     *)
ServerAcceptError ==
  /\ server = "blocked"
  /\ acceptOn \in shut \/ \A f \in Fds : ~Free(f)
  /\ server' = "check" /\ acceptOn' = NoObject
  /\ UNCHANGED <<registryVars, kernelVars, threadVars, guestVars, mainVars>>

-----------------------------------------------------------------------------
(* handleClientConnection, in the thread of connection c.                  *)

Goto(c, place) == thread' = [thread EXCEPT ![c] = place]

(* recv(clientFd) starts, on whatever the descriptor means now: it waits   *)
(* on a connection and fails on anything else.                             *)
EnterRecv(c, from, waiting, failed) ==
  /\ thread[c] = from
  /\ IF fdTable[fd[c]] \in Conns
     THEN Goto(c, waiting) /\ ref' = [ref EXCEPT ![c] = fdTable[fd[c]]]
     ELSE Goto(c, failed) /\ UNCHANGED ref
  /\ UNCHANGED <<registryVars, kernelVars, serverVars, fd, type, guestVars, mainVars>>

HelloEnterRecv(c) == EnterRecv(c, "hello", "helloRecv", "closing")

(* The service name arrives and is identified; or the guest is gone.       *)
HelloRecv(c) ==
  /\ thread[c] = "helloRecv"
  /\ \/ /\ unread[ref[c]]
        /\ unread' = [unread EXCEPT ![ref[c]] = FALSE]
        /\ type' = [type EXCEPT ![c] = service[ref[c]]]
        /\ Goto(c, "greeted")
     \/ /\ ~unread[ref[c]] /\ peer[ref[c]] = "closed"
        /\ Goto(c, "closing")
        /\ UNCHANGED <<unread, type>>
  /\ ref' = [ref EXCEPT ![c] = NoObject]
  /\ UNCHANGED <<registryVars, kernelVars, serverVars, fd, peer, queuedOn, service,
                 full, mainVars>>

(* "ok" is sent, and the descriptor is pushed on the list of its service,  *)
(* if the service has one, under the mutex.                                *)
Register(c) ==
  /\ thread[c] = "greeted"
  /\ MutexFree
  /\ entries' = IF type[c] \in Listed
                THEN entries \cup {[owner |-> c, fd |-> fd[c], list |-> type[c]]}
                ELSE entries
  /\ Goto(c, "serving")
  /\ UNCHANGED <<isRunning, serverFd, kernelVars, serverVars, fd, ref, type, guestVars, mainVars>>

(* while (isRunning_).                                                     *)
ServeCheck(c) ==
  /\ thread[c] = "serving"
  /\ Goto(c, IF isRunning THEN "toRecv" ELSE "leaving")
  /\ UNCHANGED <<registryVars, kernelVars, serverVars, fd, ref, type, guestVars, mainVars>>

ServeEnterRecv(c) == EnterRecv(c, "toRecv", "recv", "leaving")

(* Mutation: `bytes < 0` instead of `bytes <= 0` ends the loop.            *)
ServeRecvIgnoresEof(c) ==
  /\ thread[c] = "recv"
  /\ unread[ref[c]] \/ peer[ref[c]] = "closed"
  /\ unread' = [unread EXCEPT ![ref[c]] = FALSE]
  /\ Goto(c, "serving")
  /\ ref' = [ref EXCEPT ![c] = NoObject]
  /\ UNCHANGED <<registryVars, kernelVars, serverVars, fd, type, peer, queuedOn,
                 service, full, mainVars>>

(* Guest data is read and dropped (no audio callback is ever set); or the  *)
(* guest is gone.                                                          *)
ServeRecv(c) ==
  /\ thread[c] = "recv"
  /\ \/ /\ unread[ref[c]]
        /\ unread' = [unread EXCEPT ![ref[c]] = FALSE]
        /\ Goto(c, "serving")
     \/ /\ ~unread[ref[c]] /\ peer[ref[c]] = "closed"
        /\ Goto(c, "leaving")
        /\ UNCHANGED unread
  /\ ref' = [ref EXCEPT ![c] = NoObject]
  /\ UNCHANGED <<registryVars, kernelVars, serverVars, fd, type, peer, queuedOn,
                 service, full, mainVars>>

(* Mutation: the sensor list is forgotten.                                 *)
UnregisterKeepsSensors(c) ==
  /\ thread[c] = "leaving"
  /\ MutexFree
  /\ entries' = {e \in entries : e.fd # fd[c] \/ e.list = "sensors"}
  /\ Goto(c, "closing")
  /\ UNCHANGED <<isRunning, serverFd, kernelVars, serverVars, fd, ref, type, guestVars, mainVars>>

(* Mutation: the descriptor is closed here already.                        *)
UnregisterCloses(c) ==
  /\ thread[c] = "leaving"
  /\ MutexFree
  /\ entries' = {e \in entries : e.fd # fd[c]}
  /\ fdTable' = [fdTable EXCEPT ![fd[c]] = NoObject]
  /\ Goto(c, "closing")
  /\ UNCHANGED <<isRunning, serverFd, used, shut, path, serverVars, fd, ref, type,
                 guestVars, mainVars>>

(* Mutation: the lists are changed without the mutex.                      *)
UnregisterUnlocked(c) ==
  /\ thread[c] = "leaving"
  /\ entries' = {e \in entries : e.fd # fd[c]}
  /\ Goto(c, "closing")
  /\ UNCHANGED <<isRunning, serverFd, kernelVars, serverVars, fd, ref, type, guestVars, mainVars>>

(* The descriptor is erased from the three lists, by its number.           *)
Unregister(c) ==
  /\ thread[c] = "leaving"
  /\ MutexFree
  /\ entries' = {e \in entries : e.fd # fd[c]}
  /\ Goto(c, "closing")
  /\ UNCHANGED <<isRunning, serverFd, kernelVars, serverVars, fd, ref, type, guestVars, mainVars>>

(* close(clientFd), whatever the descriptor means now.                     *)
CloseClient(c) ==
  /\ thread[c] = "closing"
  /\ fdTable' = [fdTable EXCEPT ![fd[c]] = NoObject]
  /\ fd' = [fd EXCEPT ![c] = NoFd]
  /\ Goto(c, "done")
  /\ UNCHANGED <<registryVars, used, shut, path, serverVars, ref, type, guestVars, mainVars>>

-----------------------------------------------------------------------------
(* The guest's end.                                                        *)

(* The listening socket exists while a descriptor or an accept() holds it. *)
Listening(s) == s \notin shut /\ (acceptOn = s \/ \E f \in Fds : fdTable[f] = s)

Connect(c) ==
  /\ peer[c] = "none"
  /\ path \in Sessions /\ Listening(path)
  /\ peer' = [peer EXCEPT ![c] = "connected"]
  /\ queuedOn' = [queuedOn EXCEPT ![c] = path]
  /\ \E s \in Asked : service' = [service EXCEPT ![c] = s]
  /\ UNCHANGED <<registryVars, kernelVars, serverVars, threadVars, unread, full, mainVars>>

GuestSend(c) ==
  /\ peer[c] = "connected" /\ ~unread[c]
  /\ unread' = [unread EXCEPT ![c] = TRUE]
  /\ UNCHANGED <<registryVars, kernelVars, serverVars, threadVars, peer, queuedOn,
                 service, full, mainVars>>

(* The guest stops reading until the socket is full, or reads again.       *)
GuestStallsOrReads(c) ==
  /\ peer[c] = "connected"
  /\ full' = [full EXCEPT ![c] = ~@]
  /\ UNCHANGED <<registryVars, kernelVars, serverVars, threadVars, peer, queuedOn,
                 service, unread, mainVars>>

GuestCloses(c) ==
  /\ peer[c] = "connected"
  /\ peer' = [peer EXCEPT ![c] = "closed"]
  /\ UNCHANGED <<registryVars, kernelVars, serverVars, threadVars, queuedOn,
                 service, unread, full, mainVars>>

-----------------------------------------------------------------------------

StopStep == StopShutdown \/ StopClose \/ StopJoin \/ StopCloseClients

SendStep == (\E e \in toSend : SendOne(e)) \/ SendResumes \/ SendEnd

ServerStep ==
  \/ ServerCheck \/ ServerEnterAccept \/ ServerAcceptError
  \/ \E c \in Conns, f \in Fds : ServerAccept(c, f)

ThreadStep(c) ==
  \/ HelloEnterRecv(c) \/ HelloRecv(c) \/ Register(c)
  \/ ServeCheck(c) \/ ServeEnterRecv(c) \/ ServeRecv(c)
  \/ Unregister(c) \/ CloseClient(c)

GuestStep(c) == Connect(c) \/ GuestSend(c) \/ GuestStallsOrReads(c) \/ GuestCloses(c)

Next ==
  \/ \E s \in Sessions, f \in Fds : Start(s, f)
  \/ StopBegin \/ StopStep
  \/ \E list \in Listed : SendBegin(list)
  \/ SendStep
  \/ ServerStep
  \/ \E c \in Conns : ThreadStep(c) \/ GuestStep(c)

Spec == Init /\ [][Next]_vars

(* Threads that are not blocked keep running, and a thread that waits for  *)
(* clientsMutex_ gets it if it is free again and again: the main thread    *)
(* takes it in callbacks of its looper, many milliseconds apart.  The      *)
(* guest promises nothing.                                                 *)
Fairness ==
  /\ WF_vars(StopStep)
  /\ WF_vars(SendStep)
  /\ WF_vars(ServerStep)
  /\ \A c \in Conns : /\ WF_vars(ThreadStep(c))
                      /\ SF_vars(Register(c))
                      /\ SF_vars(Unregister(c))

FairSpec == Spec /\ Fairness
-----------------------------------------------------------------------------
(* Properties.                                                             *)

VarTypes ==
  /\ isRunning \in BOOLEAN
  /\ serverFd \in Fds \cup {NoFd}
  /\ entries \subseteq [owner : Conns, fd : Fds, list : Listed]
  /\ fdTable \in [Fds -> Objects]
  /\ used \subseteq Sessions /\ shut \subseteq Sessions
  /\ path \in Sessions \cup {NoObject}
  /\ server \in ServerState
  /\ acceptOn \in Sessions \cup {NoObject}
  /\ thread \in [Conns -> ThreadState]
  /\ fd \in [Conns -> Fds \cup {NoFd}]
  /\ ref \in [Conns -> Conns \cup {NoObject}]
  /\ type \in [Conns -> Services]
  /\ peer \in [Conns -> {"none", "connected", "closed"}]
  /\ queuedOn \in [Conns -> Sessions \cup {NoObject}]
  /\ service \in [Conns -> Services]
  /\ unread \in [Conns -> BOOLEAN] /\ full \in [Conns -> BOOLEAN]
  /\ main \in MainState
  /\ toSend \subseteq [owner : Conns, fd : Fds, list : Listed]
  /\ blockedOn \in Conns \cup {NoObject}

CallsHaveSockets ==
  /\ server = "blocked" => acceptOn # NoObject
  /\ main = "blocked" <=> blockedOn # NoObject
  /\ \A c \in Conns : thread[c] \in {"helloRecv", "recv"} <=> ref[c] # NoObject
  /\ \A c \in Conns : thread[c] \in {"none", "done"} <=> fd[c] = NoFd

(* Every variable has its type, every call in progress has a socket, and a *)
(* thread has a descriptor from accept() to close().                       *)
TypeOK == VarTypes /\ CallsHaveSockets

(* A listed descriptor never outlives the thread that listed it: that      *)
(* thread is still in its loop, or about to erase the descriptor, also     *)
(* when stop() has cleared the lists or another session has begun.         *)
EntryHasOwner ==
  \A e \in entries :
    /\ fd[e.owner] = e.fd
    /\ thread[e.owner] \in {"serving", "toRecv", "recv", "leaving"}

(* Once stop() has returned, the server thread is gone and no listening    *)
(* socket is left open: a guest cannot reach a thread of the old session.  *)
StoppedServerIsQuiet ==
  (~isRunning /\ main \in {"idle", "sending", "blocked"}) =>
    /\ server = "none" /\ serverFd = NoFd
    /\ \A f \in Fds : fdTable[f] \notin Sessions

(* The server runs for the first time and stop() has not begun.            *)
FirstSession == isRunning /\ \E s \in Sessions : used = {s}

(* In the first session every thread works on its own connection, and the  *)
(* server on its listening socket: no descriptor is closed under its user. *)
OwnDescriptors ==
  FirstSession =>
    /\ fdTable[serverFd] \in Sessions
    /\ \A c \in Conns : fd[c] \in Fds => fdTable[fd[c]] = c

(* In the first session a sensor or GPS update is written to connections   *)
(* that asked for it, although clients come and go during the send: the    *)
(* mutex and the order "erase, then close" keep a reused descriptor out.   *)
UpdatesReachSubscribers ==
  FirstSession =>
    \A e \in toSend : fdTable[e.fd] = e.owner /\ service[e.owner] = e.list

(* In the first session stop() returns, wherever the server thread was     *)
(* and whatever the guests do.                                             *)
FirstStopReturns ==
  (main \in {"shutdown", "close", "join", "closeClients"} /\ \E s \in Sessions : used = {s})
    ~> (main = "idle")

(* In the first session the thread of a guest that went away ends, unless  *)
(* the main thread keeps the mutex in a send that blocks.                  *)
LostClientIsReleased ==
  \A c \in Conns :
    (FirstSession /\ thread[c] # "none" /\ peer[c] = "closed")
      ~> (thread[c] = "done" \/ main = "blocked" \/ ~isRunning)
=============================================================================
