---------------------------- MODULE TransferServer ----------------------------
(***************************************************************************)
(* The transfer server and its manager (Server::Impl in                    *)
(* transfer/transfer.cpp, transfer/transfer_manager.cpp): a thread that    *)
(* accepts, a worker thread for each connection, and Stop, which has to    *)
(* end them all.  What a worker does with a file is in DeltaTransfer.      *)
(*                                                                         *)
(* The manager takes a server out of server_ before it stops it, so a new  *)
(* one may start while the old one still stops.  Sockets are file          *)
(* descriptors of the process: the lowest free number is the next to be    *)
(* used, by whichever server.                                              *)
(***************************************************************************)
EXTENDS Integers, Sequences, FiniteSets

CONSTANTS
  Settings,    \* server configurations
  Sockets,     \* bound: descriptors, natural numbers
  MaxServers,  \* bound: Server objects made
  MaxWorkers   \* bound: connections accepted

VARIABLES
  settings,  \* TransferManager::server_config_
  current,   \* TransferManager::server_, an index of servers, 0 for none
  starting,  \* StartServer is running, with the mutex of the manager
  servers,   \* the Server objects
  workers    \* their worker_threads_

managerVars == <<settings, current, starting>>
transferVars == <<settings, current, starting, servers, workers>>

NoSocket == 0

ASSUME SocketsAssumption == Sockets \subseteq Nat \ {NoSocket}

TransferInit ==
  /\ settings \in Settings
  /\ current = 0 /\ starting = FALSE
  /\ servers = <<>> /\ workers = <<>>

IsRunning(s) == s # 0 /\ servers[s].running

\* Descriptors that nobody has closed.
InUse == {workers[w].socket : w \in {w \in DOMAIN workers : workers[w].open}}
         \cup {servers[s].accepted : s \in DOMAIN servers}
FreeSockets == Sockets \ InUse

-----------------------------------------------------------------------------
(* TransferManager.                                                        *)

\* Mutant: the settings may change at any time.
NeverLocked == FALSE
SettingsLocked == IsRunning(current)

UpdateServerConfig ==
  /\ ~starting /\ ~SettingsLocked
  /\ settings' \in Settings \ {settings}
  /\ UNCHANGED <<current, starting, servers, workers>>

\* A server that does not run is replaced.  Start binds the first listener,
\* which must be free, and its accept thread goes off at once.
StartServer ==
  /\ ~starting /\ ~IsRunning(current)
  /\ Len(servers) < MaxServers
  /\ ~\E s \in DOMAIN servers : servers[s].listening
  /\ servers' = Append(servers,
       [config |-> settings, running |-> TRUE, listening |-> TRUE, active |-> {},
        acceptor |-> "accepting", accepted |-> NoSocket, stop |-> "no"])
  /\ current' = Len(servers) + 1
  /\ starting' = TRUE
  /\ UNCHANGED <<settings, workers>>

Started ==
  /\ starting /\ servers[current].running
  /\ starting' = FALSE
  /\ UNCHANGED <<settings, current, servers, workers>>

\* The second listener cannot be bound: Start stops what there is.
StartFails ==
  /\ starting /\ servers[current].running
  /\ servers' = [servers EXCEPT ![current].running = FALSE, ![current].stop = "asked"]
  /\ UNCHANGED <<managerVars, workers>>

StartHasFailed ==
  /\ starting /\ servers[current].stop = "stopped"
  /\ starting' = FALSE
  /\ UNCHANGED <<settings, current, servers, workers>>

StopServer ==
  /\ ~starting /\ current # 0
  /\ servers' = [servers EXCEPT ![current].running = FALSE,
                                ![current].stop = IF @ = "no" THEN "asked" ELSE @]
  /\ current' = 0
  /\ UNCHANGED <<settings, starting, workers>>

-----------------------------------------------------------------------------
(* Server::Impl::Stop, after running_ = false.                             *)

\* Mutant: a listener is left to the accept thread.
LeftOpen(s) == TRUE
ListensAfterStop(s) == FALSE

CloseListeners(s) ==
  /\ servers[s].stop = "asked"
  /\ servers' = [servers EXCEPT ![s].listening = ListensAfterStop(s), ![s].stop = "closed"]
  /\ UNCHANGED <<managerVars, workers>>

\* shutdown() on every descriptor of active_sockets_, whoever has it now.
SweepSockets(s) ==
  /\ servers[s].stop = "closed"
  /\ servers' = [servers EXCEPT ![s].stop = "swept"]
  /\ workers' = [w \in DOMAIN workers |->
       [workers[w] EXCEPT !.shut = @ \/ (workers[w].open /\ workers[w].socket \in servers[s].active)]]
  /\ UNCHANGED managerVars

JoinThreads(s) ==
  /\ servers[s].stop = "swept"
  /\ servers[s].acceptor = "ended"
  /\ \A w \in DOMAIN workers : workers[w].server = s => workers[w].at = "done"
  /\ servers' = [servers EXCEPT ![s].stop = "stopped"]
  /\ UNCHANGED <<managerVars, workers>>

-----------------------------------------------------------------------------
(* AcceptLoop.                                                             *)

Accept(s) ==
  /\ servers[s].acceptor = "accepting" /\ servers[s].listening
  /\ FreeSockets # {}
  /\ Len(workers) + Cardinality({r \in DOMAIN servers : servers[r].acceptor = "holding"}) < MaxWorkers
  /\ servers' = [servers EXCEPT ![s].acceptor = "holding",
       ![s].accepted = CHOOSE f \in FreeSockets : \A g \in FreeSockets : f <= g]
  /\ UNCHANGED <<managerVars, workers>>

\* The connection is registered, however far Stop has come, and gets a worker.
Register(s) ==
  /\ servers[s].acceptor = "holding"
  /\ workers' = Append(workers, [server |-> s, socket |-> servers[s].accepted,
                                 at |-> "handshake", open |-> TRUE, shut |-> FALSE])
  /\ servers' = [servers EXCEPT ![s].active = @ \cup {servers[s].accepted},
       ![s].accepted = NoSocket,
       ![s].acceptor = IF servers[s].running THEN "accepting" ELSE "ended"]
  /\ UNCHANGED managerVars

\* accept fails because the listener is closed.
EndAccept(s) ==
  /\ servers[s].acceptor = "accepting" /\ ~servers[s].listening
  /\ servers' = [servers EXCEPT ![s].acceptor = "ended"]
  /\ UNCHANGED <<managerVars, workers>>

-----------------------------------------------------------------------------
(* A worker.                                                               *)

Handshake(w) ==
  /\ workers[w].at = "handshake" /\ ~workers[w].shut
  /\ workers' = [workers EXCEPT ![w].at = "serving"]
  /\ UNCHANGED <<managerVars, servers>>

\* The socket of a failed handshake is closed if it is registered.
HandshakeFails(w) ==
  /\ workers[w].at = "handshake"
  /\ workers' = [workers EXCEPT ![w].at = "erasing",
       ![w].open = workers[w].socket \notin servers[workers[w].server].active]
  /\ UNCHANGED <<managerVars, servers>>

\* HandleConnection returns or throws, and ~Connection closes the socket.
EndConnection(w) ==
  /\ workers[w].at = "serving"
  /\ workers' = [workers EXCEPT ![w].at = "erasing", ![w].open = FALSE]
  /\ UNCHANGED <<managerVars, servers>>

\* The descriptor is erased, though another connection may have it by now.
EraseSocket(w) ==
  /\ workers[w].at = "erasing"
  /\ workers' = [workers EXCEPT ![w].at = "done"]
  /\ servers' = [servers EXCEPT ![workers[w].server].active = @ \ {workers[w].socket}]
  /\ UNCHANGED managerVars

-----------------------------------------------------------------------------
StopStep(s) == CloseListeners(s) \/ SweepSockets(s) \/ JoinThreads(s)
AcceptStep(s) == Accept(s) \/ Register(s) \/ EndAccept(s)
WorkerStep(w) == Handshake(w) \/ HandshakeFails(w) \/ EndConnection(w) \/ EraseSocket(w)

TransferNext ==
  \/ UpdateServerConfig \/ StartServer \/ Started \/ StartFails \/ StartHasFailed \/ StopServer
  \/ \E s \in DOMAIN servers : StopStep(s) \/ AcceptStep(s)
  \/ \E w \in DOMAIN workers : WorkerStep(w)

\* The threads run.  Nothing is assumed of the clients: only a worker whose
\* socket has been shut down is sure to leave its read or write.
TransferFairness ==
  /\ \A s \in 1 .. MaxServers :
       /\ WF_transferVars(s \in DOMAIN servers /\ StopStep(s))
       /\ WF_transferVars(s \in DOMAIN servers /\ (Register(s) \/ EndAccept(s)))
  /\ \A w \in 1 .. MaxWorkers :
       WF_transferVars(/\ w \in DOMAIN workers
                       /\ \/ workers[w].shut /\ (HandshakeFails(w) \/ EndConnection(w))
                          \/ EraseSocket(w))

TransferSpec == TransferInit /\ [][TransferNext]_transferVars /\ TransferFairness

-----------------------------------------------------------------------------
TransferTypeOK ==
  /\ settings \in Settings /\ current \in 0 .. Len(servers) /\ starting \in BOOLEAN
  /\ \A s \in DOMAIN servers :
       /\ servers[s].stop \in {"no", "asked", "closed", "swept", "stopped"}
       /\ servers[s].acceptor \in {"accepting", "holding", "ended"}
       /\ servers[s].accepted \in Sockets \cup {NoSocket}
       /\ servers[s].active \subseteq Sockets
  /\ \A w \in DOMAIN workers :
       /\ workers[w].at \in {"handshake", "serving", "erasing", "done"}
       /\ workers[w].server \in DOMAIN servers /\ workers[w].socket \in Sockets

\* The settings that the manager shows are those the running server was
\* started with.
RunningUsesSettings == IsRunning(current) => servers[current].config = settings

\* No thread of s can be stuck on a client any more: nothing is accepted and
\* not yet registered, and every connection that is open has been shut down.
AllShut(s) ==
  /\ servers[s].acceptor # "holding"
  /\ \A w \in DOMAIN workers :
       workers[w].server = s /\ workers[w].at \in {"handshake", "serving"} => workers[w].shut

\* A Stop whose sweep has met every connection returns, whatever the clients
\* do.  (A connection that is accepted before the sweep and registered after
\* it, or whose descriptor another worker has erased, is not met, and Stop
\* then waits for its client.)
SweptMeansStopped ==
  \A s \in 1 .. MaxServers :
    (s \in DOMAIN servers /\ servers[s].stop = "swept" /\ AllShut(s))
      ~> (s \in DOMAIN servers /\ servers[s].stop = "stopped")
=============================================================================
