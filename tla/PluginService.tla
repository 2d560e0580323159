--------------------------- MODULE PluginService ---------------------------
(***************************************************************************)
(* The terminal plugin service (plugins/terminal_plugin_service.cpp): the  *)
(* threads of the terminals report sessions and output, HTTP handlers save *)
(* plugins and reload them, detached threads carry out the plugins' HTTP   *)
(* requests, and one worker thread takes the events off a queue and runs   *)
(* the plugin's JavaScript.  One plugin is modelled: plugins do not share  *)
(* state, and each gets every event.                                       *)
(*                                                                         *)
(* What the JavaScript does is a choice: it may ask for an HTTP request,   *)
(* and it may leave a continuation that writes to the terminal.  The queue *)
(* mutex is held across a step in one place only, worker = "deciding".     *)
(***************************************************************************)
EXTENDS Naturals, Sequences, FiniteSets

CONSTANTS
  Sessions,      \* terminal sessions; an id is never used twice
  Shared,        \* local serial ports: their output thread outlasts their end
  Callers,       \* callers of SavePlugin, DeletePlugin and Reload
  Manifests,     \* what their manifests say: "enabled", "disabled"
  None,
  MaxConcurrent, \* the plugin's maxConcurrentRequests
  MaxHttp,       \* bound: HTTP requests of a run
  MaxOutputs,    \* bound: OnOutput calls of a run
  MaxJobs        \* bound: continuations left in a runtime

ASSUME ConstantsAssumption ==
  /\ Shared \subseteq Sessions
  /\ Manifests \subseteq {"enabled", "disabled"}
  /\ None \notin Sessions \cup Callers
  /\ MaxConcurrent \in Nat \ {0}
  /\ {MaxHttp, MaxOutputs, MaxJobs} \subseteq Nat

VARIABLES
  registered, \* sessions_
  owner,      \* where the thread that opens and closes a session is
  source,     \* where the thread that reports its output is
  outputs,    \* OnOutput calls made
  queueSet,   \* queue_ is not null
  accepting,  \* queue_->accepting
  queue,      \* queue_->events
  worker,     \* where the worker thread is
  current,    \* the event it dispatches
  opening,    \* sessions a reload has still to announce
  files,      \* the plugin directory, with a count of its changes
  loaded,     \* the directory as the runtime was loaded from it
  heard,      \* what the runtime was last told of a session
  closed,     \* history: sessions whose end some runtime, or none, was told
  pending,    \* pending_: promises of the runtime waiting for a response
  flight,     \* detached HTTP threads
  nextId,     \* next_http_request_id_
  jobs,       \* sessions whose continuations are left in the runtime
  astray,     \* history: writes <<of, to>> that went to another terminal
  generation, \* history: runtimes loaded
  call,       \* what a caller of Reload is at or got
  version,    \* the change a caller made, or saw
  stopping,   \* the worker's stop token
  stopper     \* where Stop is

sessionVars == <<registered, owner, source, outputs>>
queueVars == <<queueSet, accepting, queue>>
runtimeVars == <<heard, pending, flight, nextId, jobs, astray>>
loadVars == <<loaded, generation>>
callVars == <<files, call, version>>
stopVars == <<stopping, stopper>>
vars == <<sessionVars, queueVars, worker, current, opening, runtimeVars,
          loadVars, closed, callVars, stopVars>>

SessionEvents == [kind : {"open", "output", "close"}, session : Sessions]
HttpEvents ==
  [kind : {"http"}, id : Nat, session : Sessions, generation : Nat]
ReloadEvents == [kind : {"reload"}, by : Callers]
Events == SessionEvents \cup HttpEvents \cup ReloadEvents

ASSUME NoneAssumption == None \notin Events

\* The service as Start leaves it, with an enabled plugin in the directory.
Init ==
  /\ registered = {}
  /\ owner = [s \in Sessions |-> "new"]
  /\ source = [s \in Sessions |-> "idle"]
  /\ outputs = 0
  /\ queueSet = TRUE
  /\ accepting = TRUE
  /\ queue = <<>>
  /\ worker = "loading"
  /\ current = None
  /\ opening = {}
  /\ files = [count |-> 0, state |-> "enabled"]
  /\ loaded = [count |-> 0, state |-> "absent"]
  /\ heard = [s \in Sessions |-> "nothing"]
  /\ closed = {}
  /\ pending = {}
  /\ flight = {}
  /\ nextId = 0
  /\ jobs = <<>>
  /\ astray = {}
  /\ generation = 0
  /\ call = [c \in Callers |-> "idle"]
  /\ version = [c \in Callers |-> 0]
  /\ stopping = FALSE
  /\ stopper = "idle"

-----------------------------------------------------------------------------
(* The event queue.                                                        *)

\* Mutant: the notification is forgotten.
NobodyWoken == worker

\* notify_one and notify_all: only a worker that waits is woken.
Woken == IF worker = "waiting" THEN "testing" ELSE worker

Unlocked == worker # "deciding"

Push(event) ==
  /\ queue' = Append(queue, event)
  /\ worker' = Woken
  /\ UNCHANGED <<queueSet, accepting>>

\* A post to a service that was stopped is refused.
Post(event) ==
  /\ Unlocked
  /\ IF queueSet /\ accepting
       THEN Push(event)
       ELSE UNCHANGED <<queueVars, worker>>

SessionEvent(what, s) == [kind |-> what, session |-> s]

-----------------------------------------------------------------------------
(* The terminals.                                                          *)

\* RegisterSession, first half: the table.
Register(s) ==
  /\ owner[s] = "new"
  /\ owner' = [owner EXCEPT ![s] = "inserted"]
  /\ registered' = registered \cup {s}
  /\ UNCHANGED <<source, outputs, queueVars, worker, current, opening,
                 runtimeVars, loadVars, closed, callVars, stopVars>>

\* RegisterSession, second half: the Open event.
PostOpen(s) ==
  /\ owner[s] = "inserted"
  /\ owner' = [owner EXCEPT ![s] = "open"]
  /\ Post(SessionEvent("open", s))
  /\ UNCHANGED <<registered, source, outputs, current, opening, runtimeVars,
                 loadVars, closed, callVars, stopVars>>

\* OnOutput, first half: the session is looked up.
FindForOutput(s) ==
  /\ owner[s] = "open"
  /\ source[s] = "idle"
  /\ s \in registered
  /\ outputs < MaxOutputs
  /\ source' = [source EXCEPT ![s] = "found"]
  /\ outputs' = outputs + 1
  /\ UNCHANGED <<registered, owner, queueVars, worker, current, opening,
                 runtimeVars, loadVars, closed, callVars, stopVars>>

\* OnOutput, second half: the Output event.
PostOutput(s) ==
  /\ source[s] = "found"
  /\ source' = [source EXCEPT ![s] = "idle"]
  /\ Post(SessionEvent("output", s))
  /\ UNCHANGED <<registered, owner, outputs, current, opening, runtimeVars,
                 loadVars, closed, callVars, stopVars>>

\* Mutant: the entry stays in the table.
WithSession(s) == registered

WithoutSession(s) == registered \ {s}

\* UnregisterSession, first half.  SSH sessions join their worker before it,
\* and a browser's share is given up when the messages of its connection are
\* through; a serial port calls it first and stops and joins its reader after.
Unregister(s) ==
  /\ owner[s] = "open"
  /\ s \in Shared \/ source[s] = "idle"
  /\ owner' =
       [owner EXCEPT ![s] = IF s \in registered THEN "erased" ELSE "gone"]
  /\ registered' = WithoutSession(s)
  /\ UNCHANGED <<source, outputs, queueVars, worker, current, opening,
                 runtimeVars, loadVars, closed, callVars, stopVars>>

\* UnregisterSession, second half: the Close event.
PostClose(s) ==
  /\ owner[s] = "erased"
  /\ owner' = [owner EXCEPT ![s] = "gone"]
  /\ Post(SessionEvent("close", s))
  /\ UNCHANGED <<registered, source, outputs, current, opening, runtimeVars,
                 loadVars, closed, callVars, stopVars>>

Terminal(s) ==
  \/ Register(s) \/ PostOpen(s)
  \/ FindForOutput(s) \/ PostOutput(s)
  \/ Unregister(s) \/ PostClose(s)

-----------------------------------------------------------------------------
(* Saving, deleting and reloading plugins.                                 *)

Changed(c, state) ==
  /\ files' = [count |-> files.count + 1, state |-> state]
  /\ version' = [version EXCEPT ![c] = files.count + 1]

\* SavePlugin writes the manifest and the source under plugin_files_mutex_.
SavePlugin(c) ==
  /\ call[c] = "idle"
  /\ \E state \in Manifests : Changed(c, state)
  /\ call' = [call EXCEPT ![c] = "reload"]
  /\ UNCHANGED <<sessionVars, queueVars, worker, current, opening,
                 runtimeVars, loadVars, closed, stopVars>>

\* One of the two files cannot be written: what is there does not load any
\* more, and nothing is reloaded.
SaveFails(c) ==
  /\ call[c] = "idle"
  /\ Changed(c, "broken")
  /\ call' = [call EXCEPT ![c] = "error"]
  /\ UNCHANGED <<sessionVars, queueVars, worker, current, opening,
                 runtimeVars, loadVars, closed, stopVars>>

DeletePlugin(c) ==
  /\ call[c] = "idle"
  /\ files.state # "absent"
  /\ Changed(c, "absent")
  /\ call' = [call EXCEPT ![c] = "reload"]
  /\ UNCHANGED <<sessionVars, queueVars, worker, current, opening,
                 runtimeVars, loadVars, closed, stopVars>>

\* The reload request: the directory was edited by hand, or not at all.
ReloadRequest(c) ==
  /\ call[c] = "idle"
  /\ version' = [version EXCEPT ![c] = files.count]
  /\ call' = [call EXCEPT ![c] = "reload"]
  /\ UNCHANGED <<files, sessionVars, queueVars, worker, current, opening,
                 runtimeVars, loadVars, closed, stopVars>>

\* Reload posts the event with its promise.
PostReload(c) ==
  /\ call[c] = "reload"
  /\ Post([kind |-> "reload", by |-> c])
  /\ call' = [call EXCEPT ![c] =
                IF queueSet /\ accepting THEN "waiting" ELSE "error"]
  /\ UNCHANGED <<sessionVars, current, opening, runtimeVars, loadVars,
                 closed, files, version, stopVars>>

\* Five seconds pass; the event stays where it is.
ReloadTimeout(c) ==
  /\ call[c] = "waiting"
  /\ call' = [call EXCEPT ![c] = "error"]
  /\ UNCHANGED <<sessionVars, queueVars, worker, current, opening,
                 runtimeVars, loadVars, closed, files, version, stopVars>>

Caller(c) ==
  \/ SavePlugin(c) \/ SaveFails(c) \/ DeletePlugin(c) \/ ReloadRequest(c)
  \/ PostReload(c) \/ ReloadTimeout(c)

-----------------------------------------------------------------------------
(* The runtime: JavaScript and its HTTP requests.                          *)

Running == loaded.state = "enabled"

\* Mutant: the counter is incremented after its use.
PostIncrement == nextId

NextHttpRequestId == nextId + 1

\* StartHttp, on top of the promises kept: refused at the limit, and when the
\* service stops.
StartHttp(s, kept) ==
  /\ Cardinality(kept) < MaxConcurrent
  /\ nextId < MaxHttp
  /\ nextId' = NextHttpRequestId
  /\ LET request == [id |-> NextHttpRequestId, session |-> s,
                     generation |-> generation]
     IN  IF queueSet
           THEN /\ pending' = kept \cup {request}
                /\ flight' = flight \cup {request}
           ELSE pending' = kept /\ UNCHANGED flight

\* TerminalWrite goes to active_session_id_, if that session is registered.
StrayWrites(done, active) ==
  {<<of, active>> : of \in {done[i] : i \in DOMAIN done} \ {active}}

\* DrainJobs runs at least one continuation and may be cut by the deadline.
DrainJobs(todo, active) ==
  \E n \in 0 .. Len(todo) :
    /\ n = 0 => todo = <<>>
    /\ Len(todo) - n <= MaxJobs
    /\ jobs' = SubSeq(todo, n + 1, Len(todo))
    /\ astray' = IF active \in registered
                   THEN astray \cup StrayWrites(SubSeq(todo, 1, n), active)
                   ELSE astray

\* A handler, or the continuation of a promise, runs with the session as
\* active_session_id_; kept are the promises that still wait.
JavaScript(s, kept) ==
  /\ \/ StartHttp(s, kept)
     \/ pending' = kept /\ UNCHANGED <<flight, nextId>>
  /\ \E n \in 0 .. MaxJobs + 1 : DrainJobs(jobs \o [i \in 1 .. n |-> s], s)

NoJavaScript == UNCHANGED <<pending, flight, nextId, jobs, astray>>

\* The thread of a request is through, with a response or an error.
HttpReturns(request) ==
  /\ Unlocked
  /\ flight' = flight \ {request}
  /\ IF accepting
       THEN Push([kind |-> "http", id |-> request.id,
                  session |-> request.session,
                  generation |-> request.generation])
       ELSE UNCHANGED <<queueVars, worker>>
  /\ UNCHANGED <<sessionVars, current, opening, heard, pending, nextId, jobs,
                 astray, loadVars, closed, callVars, stopVars>>

-----------------------------------------------------------------------------
(* The worker thread.                                                      *)

\* Mutant: a plugin that runs already is not loaded again.
LoadMissingPlugins ==
  /\ loaded' = IF Running THEN loaded ELSE files
  /\ generation' = generation + 1

\* Run starts: the plugins are loaded before the queue is looked at.
LoadPlugins ==
  /\ loaded' = files
  /\ generation' = generation + 1

FirstLoad ==
  /\ worker = "loading"
  /\ worker' = "fetching"
  /\ LoadPlugins
  /\ UNCHANGED <<sessionVars, queueVars, current, opening, runtimeVars,
                 closed, callVars, stopVars>>

\* A Stop that came before has taken the queue away.
FetchQueue ==
  /\ worker = "fetching"
  /\ worker' = IF queueSet THEN "testing" ELSE "ended"
  /\ UNCHANGED <<sessionVars, queueVars, current, opening, runtimeVars,
                 loadVars, closed, callVars, stopVars>>

\* The predicate of the wait is evaluated with the mutex; when it is false,
\* the thread still has to go to sleep.
Test ==
  /\ worker = "testing"
  /\ IF stopping THEN worker' = "ended" /\ UNCHANGED <<current, queue>>
     ELSE IF queue = <<>> THEN worker' = "deciding" /\ UNCHANGED <<current, queue>>
     ELSE /\ worker' = "dispatching"
          /\ current' = Head(queue)
          /\ queue' = Tail(queue)
  /\ UNCHANGED <<queueSet, accepting, sessionVars, opening, runtimeVars,
                 loadVars, closed, callVars, stopVars>>

Sleep ==
  /\ worker = "deciding"
  /\ worker' = "waiting"
  /\ UNCHANGED <<sessionVars, queueVars, current, opening, runtimeVars,
                 loadVars, closed, callVars, stopVars>>

Told(what, s) ==
  heard' = [heard EXCEPT ![s] = IF what = "output" THEN @ ELSE what]

Finished == worker' = "testing" /\ current' = None

\* Runtime::Handle.  Only onTerminalData has to exist.
Handle(what, s) ==
  IF ~Running THEN NoJavaScript /\ UNCHANGED heard
  ELSE /\ Told(what, s)
       /\ \/ JavaScript(s, pending)
          \/ what # "output" /\ NoJavaScript

Dispatch ==
  /\ worker = "dispatching"
  /\ current.kind \in {"open", "output", "close"}
  /\ Handle(current.kind, current.session)
  /\ closed' = IF current.kind = "close" THEN closed \cup {current.session}
                                         ELSE closed
  /\ Finished
  /\ UNCHANGED <<sessionVars, queueVars, opening, loadVars, callVars, stopVars>>

Waiting(id) == {p \in pending : p.id = id}

\* Mutant: the promise is not erased.
NothingErased(id) == pending

StillWaiting(id) == pending \ Waiting(id)

\* Runtime::CompleteHttp: the promise found under the request's id, if any,
\* continues with the session it was made for.
CompleteHttp ==
  /\ worker = "dispatching"
  /\ current.kind = "http"
  /\ IF Waiting(current.id) = {}
       THEN NoJavaScript
       ELSE \E p \in Waiting(current.id) :
              JavaScript(p.session, StillWaiting(current.id))
  /\ Finished
  /\ UNCHANGED <<sessionVars, queueVars, opening, heard, loadVars, closed,
                 callVars, stopVars>>

\* Mutant: the counter belongs to the runtime.
CounterPerRuntime == 0

CounterAfterReload == nextId

\* Reload, first part: plugins_.clear and LoadPlugins.
ReloadLoad ==
  /\ worker = "dispatching"
  /\ current.kind = "reload"
  /\ worker' = "loaded"
  /\ LoadPlugins
  /\ heard' = [s \in Sessions |-> "nothing"]
  /\ pending' = {}
  /\ jobs' = <<>>
  /\ nextId' = CounterAfterReload
  /\ UNCHANGED <<sessionVars, queueVars, current, opening, flight, astray,
                 closed, callVars, stopVars>>

\* Mutant: a reload announces nothing.
NothingToAnnounce == {}

SessionsToAnnounce == registered

\* Second part: the sessions of the moment are copied.
ReloadCopy ==
  /\ worker = "loaded"
  /\ worker' = "opening"
  /\ opening' = SessionsToAnnounce
  /\ UNCHANGED <<sessionVars, queueVars, current, runtimeVars, loadVars,
                 closed, callVars, stopVars>>

\* Third part: each of them is announced to the new runtime.
ReloadOpen(s) ==
  /\ worker = "opening"
  /\ s \in opening
  /\ opening' = opening \ {s}
  /\ Handle("open", s)
  /\ UNCHANGED <<sessionVars, queueVars, worker, current, loadVars, closed,
                 callVars, stopVars>>

\* Last, the promise is kept, whether somebody still waits or not.
ReloadDone ==
  /\ worker = "opening"
  /\ opening = {}
  /\ call' = [call EXCEPT ![current.by] = IF @ = "waiting" THEN "ok" ELSE @]
  /\ Finished
  /\ UNCHANGED <<sessionVars, queueVars, opening, runtimeVars, loadVars,
                 closed, files, version, stopVars>>

Worker ==
  \/ FirstLoad \/ FetchQueue \/ Test \/ Sleep
  \/ Dispatch \/ CompleteHttp
  \/ ReloadLoad \/ ReloadCopy \/ ReloadDone
  \/ \E s \in Sessions : ReloadOpen(s)

-----------------------------------------------------------------------------
(* Stop, one critical section after the other.                             *)

StopTakesQueue ==
  /\ stopper = "idle"
  /\ stopper' = "clear"
  /\ queueSet' = FALSE
  /\ UNCHANGED <<accepting, queue, sessionVars, worker, current, opening,
                 runtimeVars, loadVars, closed, callVars, stopping>>

\* The events go, and with a Reload event the promise: its caller gets an error.
StopClears ==
  /\ stopper = "clear"
  /\ Unlocked
  /\ stopper' = "request"
  /\ accepting' = FALSE
  /\ queue' = <<>>
  /\ LET dropped == {queue[i] : i \in DOMAIN queue}
     IN  call' = [c \in Callers |->
                    IF call[c] = "waiting" /\ [kind |-> "reload", by |-> c] \in dropped
                      THEN "error" ELSE call[c]]
  /\ UNCHANGED <<queueSet, sessionVars, worker, current, opening, runtimeVars,
                 loadVars, closed, files, version, stopping>>

StopRequests ==
  /\ stopper = "request"
  /\ stopper' = "notify"
  /\ stopping' = TRUE
  /\ UNCHANGED <<sessionVars, queueVars, worker, current, opening,
                 runtimeVars, loadVars, closed, callVars>>

\* notify_all is called without the queue mutex.
StopNotifies ==
  /\ stopper = "notify"
  /\ stopper' = "join"
  /\ worker' = Woken
  /\ UNCHANGED <<sessionVars, queueVars, current, opening, runtimeVars,
                 loadVars, closed, callVars, stopping>>

StopJoins ==
  /\ stopper = "join"
  /\ worker = "ended"
  /\ stopper' = "returned"
  /\ registered' = {}
  /\ UNCHANGED <<owner, source, outputs, queueVars, worker, current, opening,
                 runtimeVars, loadVars, closed, callVars, stopping>>

Stop ==
  StopTakesQueue \/ StopClears \/ StopRequests \/ StopNotifies \/ StopJoins

Next ==
  \/ \E s \in Sessions : Terminal(s)
  \/ \E c \in Callers : Caller(c)
  \/ \E request \in flight : HttpReturns(request)
  \/ Worker
  \/ Stop

Spec == Init /\ [][Next]_vars

\* Threads that hold work run on: the worker, a thread inside RegisterSession
\* or UnregisterSession, and a Stop once it has begun.
Fairness ==
  /\ WF_vars(Worker)
  /\ \A s \in Sessions : WF_vars(PostOpen(s) \/ PostClose(s))
  /\ WF_vars(StopClears \/ StopRequests \/ StopNotifies \/ StopJoins)

FairSpec == Spec /\ Fairness

-----------------------------------------------------------------------------
(* Properties.                                                             *)

WorkerStates ==
  {"loading", "fetching", "testing", "deciding", "waiting", "dispatching",
   "loaded", "opening", "ended"}

Requests ==
  [id : 1 .. MaxHttp, session : Sessions, generation : Nat \ {0}]

\* Every variable has its type: requests are numbered from 1, and the worker
\* holds an event while it dispatches one.
TypeOK ==
  /\ registered \subseteq Sessions
  /\ owner \in [Sessions -> {"new", "inserted", "open", "erased", "gone"}]
  /\ source \in [Sessions -> {"idle", "found"}]
  /\ outputs \in 0 .. MaxOutputs
  /\ queueSet \in BOOLEAN /\ accepting \in BOOLEAN
  /\ \A i \in DOMAIN queue : queue[i] \in Events
  /\ worker \in WorkerStates
  /\ current \in Events \cup {None}
  /\ (current # None) <=> (worker \in {"dispatching", "loaded", "opening"})
  /\ opening \subseteq Sessions
  /\ heard \in [Sessions -> {"nothing", "open", "close"}]
  /\ closed \subseteq Sessions
  /\ pending \subseteq Requests /\ flight \subseteq Requests
  /\ nextId \in 0 .. MaxHttp
  /\ Len(jobs) <= MaxJobs
  /\ call \in [Callers -> {"idle", "reload", "waiting", "ok", "error"}]
  /\ stopping \in BOOLEAN
  /\ stopper \in {"idle", "clear", "request", "notify", "join", "returned"}

\* A runtime that is handed output of a session which is still there has been
\* told of its opening before: RegisterSession fills the table before it
\* posts Open, and a reload announces the table to the new runtime.
AnnouncedFirst ==
  worker = "dispatching" /\ current.kind = "output" /\ Running
    => \/ heard[current.session] = "open"
       \/ current.session \notin registered

\* Where output of a session is on its way: 0 is the worker's hand, then the
\* places of the queue, and behind them the hand of the thread that reports it.
OutputOf(s) ==
  {i \in 0 .. Len(queue) + 1 :
     \/ i = 0 /\ current = SessionEvent("output", s)
     \/ i \in DOMAIN queue /\ queue[i] = SessionEvent("output", s)
     \/ i = Len(queue) + 1 /\ source[s] = "found"}

\* A session whose Close was handled is over: it is not opened again, also not
\* by a reload that runs meanwhile, and no output of it follows, except for a
\* serial port, whose reader goes on: of that, one piece at most, the one the
\* reader had looked the session up for.
ClosedIsOver ==
  \A s \in closed :
    /\ s \notin registered \cup opening
    /\ \A e \in {current} \cup {queue[i] : i \in DOMAIN queue} :
         e \notin {SessionEvent("open", s), SessionEvent("close", s)}
    /\ \A i, k \in OutputOf(s) : s \in Shared /\ i = k

\* A response continues the promise of the request that asked for it, also
\* when the plugin was reloaded in between: what a request of the runtime
\* that is gone gets is dropped.
ResponseMeetsItsRequest ==
  worker = "dispatching" /\ current.kind = "http"
    => \A p \in Waiting(current.id) :
         p.session = current.session /\ p.generation = current.generation

\* A promise counts against maxConcurrentRequests only while its request is
\* on its way: until Stop, each has a thread or a completion in the queue.
SlotsAreFreed ==
  accepting =>
    \A p \in pending :
      \/ p \in flight
      \/ \E i \in DOMAIN queue : queue[i] \in HttpEvents /\ queue[i].id = p.id
      \/ current \in HttpEvents /\ current.id = p.id

\* A SavePlugin, DeletePlugin or reload that returns without an error is
\* followed by a runtime that has the change, however the callers overlap.
SaveTakesEffect ==
  \A c \in Callers : call[c] = "ok" => loaded.count >= version[c]

\* When there are sessions, a moment comes at which the plugin has been told of
\* every one that is registered then, unless the service stops or there is no
\* plugin to tell.  So a session that stays registered is announced.
EverySessionAnnounced ==
  registered # {} ~>
    (\/ \A s \in registered : heard[s] = "open"
     \/ ~queueSet \/ ~Running)

\* A continuation writes to the terminal whose event it comes from.
WritesToOwnTerminal == astray = {}

\* A Stop that has begun returns.
StopReturns == stopper # "idle" ~> stopper = "returned"

=============================================================================
