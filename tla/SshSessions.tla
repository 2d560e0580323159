---------------------------- MODULE SshSessions ----------------------------
(***************************************************************************)
(* The SSH terminal controller of the backend (ssh_websocket.cpp): which   *)
(* WebSocket is attached to which SSH session, which resume token gives a  *)
(* session back, and who stops a session's worker thread.                  *)
(*                                                                         *)
(* One action is one critical section of the code.  The handlers of one    *)
(* connection run one after the other on its event loop; handlers of       *)
(* different connections, HTTP requests, the timers of the main loop, the  *)
(* cleanup worker and the session workers interleave.  stage and hand say  *)
(* where an actor is inside a handler that takes several locks in turn.    *)
(***************************************************************************)
EXTENDS Naturals, Sequences

CONSTANTS
  Conns,      \* WebSocket connections (state->connection_id)
  Sessions,   \* SshSession objects a run may create
  Tokens,     \* resume tokens; RandomHex(32) never repeats one
  Http,       \* the event loop that serves the HTTP terminate request
  MainLoop,   \* drogon's main loop, where the expiry timers fire
  NoSession, NoConn, NoToken, NoActor,
  Requests    \* the client requests of an instance

Actors == Conns \cup {Http, MainLoop}

ASSUME ConstantsAssumption ==
  /\ NoSession \notin Sessions
  /\ NoConn \notin Conns
  /\ NoToken \notin Tokens
  /\ Http \notin Conns
  /\ MainLoop \notin Conns
  /\ Http # MainLoop
  /\ NoActor \notin Actors
  /\ Requests \subseteq {"connect", "resume", "terminate", "http"}

VARIABLES
  cstate,      \* a connection: "new", "open", "closed"
  bound,       \* state->session of a connection
  held,        \* state->resume_token of a connection
  terminating, \* state->terminate_requested
  timer,       \* the 90 s timer armed when a connection closed attached
  stage,       \* where an actor is between two critical sections
  hand,        \* the session an actor is stopping
  expiring,    \* the closed connection whose timer the main loop runs
  resumable,   \* resumable_sessions_
  issued,      \* tokens drawn so far
  mutex,       \* the holder of sessions_mutex_ across two steps
  worker,      \* worker_ of a session
  stopping,    \* its stop_source_ has a stop request
  attached,    \* its connection_id_
  detachedBy,  \* detached_at_ has a value, set when this connection detached
  elapsed,     \* and kResumeWindow has passed since
  lastHolder,  \* history: the connection that drew the session's last token
  reason,      \* history: who asked the session to stop first
  queue,       \* cleanup_queue_
  cleaning,    \* the session the cleanup worker is stopping
  phase        \* the server: "serving", "stopAll", "draining", "stopped"

connVars == <<cstate, bound, held, terminating, timer>>
actorVars == <<stage, hand, expiring>>
tableVars == <<resumable, issued, mutex>>
attachVars == <<attached, detachedBy, elapsed>>
cleanVars == <<queue, cleaning>>
vars == <<connVars, actorVars, tableVars, worker, stopping, attachVars,
          lastHolder, reason, cleanVars, phase>>

Init ==
  /\ cstate = [c \in Conns |-> "new"]
  /\ bound = [c \in Conns |-> NoSession]
  /\ held = [c \in Conns |-> NoToken]
  /\ terminating = [c \in Conns |-> FALSE]
  /\ timer = [c \in Conns |-> "none"]
  /\ stage = [a \in Actors |-> "idle"]
  /\ hand = [a \in Actors |-> NoSession]
  /\ expiring = NoConn
  /\ resumable = [t \in Tokens |-> NoSession]
  /\ issued = {}
  /\ mutex = NoActor
  /\ worker = [s \in Sessions |-> "none"]
  /\ stopping = [s \in Sessions |-> FALSE]
  /\ attached = [s \in Sessions |-> NoConn]
  /\ detachedBy = [s \in Sessions |-> NoConn]
  /\ elapsed = [s \in Sessions |-> FALSE]
  /\ lastHolder = [s \in Sessions |-> NoConn]
  /\ reason = [s \in Sessions |-> "none"]
  /\ queue = <<>>
  /\ cleaning = NoSession
  /\ phase = "serving"

-----------------------------------------------------------------------------
(* Helpers *)

Idle(c) == phase = "serving" /\ cstate[c] = "open" /\ stage[c] = "idle"

Registered(s) == \E t \in Tokens : resumable[t] = s

Goto(a, next) == stage' = [stage EXCEPT ![a] = next]

\* Mutant: Detach without the comparison of connection ids.
DetachWhoever(s, c) ==
  /\ attached' = [attached EXCEPT ![s] = NoConn]
  /\ detachedBy' = [detachedBy EXCEPT ![s] = c]
  /\ elapsed' = [elapsed EXCEPT ![s] = FALSE]

\* The weak reference and the id of the attached connection, and
\* detached_at_, as SshSession::Detach leaves them.
Detach(s, c) ==
  IF attached[s] = c
  THEN /\ attached' = [attached EXCEPT ![s] = NoConn]
       /\ detachedBy' = [detachedBy EXCEPT ![s] = c]
       /\ elapsed' = [elapsed EXCEPT ![s] = FALSE]
  ELSE UNCHANGED attachVars

\* SshSession::RequestStop.  A stop source that Start has not replaced yet
\* forgets the request.
StopRequested(s) == [stopping EXCEPT ![s] = @ \/ worker[s] # "none"]

RequestStop(s, why) ==
  /\ stopping' = StopRequested(s)
  /\ reason' = [reason EXCEPT ![s] = IF @ = "none" THEN why ELSE @]

-----------------------------------------------------------------------------
(* Handlers of a connection *)

\* handleNewConnection.
Open(c) ==
  /\ phase = "serving"
  /\ cstate[c] = "new"
  /\ cstate' = [cstate EXCEPT ![c] = "open"]
  /\ UNCHANGED <<bound, held, terminating, timer, actorVars, tableVars, worker,
                 stopping, attachVars, lastHolder, reason, cleanVars, phase>>

\* Mutant: sessions_mutex_ is released before Start.
UnlockedDuringStart(c) == NoActor

\* "An HTTP terminate request must not reach this session until Start has
\* initialized the worker and its cancellation source."
HolderDuringStart(c) == c

\* HandleConnect up to the registration of the session; sessions_mutex_ stays
\* locked.  A request for an unknown host or without credentials changes
\* nothing but state->tab_id.
ConnectRegister(c) ==
  /\ "connect" \in Requests
  /\ Idle(c)
  /\ bound[c] = NoSession
  /\ mutex = NoActor
  /\ \E s \in Sessions, t \in Tokens \ issued :
       /\ lastHolder[s] = NoConn
       /\ resumable' = [resumable EXCEPT ![t] = s]
       /\ issued' = issued \cup {t}
       /\ bound' = [bound EXCEPT ![c] = s]
       /\ held' = [held EXCEPT ![c] = t]
       /\ attached' = [attached EXCEPT ![s] = c]
       /\ lastHolder' = [lastHolder EXCEPT ![s] = c]
  /\ mutex' = HolderDuringStart(c)
  /\ Goto(c, "start")
  /\ UNCHANGED <<cstate, terminating, timer, hand, expiring, worker, stopping,
                 detachedBy, elapsed, reason, cleanVars, phase>>

\* SshSession::Start, still under sessions_mutex_, then the unlock.
ConnectStart(c) ==
  /\ stage[c] = "start"
  /\ worker' = [worker EXCEPT ![bound[c]] = "running"]
  /\ mutex' = NoActor
  /\ Goto(c, "idle")
  /\ UNCHANGED <<connVars, hand, expiring, resumable, issued, stopping,
                 attachVars, lastHolder, reason, cleanVars, phase>>

\* Mutants: the presented token stays valid; the connection remembers the
\* presented token instead of the fresh one.
OldTokenStaysValid(t, n, s) == [resumable EXCEPT ![n] = s]
PresentedToken(t, n) == t

Rotated(t, n, s) == [resumable EXCEPT ![t] = NoSession, ![n] = s]

TokenToKeep(t, n) == n

\* HandleResume, first half: the presented token is exchanged for a fresh one.
\* An unknown token is answered with "resume-failed" and changes nothing.
ResumeRotate(c) ==
  /\ "resume" \in Requests
  /\ Idle(c)
  /\ bound[c] = NoSession
  /\ mutex = NoActor
  /\ \E t \in issued, n \in Tokens \ issued :
       LET s == resumable[t] IN
       /\ s # NoSession
       /\ resumable' = Rotated(t, n, s)
       /\ issued' = issued \cup {n}
       /\ bound' = [bound EXCEPT ![c] = s]
       /\ held' = [held EXCEPT ![c] = TokenToKeep(t, n)]
       /\ lastHolder' = [lastHolder EXCEPT ![s] = c]
  /\ Goto(c, "attach")
  /\ UNCHANGED <<cstate, terminating, timer, hand, expiring, mutex, worker,
                 stopping, attachVars, reason, cleanVars, phase>>

\* HandleResume, second half: SshSession::Attach under the session's mutex.
\* The shutdown it sends to the previous connection may close that one.
ResumeAttach(c) ==
  /\ stage[c] = "attach"
  /\ attached' = [attached EXCEPT ![bound[c]] = c]
  /\ detachedBy' = [detachedBy EXCEPT ![bound[c]] = NoConn]
  /\ elapsed' = [elapsed EXCEPT ![bound[c]] = FALSE]
  /\ Goto(c, "idle")
  /\ UNCHANGED <<connVars, hand, expiring, tableVars, worker, stopping,
                 lastHolder, reason, cleanVars, phase>>

\* HandleTerminate on a connection without a session.
TerminateUnbound(c) ==
  /\ "terminate" \in Requests
  /\ Idle(c)
  /\ bound[c] = NoSession
  /\ terminating' = [terminating EXCEPT ![c] = TRUE]
  /\ UNCHANGED <<cstate, bound, held, timer, actorVars, tableVars, worker,
                 stopping, attachVars, lastHolder, reason, cleanVars, phase>>

\* HandleTerminate up to the end of its sessions_mutex_ section: the entry is
\* erased only if the connection's own token still leads to its session.
TerminateErase(c) ==
  /\ "terminate" \in Requests
  /\ Idle(c)
  /\ bound[c] # NoSession
  /\ mutex = NoActor
  /\ terminating' = [terminating EXCEPT ![c] = TRUE]
  /\ hand' = [hand EXCEPT ![c] = bound[c]]
  /\ bound' = [bound EXCEPT ![c] = NoSession]
  /\ held' = [held EXCEPT ![c] = NoToken]
  /\ resumable' = [t \in Tokens |->
                     IF t = held[c] /\ resumable[t] = bound[c]
                     THEN NoSession ELSE resumable[t]]
  /\ Goto(c, "detach")
  /\ UNCHANGED <<cstate, timer, expiring, issued, mutex, worker, stopping,
                 attachVars, lastHolder, reason, cleanVars, phase>>

TerminateDetach(c) ==
  /\ stage[c] = "detach"
  /\ Detach(hand[c], c)
  /\ Goto(c, "stop")
  /\ UNCHANGED <<connVars, hand, expiring, tableVars, worker, stopping,
                 lastHolder, reason, cleanVars, phase>>

\* handleConnectionClosed.  The timer's closure keeps the session and token
\* the connection had, so bound and held of a closed connection are kept.
Close(c) ==
  /\ Idle(c)
  /\ cstate' = [cstate EXCEPT ![c] = "closed"]
  /\ IF ~terminating[c] /\ bound[c] # NoSession
     THEN /\ Detach(bound[c], c)
          /\ timer' = [timer EXCEPT ![c] = IF attached[bound[c]] = c
                                           THEN "armed" ELSE @]
     ELSE UNCHANGED <<attachVars, timer>>
  /\ UNCHANGED <<bound, held, terminating, actorVars, tableVars, worker,
                 stopping, lastHolder, reason, cleanVars, phase>>

-----------------------------------------------------------------------------
(* The HTTP terminate request and the expiry timers *)

\* TerminateSession, up to the end of its sessions_mutex_ section.
HttpTerminate ==
  /\ "http" \in Requests
  /\ phase = "serving"
  /\ stage[Http] = "idle"
  /\ mutex = NoActor
  /\ \E t \in issued :
       /\ resumable[t] # NoSession
       /\ hand' = [hand EXCEPT ![Http] = resumable[t]]
       /\ resumable' = [resumable EXCEPT ![t] = NoSession]
  /\ Goto(Http, "stop")
  /\ UNCHANGED <<connVars, expiring, issued, mutex, worker, stopping,
                 attachVars, lastHolder, reason, cleanVars, phase>>

\* kResumeWindow passes after a Detach that no Attach has followed.
WindowElapses(s) ==
  /\ phase = "serving"
  /\ detachedBy[s] # NoConn
  /\ ~elapsed[s]
  /\ elapsed' = [elapsed EXCEPT ![s] = TRUE]
  /\ UNCHANGED <<connVars, actorVars, tableVars, worker, stopping, attached,
                 detachedBy, lastHolder, reason, cleanVars, phase>>

\* A timer of a Detach that is still in force fires when its window is over;
\* one of an earlier Detach may fire at any time.
TimerDue(c) ==
  /\ phase = "serving"
  /\ stage[MainLoop] = "idle"
  /\ timer[c] = "armed"
  /\ detachedBy[bound[c]] = c => elapsed[bound[c]]

\* ExpireDetachedSession returns: the session was attached or detached anew.
ExpireSkip(c) ==
  /\ TimerDue(c)
  /\ ~elapsed[bound[c]]
  /\ timer' = [timer EXCEPT ![c] = "fired"]
  /\ UNCHANGED <<cstate, bound, held, terminating, actorVars, tableVars,
                 worker, stopping, attachVars, lastHolder, reason, cleanVars,
                 phase>>

\* DetachedFor(kResumeWindow) holds; sessions_mutex_ is not taken yet.
ExpireCheck(c) ==
  /\ TimerDue(c)
  /\ elapsed[bound[c]]
  /\ timer' = [timer EXCEPT ![c] = "fired"]
  /\ expiring' = c
  /\ Goto(MainLoop, "erase")
  /\ UNCHANGED <<cstate, bound, held, terminating, hand, tableVars, worker,
                 stopping, attachVars, lastHolder, reason, cleanVars, phase>>

\* Mutant: the session of the timer is looked up without its token.
SessionIsRegistered(c) == Registered(bound[c])

\* The timer's token still leads to the timer's session.
StillOwns(c) == resumable[held[c]] = bound[c]

\* The sessions_mutex_ section of ExpireDetachedSession.
ExpireErase ==
  /\ stage[MainLoop] = "erase"
  /\ mutex = NoActor
  /\ IF StillOwns(expiring)
     THEN /\ resumable' = [resumable EXCEPT ![held[expiring]] = NoSession]
          /\ hand' = [hand EXCEPT ![MainLoop] = bound[expiring]]
          /\ Goto(MainLoop, "stop")
     ELSE /\ Goto(MainLoop, "idle")
          /\ UNCHANGED <<resumable, hand>>
  /\ expiring' = NoConn
  /\ UNCHANGED <<connVars, issued, mutex, worker, stopping, attachVars,
                 lastHolder, reason, cleanVars, phase>>

-----------------------------------------------------------------------------
(* QueueStop, the cleanup worker and the session workers *)

Cause(a) ==
  IF a = Http THEN "http" ELSE IF a = MainLoop THEN "expiry" ELSE "client"

\* QueueStop, first half: SshSession::RequestStop.
QueueStopRequest(a) ==
  /\ stage[a] = "stop"
  /\ RequestStop(hand[a], Cause(a))
  /\ Goto(a, "push")
  /\ UNCHANGED <<connVars, hand, expiring, tableVars, worker, attachVars,
                 lastHolder, cleanVars, phase>>

\* Mutants: one slot instead of a queue; the moved-from pointer is pushed.
SlotOverwritten(s) == <<s>>
MovedFromPushed(s) == Append(queue, NoSession)

Enqueued(s) == Append(queue, s)

\* QueueStop, second half: the session changes hands under cleanup_mutex_.
QueueStopPush(a) ==
  /\ stage[a] = "push"
  /\ queue' = Enqueued(hand[a])
  /\ hand' = [hand EXCEPT ![a] = NoSession]
  /\ Goto(a, "idle")
  /\ UNCHANGED <<connVars, expiring, tableVars, worker, stopping, attachVars,
                 lastHolder, reason, cleaning, phase>>

\* CleanupSessions takes the next session; Stop begins with RequestStop.
CleanerTake ==
  /\ phase # "stopped"
  /\ cleaning = NoSession
  /\ queue # <<>>
  /\ cleaning' = Head(queue)
  /\ queue' = Tail(queue)
  /\ stopping' = StopRequested(Head(queue))
  /\ UNCHANGED <<connVars, actorVars, tableVars, worker, attachVars,
                 lastHolder, reason, phase>>

\* worker_.join() returns at once if the thread was never started.
CleanerJoin ==
  /\ cleaning # NoSession
  /\ worker[cleaning] # "running"
  /\ worker' = [worker EXCEPT ![cleaning] =
                  IF @ = "exited" THEN "joined" ELSE @]
  /\ cleaning' = NoSession
  /\ UNCHANGED <<connVars, actorVars, tableVars, stopping, attachVars,
                 lastHolder, reason, queue, phase>>

\* Run returns: the remote end closed, an error, a host key that was refused
\* or the stop request.
WorkerExits(s) ==
  /\ worker[s] = "running"
  /\ worker' = [worker EXCEPT ![s] = "exited"]
  /\ UNCHANGED <<connVars, actorVars, tableVars, stopping, attachVars,
                 lastHolder, reason, cleanVars, phase>>

-----------------------------------------------------------------------------
(* Shutdown: HttpServer::Stop *)

\* app().quit() and the join of the server thread: every handler has returned.
Quit ==
  /\ phase = "serving"
  /\ mutex = NoActor
  /\ \A a \in Actors : stage[a] = "idle"
  /\ phase' = "stopAll"
  /\ UNCHANGED <<connVars, actorVars, tableVars, worker, stopping, attachVars,
                 lastHolder, reason, cleanVars>>

\* One round of the loop of StopAll over resumable_sessions_.
StopAllNext ==
  /\ phase = "stopAll"
  /\ \E t \in issued :
       /\ resumable[t] # NoSession
       /\ RequestStop(resumable[t], "shutdown")
       /\ queue' = Enqueued(resumable[t])
       /\ resumable' = [resumable EXCEPT ![t] = NoSession]
  /\ UNCHANGED <<connVars, actorVars, issued, mutex, worker, attachVars,
                 lastHolder, cleaning, phase>>

\* The map is cleared and the cleanup worker told to stop.
StopAllDone ==
  /\ phase = "stopAll"
  /\ \A t \in Tokens : resumable[t] = NoSession
  /\ phase' = "draining"
  /\ UNCHANGED <<connVars, actorVars, tableVars, worker, stopping, attachVars,
                 lastHolder, reason, cleanVars>>

\* Mutant: the cleanup worker returns as soon as it is told to stop.
StopRequestSeen == TRUE

Drained == queue = <<>>

\* CleanupSessions returns once its queue is empty, and StopAll's join with it.
CleanerExit ==
  /\ phase = "draining"
  /\ cleaning = NoSession
  /\ Drained
  /\ phase' = "stopped"
  /\ UNCHANGED <<connVars, actorVars, tableVars, worker, stopping, attachVars,
                 lastHolder, reason, cleanVars>>

-----------------------------------------------------------------------------
ConnNext(c) ==
  \/ Open(c) \/ ConnectRegister(c) \/ ConnectStart(c)
  \/ ResumeRotate(c) \/ ResumeAttach(c)
  \/ TerminateUnbound(c) \/ TerminateErase(c) \/ TerminateDetach(c)
  \/ Close(c) \/ ExpireSkip(c) \/ ExpireCheck(c)

Next ==
  \/ \E c \in Conns : ConnNext(c)
  \/ \E a \in Actors : QueueStopRequest(a) \/ QueueStopPush(a)
  \/ \E s \in Sessions : WindowElapses(s) \/ WorkerExits(s)
  \/ HttpTerminate \/ ExpireErase
  \/ CleanerTake \/ CleanerJoin
  \/ Quit \/ StopAllNext \/ StopAllDone \/ CleanerExit

Spec == Init /\ [][Next]_vars

\* Event loops and threads that have work run: a handler finishes, a due timer
\* fires, the cleanup worker goes on, and Run ends after a stop request (every
\* wait in it polls the stop token or has a deadline).  Clients promise nothing.
Fairness ==
  /\ \A c \in Conns :
       /\ WF_vars(ConnectStart(c)) /\ WF_vars(ResumeAttach(c))
       /\ WF_vars(TerminateDetach(c))
       /\ WF_vars(ExpireSkip(c) \/ ExpireCheck(c))
  /\ \A a \in Actors : WF_vars(QueueStopRequest(a)) /\ WF_vars(QueueStopPush(a))
  /\ \A s \in Sessions :
       /\ WF_vars(WindowElapses(s))
       /\ WF_vars(stopping[s] /\ WorkerExits(s))
  /\ WF_vars(ExpireErase)
  /\ WF_vars(CleanerTake) /\ WF_vars(CleanerJoin)
  /\ WF_vars(StopAllNext) /\ WF_vars(StopAllDone) /\ WF_vars(CleanerExit)

FairSpec == Spec /\ Fairness

-----------------------------------------------------------------------------
(* Properties *)

Phases == {"serving", "stopAll", "draining", "stopped"}
Stages == {"idle", "start", "attach", "detach", "stop", "push", "erase"}
Causes == {"none", "client", "http", "expiry", "shutdown"}

\* The values every variable of the controller takes.
TypeOK ==
  /\ cstate \in [Conns -> {"new", "open", "closed"}]
  /\ bound \in [Conns -> Sessions \cup {NoSession}]
  /\ held \in [Conns -> Tokens \cup {NoToken}]
  /\ terminating \in [Conns -> BOOLEAN]
  /\ timer \in [Conns -> {"none", "armed", "fired"}]
  /\ stage \in [Actors -> Stages]
  /\ hand \in [Actors -> Sessions \cup {NoSession}]
  /\ expiring \in Conns \cup {NoConn}
  /\ resumable \in [Tokens -> Sessions \cup {NoSession}]
  /\ issued \in SUBSET Tokens
  /\ mutex \in Conns \cup {NoActor}
  /\ worker \in [Sessions -> {"none", "running", "exited", "joined"}]
  /\ stopping \in [Sessions -> BOOLEAN]
  /\ attached \in [Sessions -> Conns \cup {NoConn}]
  /\ detachedBy \in [Sessions -> Conns \cup {NoConn}]
  /\ elapsed \in [Sessions -> BOOLEAN]
  /\ lastHolder \in [Sessions -> Conns \cup {NoConn}]
  /\ reason \in [Sessions -> Causes]
  /\ queue \in Seq(Sessions)
  /\ cleaning \in Sessions \cup {NoSession}
  /\ phase \in Phases

\* Where an actor is inside a handler says what the handler holds, and an
\* armed or fired timer has a session and a token.
StageOK ==
  /\ \A a \in Actors :
       hand[a] \in Sessions <=> stage[a] \in {"detach", "stop", "push"}
  /\ \A c \in Conns :
       /\ stage[c] \in {"start", "attach"} => bound[c] \in Sessions
       /\ timer[c] # "none" => bound[c] \in Sessions /\ held[c] \in Tokens
       /\ stage[c] # "idle" => cstate[c] = "open"
       /\ cstate[c] # "closed" => timer[c] = "none"
       /\ bound[c] \in Sessions <=> held[c] \in Tokens
  /\ stage[MainLoop] = "erase" => expiring \in Conns /\ timer[expiring] = "fired"
  /\ phase # "serving" => mutex = NoActor /\ \A a \in Actors : stage[a] = "idle"

InQueue(s) == \E i \in 1..Len(queue) : queue[i] = s

InHand(s) == \E a \in Actors : hand[a] = s

Owned(s) == Registered(s) \/ InHand(s) \/ InQueue(s) \/ cleaning = s

\* A started worker that nobody has joined is never lost: its session is in
\* resumable_sessions_, in the hands of a handler about to queue it, in the
\* cleanup queue or with the cleanup worker.  Otherwise its last reference
\* could go away on an event loop, which would then join the thread.
WorkersOwned ==
  \A s \in Sessions : worker[s] \in {"running", "exited"} => Owned(s)

\* What keeps WorkersOwned inductive: a session whose worker has not been
\* started is known only to the handler that creates it, which still holds
\* sessions_mutex_; and the map is empty once StopAll has cleared it.
Protected ==
  /\ \A t \in Tokens : resumable[t] # NoSession => t \in issued
  /\ \A s \in Sessions : lastHolder[s] = NoConn =>
       worker[s] = "none" /\ ~Registered(s) /\ \A c \in Conns : bound[c] # s
  /\ \A s \in Sessions : worker[s] = "none" =>
       /\ ~InHand(s) /\ ~InQueue(s) /\ cleaning # s
       /\ \A c \in Conns : bound[c] = s => stage[c] = "start"
       /\ Registered(s) => mutex # NoActor /\ bound[mutex] = s
  /\ \A c \in Conns : stage[c] = "start" =>
       mutex = c /\ resumable[held[c]] = bound[c]
  /\ phase \in {"draining", "stopped"} =>
       \A t \in Tokens : resumable[t] = NoSession
  /\ phase = "stopped" => queue = <<>> /\ cleaning = NoSession

\* A session never has two valid resume tokens: a resume that races another,
\* a terminate or an expiry finds the session once or not at all.
OneTokenPerSession ==
  \A t, u \in Tokens :
    resumable[t] = resumable[u] /\ resumable[t] # NoSession => t = u

\* An expiry timer stops a session only if the connection that received its
\* last resume token is gone: a client that was told "resumed" never loses the
\* session to a timer armed before.
ExpiredMeansAbandoned ==
  \A s \in Sessions :
    reason[s] = "expiry" => cstate[lastHolder[s]] = "closed"

\* When StopAll returns, every worker ever started has been joined: the plugin
\* service and the configuration store may be destroyed.
ShutdownJoinsAll ==
  phase = "stopped" => \A s \in Sessions : worker[s] \in {"none", "joined"}

\* A session stays attached to an open connection until that connection closes
\* or terminates it, or another one takes the session over: the late close of
\* a superseded connection does not detach it.
SupersededCloseIsHarmless ==
  [][\A s \in Sessions, c \in Conns :
       /\ attached[s] = c
       /\ cstate'[c] = "open"
       /\ stage[c] = "idle"
       => attached'[s] # NoConn]_vars

\* Whoever asks a session to stop, its worker is joined in the end, even if
\* the same session was queued twice or the server shuts down meanwhile.
StopCompletes ==
  \A s \in Sessions : stopping[s] ~> worker[s] = "joined"

\* The connection that drew the last token of a session has detached from it,
\* and no older resume is still about to attach.
AbandonedBy(s, c) ==
  /\ detachedBy[s] = c
  /\ lastHolder[s] = c
  /\ \A d \in Conns : ~(stage[d] = "attach" /\ bound[d] = s)

\* An abandoned session is asked to stop after its window, unless a client
\* resumes it first or the server shuts down.
AbandonedIsStopped ==
  \A s \in Sessions, c \in Conns :
    AbandonedBy(s, c) ~> (stopping[s] \/ lastHolder[s] # c \/ phase # "serving")

NoClient(s) == \A c \in Conns : cstate[c] = "open" => bound[c] # s

\* "Detached SSH session expired after 90 seconds; stopping session": a session
\* that no open connection is bound to does not run on for ever.
DetachedSessionIsStopped ==
  \A s \in Sessions :
    (worker[s] = "running" /\ NoClient(s))
      ~> (worker[s] # "running" \/ ~NoClient(s) \/ phase # "serving")

=============================================================================
