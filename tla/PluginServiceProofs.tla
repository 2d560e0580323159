-------------------------- MODULE PluginServiceProofs --------------------------
(* Theorems about the plugin service, for every number of sessions, callers,   *)
(* requests and outputs, and every length of the queue.                        *)
EXTENDS PluginService, TLAPS

-----------------------------------------------------------------------------
(* The inductive invariant.                                                    *)

FileStates == {"enabled", "disabled", "broken", "absent"}

Typed ==
  /\ TypeOK
  /\ queue \in Seq(Events) /\ jobs \in Seq(Sessions)
  /\ files \in [count : Nat, state : FileStates]
  /\ loaded \in [count : Nat, state : FileStates]
  /\ version \in [Callers -> Nat]
  /\ generation \in Nat /\ (worker # "loading" => generation # 0)
  /\ worker \in {"loaded", "opening"} => current \in ReloadEvents
  /\ queueSet => accepting /\ stopper = "idle"

(* What is in the queue, or was just taken from it.                            *)
Queued == {queue[i] : i \in 1 .. Len(queue)}
InLine == Queued \cup {current}

(* How far the thread of a terminal has come, when something is known of its   *)
(* session elsewhere.                                                          *)
Traced ==
  /\ opening # {} => worker = "opening"
  /\ \A s \in Sessions :
       /\ s \in registered => owner[s] \in {"inserted", "open"}
       /\ source[s] = "found" => owner[s] \notin {"new", "inserted"}
       /\ s \notin Shared /\ owner[s] \in {"erased", "gone"} => source[s] = "idle"
       /\ s \in closed => owner[s] = "gone"
       /\ SessionEvent("output", s) \in InLine => owner[s] \notin {"new", "inserted"}
       /\ SessionEvent("close", s) \in InLine => owner[s] = "gone"

(* The runtime has been told of s, or will be before it is told anything that  *)
(* stands behind the first n events.                                           *)
KnownNow(s) ==
  \/ heard[s] = "open"
  \/ current = SessionEvent("open", s)
  \/ worker \in {"dispatching", "loaded"} /\ current \in ReloadEvents
  \/ s \in opening
  \/ worker # "loading" /\ ~Running
Known(s, n) == KnownNow(s) \/ \E i \in 1 .. n : queue[i] = SessionEvent("open", s)

Announced ==
  /\ AnnouncedFirst
  /\ \A s \in registered :
       /\ owner[s] = "open" /\ queueSet => Known(s, Len(queue))
       /\ \A n \in 1 .. Len(queue) :
            queue[n] = SessionEvent("output", s) => Known(s, n)

(* Where a session's end is: 0 is the worker's hand, when it handles the Close *)
(* or has done so.                                                             *)
EndAt(s, n) ==
  \/ n = 0 /\ (current = SessionEvent("close", s) \/ s \in closed)
  \/ n \in 1 .. Len(queue) /\ queue[n] = SessionEvent("close", s)

Bounds(s) == {SessionEvent("open", s), SessionEvent("close", s)}

(* Behind place n, s is neither opened nor closed again, and of its output     *)
(* there is one piece at most, which is of a serial port.                      *)
Over(s, n) ==
  /\ \A k \in 1 .. Len(queue) : k > n => queue[k] \notin Bounds(s)
  /\ \A i, k \in OutputOf(s) : i >= n /\ k >= n => s \in Shared /\ i = k

Closing ==
  \A s \in Sessions :
    /\ \A n \in 0 .. Len(queue) : EndAt(s, n) => Over(s, n)
    /\ s \in closed => s \notin opening /\ current \notin Bounds(s)

(* An answer and a promise with the same number belong together.               *)
Meet(e, p) == e.id = p.id => e.session = p.session /\ e.generation = p.generation

Numbered ==
  /\ \A p \in pending \cup flight : p.id <= nextId
  /\ \A e \in InLine : e \in HttpEvents =>
       e.id <= nextId /\ \A p \in pending : Meet(e, p)
  /\ \A e \in flight, p \in pending : Meet(e, p)

Reload(c) == [kind |-> "reload", by |-> c]

(* What a caller waits for.                                                    *)
Applied ==
  /\ SaveTakesEffect
  /\ loaded.count <= files.count
  /\ \A c \in Callers :
       /\ version[c] <= files.count
       /\ Reload(c) \in InLine => call[c] \notin {"idle", "reload"}
       /\ worker \in {"loaded", "opening"} /\ current = Reload(c) =>
            loaded.count >= version[c]

IInv == Typed /\ Traced /\ Announced /\ Closing /\ Numbered /\ SlotsAreFreed /\ Applied

-----------------------------------------------------------------------------
(* The queue.                                                                  *)

(* An event at the end of the queue.                                           *)
LEMMA Appended ==
  ASSUME NEW q \in Seq(Events), NEW e \in Events
  PROVE  /\ Append(q, e) \in Seq(Events)
         /\ Len(Append(q, e)) = Len(q) + 1
         /\ Append(q, e)[Len(q) + 1] = e
         /\ \A i \in 1 .. Len(q) : Append(q, e)[i] = q[i]
OBVIOUS

(* An event taken from the front of the queue.                                 *)
LEMMA Taken ==
  ASSUME NEW q \in Seq(Events), q # <<>>
  PROVE  /\ Head(q) \in Events /\ Head(q) = q[1]
         /\ Tail(q) \in Seq(Events)
         /\ Len(q) \in Nat \ {0}
         /\ Len(Tail(q)) = Len(q) - 1
         /\ \A i \in 1 .. Len(q) - 1 : Tail(q)[i] = q[i + 1]
OBVIOUS

(* A notification wakes a worker that waits, and disturbs no other.            *)
WorkerKept == worker' = worker \/ (worker = "waiting" /\ worker' = "testing")

(* An event is put at the end, or refused.                                     *)
Received(e) ==
  \/ /\ queueSet /\ accepting
     /\ queue' = Append(queue, e) /\ Queued' = Queued \cup {e}
  \/ /\ ~(queueSet /\ accepting)
     /\ UNCHANGED queue /\ Queued' = Queued

LEMMA PushLine ==
  ASSUME queue \in Seq(Events), NEW e \in Events, Push(e)
  PROVE  /\ queue' = Append(queue, e) /\ queue' \in Seq(Events)
         /\ Queued' = Queued \cup {e}
         /\ WorkerKept /\ UNCHANGED <<queueSet, accepting>>
<1>1. queue' = Append(queue, e) /\ UNCHANGED <<queueSet, accepting>> /\ WorkerKept
  BY DEF Push, Woken, WorkerKept
<1>2. /\ queue' \in Seq(Events)
      /\ Len(queue') = Len(queue) + 1
      /\ queue'[Len(queue) + 1] = e
      /\ \A i \in 1 .. Len(queue) : queue'[i] = queue[i]
  BY <1>1, Appended
<1>3. Len(queue) \in Nat
  OBVIOUS
<1>4. ASSUME NEW x \in Queued' PROVE x \in Queued \cup {e}
  <2>1. PICK i \in 1 .. Len(queue') : x = queue'[i]
    BY <1>4 DEF Queued
  <2>2. i \in 1 .. Len(queue) \/ i = Len(queue) + 1
    BY <1>2, <1>3, <2>1
  <2> QED
    BY <1>2, <2>1, <2>2 DEF Queued
<1>5. ASSUME NEW x \in Queued \cup {e} PROVE x \in Queued'
  <2>1. CASE x = e
    <3>1. Len(queue) + 1 \in 1 .. Len(queue')
      BY <1>2, <1>3
    <3> QED
      BY <1>2, <2>1, <3>1 DEF Queued
  <2>2. CASE x \in Queued
    <3>1. PICK i \in 1 .. Len(queue) : x = queue[i]
      BY <2>2 DEF Queued
    <3>2. i \in 1 .. Len(queue') /\ queue'[i] = x
      BY <1>2, <1>3, <3>1
    <3> QED
      BY <3>2 DEF Queued
  <2> QED
    BY <1>5, <2>1, <2>2
<1> QED
  BY <1>1, <1>2, <1>4, <1>5

LEMMA PostLine ==
  ASSUME queue \in Seq(Events), NEW e \in Events, Post(e)
  PROVE  /\ queue' \in Seq(Events) /\ Received(e)
         /\ WorkerKept /\ UNCHANGED <<queueSet, accepting>>
<1>1. CASE queueSet /\ accepting
  BY <1>1, PushLine DEF Post, Received
<1>2. CASE ~(queueSet /\ accepting)
  BY <1>2 DEF Post, Received, queueVars, Queued, WorkerKept
<1> QED
  BY <1>1, <1>2

-----------------------------------------------------------------------------
(* JavaScript.                                                                 *)

RequestOf(s) == [id |-> nextId + 1, session |-> s, generation |-> generation]

(* What a handler or a continuation may change besides its jobs.               *)
Asked(s, kept) ==
  \/ pending' = kept /\ UNCHANGED <<flight, nextId>>
  \/ pending' = kept /\ flight' = flight /\ nextId' = nextId + 1 /\ nextId < MaxHttp
  \/ /\ pending' = kept \cup {RequestOf(s)} /\ flight' = flight \cup {RequestOf(s)}
     /\ nextId' = nextId + 1 /\ nextId < MaxHttp

LEMMA ScriptAsks ==
  ASSUME NEW s \in Sessions, NEW kept, JavaScript(s, kept)
  PROVE  Asked(s, kept)
BY DEF JavaScript, StartHttp, Asked, RequestOf, NextHttpRequestId

(* The continuations left are at most MaxJobs.                                 *)
LEMMA ScriptJobs ==
  ASSUME Typed, NEW s \in Sessions, NEW kept, JavaScript(s, kept)
  PROVE  jobs' \in Seq(Sessions) /\ Len(jobs') <= MaxJobs
<1>1. PICK n \in 0 .. MaxJobs + 1 : DrainJobs(jobs \o [i \in 1 .. n |-> s], s)
  BY DEF JavaScript
<1> DEFINE todo == jobs \o [i \in 1 .. n |-> s]
<1>2. MaxJobs \in Nat /\ n \in Nat
  BY <1>1, ConstantsAssumption
<1>3. jobs \in Seq(Sessions)
  BY DEF Typed
<1>4. [i \in 1 .. n |-> s] \in Seq(Sessions)
  BY <1>2
<1>5. todo \in Seq(Sessions)
  BY <1>3, <1>4
<1> HIDE DEF todo
<1>6. PICK m \in 0 .. Len(todo) :
        Len(todo) - m <= MaxJobs /\ jobs' = SubSeq(todo, m + 1, Len(todo))
  BY <1>1 DEF DrainJobs, todo
<1>7. m \in Nat /\ Len(todo) \in Nat /\ m <= Len(todo)
  BY <1>5, <1>6
<1>8. jobs' \in Seq(Sessions)
  BY <1>5, <1>6, <1>7
<1>9. Len(jobs') = Len(todo) - m
  BY <1>5, <1>6, <1>7
<1> QED
  BY <1>6, <1>8, <1>9

LEMMA AskedTyped ==
  ASSUME Typed, worker # "loading", NEW s \in Sessions, NEW kept \in SUBSET pending,
         Asked(s, kept)
  PROVE  pending' \subseteq Requests /\ flight' \subseteq Requests /\ nextId' \in 0 .. MaxHttp
<1>1. MaxHttp \in Nat /\ nextId \in 0 .. MaxHttp /\ generation \in Nat \ {0}
  BY ConstantsAssumption DEF Typed, TypeOK
<1>2. pending \subseteq Requests /\ flight \subseteq Requests
  BY DEF Typed, TypeOK
<1>3. nextId < MaxHttp => RequestOf(s) \in Requests /\ nextId + 1 \in 0 .. MaxHttp
  BY <1>1 DEF RequestOf, Requests
<1> QED
  BY <1>1, <1>2, <1>3 DEF Asked

(* A handler that was called, or there is no plugin or no handler.             *)
LEMMA Handled ==
  ASSUME Typed, worker # "loading", NEW s \in Sessions,
         NEW what \in {"open", "output", "close"}, Handle(what, s)
  PROVE  /\ Asked(s, pending)
         /\ pending' \subseteq Requests /\ flight' \subseteq Requests
         /\ nextId' \in 0 .. MaxHttp
         /\ jobs' \in Seq(Sessions) /\ Len(jobs') <= MaxJobs
         /\ heard' = IF Running /\ what # "output"
                       THEN [heard EXCEPT ![s] = what] ELSE heard
<1>1. heard \in [Sessions -> {"nothing", "open", "close"}]
  BY DEF Typed, TypeOK
<1>2. heard' = IF Running /\ what # "output" THEN [heard EXCEPT ![s] = what] ELSE heard
  BY <1>1 DEF Handle, Told
<1>3. CASE JavaScript(s, pending)
  BY <1>2, <1>3, ScriptAsks, ScriptJobs, AskedTyped
<1>4. CASE NoJavaScript
  <2>1. Asked(s, pending) /\ jobs' = jobs
    BY <1>4 DEF NoJavaScript, Asked
  <2> QED
    BY <1>2, <2>1, AskedTyped DEF Typed, TypeOK
<1> QED
  BY <1>3, <1>4 DEF Handle

-----------------------------------------------------------------------------
(* Types.                                                                      *)

(* The kinds of events are different, and an event says of its kind what it    *)
(* carries.                                                                    *)
LEMMA Kinds ==
  /\ \A e \in Events :
       /\ e.kind \in {"open", "output", "close"} => e \in SessionEvents /\ e.session \in Sessions
       /\ e.kind = "http" => e \in HttpEvents /\ e.session \in Sessions
       /\ e.kind = "reload" => e \in ReloadEvents /\ e.by \in Callers
       /\ e.kind \in {"open", "output", "close", "http", "reload"}
  /\ \A e \in SessionEvents : e \in Events /\ e.kind \in {"open", "output", "close"}
                                 /\ e = SessionEvent(e.kind, e.session)
  /\ \A e \in HttpEvents : e \in Events /\ e.kind = "http"
  /\ \A e \in ReloadEvents : e \in Events /\ e.kind = "reload" /\ e = Reload(e.by)
BY DEF Events, SessionEvents, HttpEvents, ReloadEvents, SessionEvent, Reload

LEMMA MadeEvents ==
  /\ \A s \in Sessions, what \in {"open", "output", "close"} :
       /\ SessionEvent(what, s) \in SessionEvents
       /\ SessionEvent(what, s).kind = what /\ SessionEvent(what, s).session = s
  /\ \A c \in Callers : Reload(c) \in ReloadEvents /\ Reload(c).by = c
BY DEF SessionEvents, ReloadEvents, SessionEvent, Reload

LEMMA TypedInit == Init => Typed
<1> SUFFICES ASSUME Init PROVE Typed
  OBVIOUS
<1>1. MaxHttp \in Nat /\ MaxOutputs \in Nat /\ MaxJobs \in Nat
  BY ConstantsAssumption
<1>2. queue = <<>> /\ jobs = <<>> /\ current = None /\ worker = "loading"
  BY DEF Init
<1>3. queue \in Seq(Events) /\ jobs \in Seq(Sessions) /\ Len(jobs) = 0
  BY <1>2
<1>4. \A i \in DOMAIN queue : queue[i] \in Events
  BY <1>2
<1>5. TypeOK
  <2>1. /\ outputs \in 0 .. MaxOutputs /\ nextId \in 0 .. MaxHttp /\ Len(jobs) <= MaxJobs
    BY <1>1, <1>2, <1>3 DEF Init
  <2>2. /\ owner \in [Sessions -> {"new", "inserted", "open", "erased", "gone"}]
        /\ source \in [Sessions -> {"idle", "found"}]
        /\ heard \in [Sessions -> {"nothing", "open", "close"}]
        /\ call \in [Callers -> {"idle", "reload", "waiting", "ok", "error"}]
    BY DEF Init
  <2>3. worker \in WorkerStates /\ worker \notin {"dispatching", "loaded", "opening"}
    BY <1>2 DEF WorkerStates
  <2> QED
    BY <1>2, <1>4, <2>1, <2>2, <2>3 DEF Init, TypeOK
<1> QED
  BY <1>2, <1>3, <1>5 DEF Init, Typed, FileStates

(* Every step keeps the types.                                                 *)
LEMMA TypedStep ==
  ASSUME Typed, [Next]_vars
  PROVE  Typed'
<1> USE ConstantsAssumption DEF Typed, TypeOK, WorkerStates
<1>1. ASSUME NEW s \in Sessions, Register(s) \/ FindForOutput(s) \/ Unregister(s)
      PROVE  Typed'
  <2> USE DEF queueVars, runtimeVars, loadVars, callVars, stopVars
  <2>1. CASE Register(s)
    BY <2>1 DEF Register
  <2>2. CASE FindForOutput(s)
    BY <2>2 DEF FindForOutput
  <2>3. CASE Unregister(s)
    BY <2>3 DEF Unregister, WithoutSession
  <2> QED
    BY <1>1, <2>1, <2>2, <2>3
<1>2. ASSUME NEW s \in Sessions, PostOpen(s) \/ PostOutput(s) \/ PostClose(s)
      PROVE  Typed'
  <2>1. PICK what \in {"open", "output", "close"} : Post(SessionEvent(what, s))
    BY <1>2 DEF PostOpen, PostOutput, PostClose
  <2>2. SessionEvent(what, s) \in Events
    BY MadeEvents, Kinds
  <2>3. /\ queue' \in Seq(Events) /\ WorkerKept /\ UNCHANGED <<queueSet, accepting>>
    BY <2>1, <2>2, PostLine
  <2> USE <2>3 DEF runtimeVars, loadVars, callVars, stopVars, WorkerKept
  <2>4. CASE PostOpen(s)
    BY <2>4 DEF PostOpen
  <2>5. CASE PostOutput(s)
    BY <2>5 DEF PostOutput
  <2>6. CASE PostClose(s)
    BY <2>6 DEF PostClose
  <2> QED
    BY <1>2, <2>4, <2>5, <2>6
<1>3. ASSUME NEW c \in Callers, SavePlugin(c) \/ SaveFails(c) \/ DeletePlugin(c) \/ ReloadRequest(c)
      PROVE  Typed'
  <2>1. /\ files' \in [count : Nat, state : FileStates] /\ version' \in [Callers -> Nat]
    <3>1. CASE ReloadRequest(c)
      BY <3>1 DEF ReloadRequest
    <3>2. CASE ~ReloadRequest(c)
      <4>1. PICK state \in FileStates : Changed(c, state)
        BY <1>3, <3>2 DEF SavePlugin, SaveFails, DeletePlugin, FileStates
      <4> QED
        BY <4>1 DEF Changed
    <3> QED
      BY <3>1, <3>2
  <2>2. UNCHANGED <<sessionVars, queueVars, worker, current, opening, runtimeVars, loadVars,
                    closed, stopVars>>
    BY <1>3 DEF SavePlugin, SaveFails, DeletePlugin, ReloadRequest
  <2>3. call' \in [Callers -> {"idle", "reload", "waiting", "ok", "error"}]
    BY ZenonT(30), <1>3 DEF SavePlugin, SaveFails, DeletePlugin, ReloadRequest
  <2> QED
    BY <2>1, <2>2, <2>3 DEF sessionVars, queueVars, runtimeVars, loadVars, stopVars
<1>4. ASSUME NEW c \in Callers, PostReload(c)
      PROVE  Typed'
  <2>1. Post(Reload(c)) /\ Reload(c) \in Events
    BY <1>4, MadeEvents, Kinds DEF PostReload, Reload
  <2>2. /\ queue' \in Seq(Events) /\ WorkerKept /\ UNCHANGED <<queueSet, accepting>>
    BY <2>1, PostLine
  <2> QED
    BY <1>4, <2>2 DEF PostReload, sessionVars, runtimeVars, loadVars, stopVars, WorkerKept
<1>5. ASSUME NEW c \in Callers, ReloadTimeout(c)
      PROVE  Typed'
  BY <1>5 DEF ReloadTimeout, sessionVars, queueVars, runtimeVars, loadVars, stopVars
<1>6. ASSUME NEW r \in flight, HttpReturns(r)
      PROVE  Typed'
  <2> DEFINE e == [kind |-> "http", id |-> r.id, session |-> r.session,
                   generation |-> r.generation]
  <2>1. e \in Events
    BY DEF Requests, Events, HttpEvents
  <2>2. queue' \in Seq(Events) /\ WorkerKept /\ UNCHANGED <<queueSet, accepting>>
    <3>1. CASE accepting
      BY <1>6, <2>1, <3>1, PushLine DEF HttpReturns
    <3>2. CASE ~accepting
      BY <1>6, <3>2 DEF HttpReturns, queueVars, WorkerKept
    <3> QED
      BY <3>1, <3>2
  <2> QED
    BY <1>6, <2>2 DEF HttpReturns, sessionVars, loadVars, callVars, stopVars, WorkerKept
<1>7. CASE FirstLoad \/ FetchQueue \/ Sleep
  BY <1>7 DEF FirstLoad, FetchQueue, Sleep, LoadPlugins, sessionVars, queueVars, runtimeVars,
              loadVars, callVars, stopVars
<1>8. CASE Test
  <2>1. CASE worker' = "dispatching"
    <3>1. /\ queue # <<>> /\ current' = Head(queue) /\ queue' = Tail(queue)
      BY <1>8, <2>1 DEF Test
    <3>2. current' \in Events /\ queue' \in Seq(Events)
      BY <3>1, Taken
    <3> QED
      BY <1>8, <2>1, <3>2, NoneAssumption
         DEF Test, sessionVars, runtimeVars, loadVars, callVars, stopVars
  <2>2. CASE worker' # "dispatching"
    BY <1>8, <2>2 DEF Test, sessionVars, runtimeVars, loadVars, callVars, stopVars
  <2> QED
    BY <2>1, <2>2
<1>9. CASE Dispatch
  <2>1. /\ current.kind \in {"open", "output", "close"} /\ current.session \in Sessions
        /\ Handle(current.kind, current.session)
    BY <1>9, Kinds, NoneAssumption DEF Dispatch
  <2>2. worker # "loading"
    BY <1>9 DEF Dispatch
  <2>3. /\ pending' \subseteq Requests /\ flight' \subseteq Requests
        /\ nextId' \in 0 .. MaxHttp
        /\ jobs' \in Seq(Sessions) /\ Len(jobs') <= MaxJobs
        /\ heard' = IF Running /\ current.kind # "output"
                      THEN [heard EXCEPT ![current.session] = current.kind] ELSE heard
    BY <2>1, <2>2, Handled
  <2>4. heard' \in [Sessions -> {"nothing", "open", "close"}]
    BY <2>1, <2>3
  <2>5. closed' \subseteq Sessions
    BY <1>9, <2>1 DEF Dispatch
  <2> QED
    BY <1>9, <2>3, <2>4, <2>5
       DEF Dispatch, Finished, sessionVars, queueVars, loadVars, callVars, stopVars
<1>10. CASE CompleteHttp
  <2>1. worker = "dispatching"
    BY <1>10 DEF CompleteHttp
  <2>2. /\ pending' \subseteq Requests /\ flight' \subseteq Requests
        /\ nextId' \in 0 .. MaxHttp
        /\ jobs' \in Seq(Sessions) /\ Len(jobs') <= MaxJobs
    <3>1. CASE Waiting(current.id) = {}
      BY <1>10, <3>1 DEF CompleteHttp, NoJavaScript
    <3>2. CASE Waiting(current.id) # {}
      <4>1. PICK p \in Waiting(current.id) : JavaScript(p.session, StillWaiting(current.id))
        BY <1>10, <3>2 DEF CompleteHttp
      <4>2. p.session \in Sessions
        BY <4>1 DEF Waiting, Requests
      <4>3. StillWaiting(current.id) \in SUBSET pending
        BY DEF StillWaiting
      <4> QED
        BY <2>1, <4>1, <4>2, <4>3, ScriptAsks, ScriptJobs, AskedTyped
    <3> QED
      BY <3>1, <3>2
  <2> QED
    BY <1>10, <2>2 DEF CompleteHttp, Finished, sessionVars, queueVars, loadVars, callVars, stopVars
<1>11. CASE ReloadLoad
  <2>1. current \in ReloadEvents
    BY <1>11, Kinds, NoneAssumption DEF ReloadLoad
  <2> QED
    BY <1>11, <2>1 DEF ReloadLoad, LoadPlugins, CounterAfterReload, sessionVars, queueVars,
                        callVars, stopVars
<1>12. CASE ReloadCopy
  BY <1>12 DEF ReloadCopy, SessionsToAnnounce, sessionVars, queueVars, runtimeVars, loadVars,
               callVars, stopVars
<1>13. CASE ReloadDone
  <2>1. call' \in [Callers -> {"idle", "reload", "waiting", "ok", "error"}]
    BY <1>13 DEF ReloadDone
  <2> QED
    BY <1>13, <2>1 DEF ReloadDone, Finished, sessionVars, queueVars, runtimeVars, loadVars, stopVars
<1>14. ASSUME NEW s \in Sessions, ReloadOpen(s)
       PROVE  Typed'
  <2>1. Handle("open", s) /\ worker = "opening"
    BY <1>14 DEF ReloadOpen
  <2>2. /\ pending' \subseteq Requests /\ flight' \subseteq Requests
        /\ nextId' \in 0 .. MaxHttp
        /\ jobs' \in Seq(Sessions) /\ Len(jobs') <= MaxJobs
        /\ heard' \in {heard, [heard EXCEPT ![s] = "open"]}
    BY <2>1, Handled
  <2> QED
    BY <1>14, <2>2 DEF ReloadOpen, sessionVars, queueVars, loadVars, callVars, stopVars
<1>15. CASE StopTakesQueue \/ StopRequests \/ StopJoins
  <2> USE DEF sessionVars, queueVars, runtimeVars, loadVars, callVars
  <2>1. CASE StopTakesQueue
    BY <2>1 DEF StopTakesQueue
  <2>2. CASE StopRequests
    BY <2>2 DEF StopRequests
  <2>3. CASE StopJoins
    BY <2>3 DEF StopJoins
  <2> QED
    BY <1>15, <2>1, <2>2, <2>3
<1>16. CASE StopNotifies
  BY <1>16 DEF StopNotifies, Woken, sessionVars, queueVars, runtimeVars, loadVars, callVars
<1>17. CASE StopClears
  <2>1. call' \in [Callers -> {"idle", "reload", "waiting", "ok", "error"}]
    BY <1>17 DEF StopClears
  <2>2. queue' = <<>> /\ stopper' = "request" /\ accepting' = FALSE /\ stopper = "clear"
    BY <1>17 DEF StopClears
  <2>3. queue' \in Seq(Events) /\ \A i \in DOMAIN queue' : queue'[i] \in Events
    BY <2>2
  <2> QED
    BY <1>17, <2>1, <2>2, <2>3 DEF StopClears, sessionVars, runtimeVars, loadVars
<1>18. CASE UNCHANGED vars
  BY <1>18 DEF vars, sessionVars, queueVars, runtimeVars, loadVars, callVars, stopVars
<1> QED
  BY <1>1, <1>2, <1>3, <1>4, <1>5, <1>6, <1>7, <1>8, <1>9, <1>10, <1>11, <1>12, <1>13, <1>14,
     <1>15, <1>16, <1>17, <1>18 DEF Next, Terminal, Caller, Worker, Stop

-----------------------------------------------------------------------------
(* Who puts events into the queue.                                             *)

AnswerTo(r) ==
  [kind |-> "http", id |-> r.id, session |-> r.session, generation |-> r.generation]

Arrives(e) ==
  \/ /\ queueSet /\ accepting
     /\ \/ \E s \in Sessions :
             \/ PostOpen(s) /\ e = SessionEvent("open", s)
             \/ PostOutput(s) /\ e = SessionEvent("output", s)
             \/ PostClose(s) /\ e = SessionEvent("close", s)
        \/ \E c \in Callers : PostReload(c) /\ e = Reload(c)
  \/ accepting /\ \E r \in flight : HttpReturns(r) /\ e = AnswerTo(r)

(* What a step may do to the line of the events.                               *)
Rests == UNCHANGED queue /\ current' \in {current, None}
Grows(e) == /\ queue' = Append(queue, e)
            /\ UNCHANGED <<current, closed, opening, heard, loaded>> /\ WorkerKept
Moves == /\ Test /\ queue # <<>> /\ queue' = Tail(queue) /\ current' = Head(queue)
         /\ current = None /\ UNCHANGED <<closed, opening>>
Empties == /\ queue' = <<>> /\ ~accepting' /\ ~queueSet'
           /\ UNCHANGED <<current, closed, opening>>

LEMMA LineMoves ==
  ASSUME Typed, [Next]_vars
  PROVE  \/ Rests
         \/ \E e \in Events : Arrives(e) /\ Grows(e)
         \/ Moves
         \/ Empties
<1> DEFINE Claim == Rests \/ (\E e \in Events : Arrives(e) /\ Grows(e)) \/ Moves \/ Empties
<1>0. queue \in Seq(Events)
  BY DEF Typed
<1>1. ASSUME NEW s \in Sessions, PostOpen(s) \/ PostOutput(s) \/ PostClose(s)
      PROVE  Claim
  <2>1. UNCHANGED <<current, closed, opening, heard, loaded>>
    BY <1>1 DEF PostOpen, PostOutput, PostClose, runtimeVars, loadVars
  <2>2. PICK what \in {"open", "output", "close"} :
          /\ Post(SessionEvent(what, s))
          /\ what = "open" => PostOpen(s)
          /\ what = "output" => PostOutput(s)
          /\ what = "close" => PostClose(s)
    BY <1>1 DEF PostOpen, PostOutput, PostClose
  <2>3. SessionEvent(what, s) \in Events
    BY MadeEvents, Kinds
  <2>4. Received(SessionEvent(what, s)) /\ WorkerKept
    BY <1>0, <2>2, <2>3, PostLine
  <2>5. CASE queueSet /\ accepting
    <3>1. Grows(SessionEvent(what, s))
      BY <2>1, <2>4, <2>5 DEF Received, Grows
    <3>2. Arrives(SessionEvent(what, s))
      BY <2>2, <2>5 DEF Arrives
    <3> QED
      BY <2>3, <3>1, <3>2
  <2>6. CASE ~(queueSet /\ accepting)
    BY <2>1, <2>4, <2>6 DEF Received, Rests
  <2> QED
    BY <2>5, <2>6
<1>2. ASSUME NEW c \in Callers, PostReload(c)
      PROVE  Claim
  <2>1. /\ Post(Reload(c)) /\ Reload(c) \in Events
        /\ UNCHANGED <<current, closed, opening, heard, loaded>>
    BY <1>2, MadeEvents, Kinds DEF PostReload, Reload, runtimeVars, loadVars
  <2>2. Received(Reload(c)) /\ WorkerKept
    BY <1>0, <2>1, PostLine
  <2>3. CASE queueSet /\ accepting
    <3>1. Grows(Reload(c)) /\ Arrives(Reload(c))
      BY <1>2, <2>1, <2>2, <2>3 DEF Received, Grows, Arrives
    <3> QED
      BY <2>1, <3>1
  <2>4. CASE ~(queueSet /\ accepting)
    BY <2>1, <2>2, <2>4 DEF Received, Rests
  <2> QED
    BY <2>3, <2>4
<1>3. ASSUME NEW r \in flight, HttpReturns(r)
      PROVE  Claim
  <2>1. AnswerTo(r) \in Events
    BY DEF Typed, TypeOK, Requests, Events, HttpEvents, AnswerTo
  <2>2. UNCHANGED <<current, closed, opening, heard, loaded>>
    BY <1>3 DEF HttpReturns, loadVars
  <2>3. CASE accepting
    <3>1. queue' = Append(queue, AnswerTo(r)) /\ WorkerKept
      BY <1>0, <1>3, <2>1, <2>3, PushLine DEF HttpReturns, AnswerTo
    <3>2. Arrives(AnswerTo(r)) /\ Grows(AnswerTo(r))
      BY <1>3, <2>2, <2>3, <3>1 DEF Arrives, Grows
    <3> QED
      BY <2>1, <3>2
  <2>4. CASE ~accepting
    BY <1>3, <2>2, <2>4 DEF HttpReturns, queueVars, Rests
  <2> QED
    BY <2>3, <2>4
<1>4. CASE Test
  <2>1. CASE worker' = "dispatching"
    <3>1. Moves
      BY <1>4, <2>1 DEF Test, Moves, Typed, TypeOK
    <3> QED
      BY <3>1
  <2>2. CASE worker' # "dispatching"
    BY <1>4, <2>2 DEF Test, Rests
  <2> QED
    BY <2>1, <2>2
<1>5. CASE StopClears
  BY <1>5 DEF StopClears, Empties, Typed
<1>6. ASSUME NEW s \in Sessions, Register(s) \/ FindForOutput(s) \/ Unregister(s) \/ ReloadOpen(s)
      PROVE  Rests
  BY <1>6 DEF Register, FindForOutput, Unregister, ReloadOpen, queueVars, Rests
<1>7. ASSUME NEW c \in Callers, SavePlugin(c) \/ SaveFails(c) \/ DeletePlugin(c) \/ ReloadRequest(c)
                                 \/ ReloadTimeout(c)
      PROVE  Rests
  BY <1>7 DEF SavePlugin, SaveFails, DeletePlugin, ReloadRequest, ReloadTimeout, queueVars, Rests
<1>8. ASSUME FirstLoad \/ FetchQueue \/ Sleep \/ Dispatch \/ CompleteHttp \/ ReloadLoad \/ ReloadCopy
               \/ ReloadDone
      PROVE  Rests
  BY <1>8 DEF FirstLoad, FetchQueue, Sleep, Dispatch, CompleteHttp, ReloadLoad, ReloadCopy,
              ReloadDone, Finished, queueVars, Rests
<1>9. ASSUME StopTakesQueue \/ StopRequests \/ StopNotifies \/ StopJoins \/ UNCHANGED vars
      PROVE  Rests
  BY <1>9 DEF StopTakesQueue, StopRequests, StopNotifies, StopJoins, queueVars, vars, Rests
<1> QED
  BY <1>1, <1>2, <1>3, <1>4, <1>5, <1>6, <1>7, <1>8, <1>9
     DEF Next, Terminal, Caller, Worker, Stop

(* Nothing is in the line that was not there, or arrives.                      *)
LEMMA Arrivals ==
  ASSUME Typed, [Next]_vars, NEW e \in Events, e \in InLine', e \notin InLine
  PROVE  Arrives(e)
<1> USE DEF InLine
<1>0. queue \in Seq(Events)
  BY DEF Typed
<1>1. CASE Rests
  BY <1>1, NoneAssumption DEF Rests, Queued
<1>2. ASSUME NEW x \in Events, Arrives(x), Grows(x)
      PROVE  Arrives(e)
  <2>1. /\ Len(queue') = Len(queue) + 1 /\ queue'[Len(queue) + 1] = x
        /\ \A i \in 1 .. Len(queue) : queue'[i] = queue[i]
        /\ Len(queue) \in Nat
    BY <1>0, <1>2, Appended DEF Grows
  <2>2. e \in Queued'
    BY <1>2 DEF Grows
  <2>3. PICK i \in 1 .. Len(queue') : e = queue'[i]
    BY <2>2 DEF Queued
  <2>4. i = Len(queue) + 1
    BY <2>1, <2>3 DEF Queued
  <2> QED
    BY <1>2, <2>1, <2>3, <2>4
<1>3. CASE Moves
  <2>1. /\ Head(queue) = queue[1] /\ Len(queue) \in Nat \ {0}
        /\ Len(queue') = Len(queue) - 1
        /\ \A i \in 1 .. Len(queue) - 1 : queue'[i] = queue[i + 1]
    BY <1>0, <1>3, Taken DEF Moves
  <2>2. current' \in Queued
    BY <1>3, <2>1 DEF Queued, Moves
  <2>3. Queued' \subseteq Queued
    BY <2>1 DEF Queued
  <2> QED
    BY <2>2, <2>3
<1>4. CASE Empties
  BY <1>4 DEF Empties, Queued
<1> QED
  BY <1>1, <1>2, <1>3, <1>4, LineMoves

-----------------------------------------------------------------------------
(* How far the threads of the terminals are.                                   *)

(* The steps that are not those of a terminal.                                 *)
LEMMA OtherSteps ==
  ASSUME [Next]_vars, \A s \in Sessions : ~Terminal(s)
  PROVE  UNCHANGED <<owner, source>> /\ registered' \subseteq registered
<1>1. ASSUME NEW c \in Callers, Caller(c)
      PROVE  UNCHANGED sessionVars
  BY <1>1 DEF Caller, SavePlugin, SaveFails, DeletePlugin, ReloadRequest, PostReload, ReloadTimeout
<1>2. ASSUME Worker PROVE UNCHANGED sessionVars
  BY <1>2 DEF Worker, FirstLoad, FetchQueue, Test, Sleep, Dispatch, CompleteHttp, ReloadLoad,
              ReloadCopy, ReloadDone, ReloadOpen
<1>3. ASSUME Stop PROVE UNCHANGED <<owner, source>> /\ registered' \subseteq registered
  BY <1>3 DEF Stop, StopTakesQueue, StopClears, StopRequests, StopNotifies, StopJoins, sessionVars
<1>4. ASSUME NEW r \in flight, HttpReturns(r) PROVE UNCHANGED sessionVars
  BY <1>4 DEF HttpReturns
<1> QED
  BY <1>1, <1>2, <1>3, <1>4 DEF Next, sessionVars, vars

(* A terminal goes its way and never back.                                     *)
LEMMA OwnersGoOn ==
  ASSUME Typed, [Next]_vars, NEW s \in Sessions
  PROVE  /\ owner[s] \notin {"new", "inserted"} => owner'[s] \notin {"new", "inserted"}
         /\ owner[s] = "gone" => owner'[s] = "gone"
<1>1. ASSUME NEW t \in Sessions, Terminal(t)
      PROVE  /\ owner[s] \notin {"new", "inserted"} => owner'[s] \notin {"new", "inserted"}
             /\ owner[s] = "gone" => owner'[s] = "gone"
  BY <1>1 DEF Typed, TypeOK, Terminal, Register, PostOpen, FindForOutput, PostOutput, Unregister,
              PostClose
<1> QED
  BY <1>1, OtherSteps

(* The end of a session is told by the dispatch of its Close.                  *)
LEMMA ClosedBy ==
  ASSUME Typed, [Next]_vars, NEW s \in Sessions, s \in closed', s \notin closed
  PROVE  Dispatch /\ current = SessionEvent("close", s)
<1>1. Dispatch
  BY DEF Next, vars, Terminal, Register, PostOpen, FindForOutput, PostOutput,
     Unregister, PostClose, Caller, SavePlugin, SaveFails, DeletePlugin, ReloadRequest,
     PostReload, ReloadTimeout, HttpReturns, Worker, FirstLoad, FetchQueue, Test, Sleep,
     CompleteHttp, ReloadLoad, ReloadCopy, ReloadDone, ReloadOpen, Stop, StopTakesQueue,
     StopClears, StopRequests, StopNotifies, StopJoins
<1>2. current.kind = "close" /\ current.session = s /\ current \in Events
  BY <1>1 DEF Dispatch, Typed, TypeOK
<1> QED
  BY <1>1, <1>2, Kinds

(* Only registered sessions are announced by a reload.                         *)
LEMMA OpeningFrom ==
  ASSUME [Next]_vars
  PROVE  opening' \subseteq opening \cup registered
BY DEF Next, vars, Terminal, Register, PostOpen, FindForOutput, PostOutput,
   Unregister, PostClose, Caller, SavePlugin, SaveFails, DeletePlugin, ReloadRequest,
   PostReload, ReloadTimeout, HttpReturns, Worker, FirstLoad, FetchQueue, Test, Sleep, Dispatch,
   CompleteHttp, ReloadLoad, ReloadCopy, SessionsToAnnounce, ReloadDone, ReloadOpen, Stop,
   StopTakesQueue, StopClears, StopRequests, StopNotifies, StopJoins

LEMMA TracedStep ==
  ASSUME Typed, Traced, [Next]_vars
  PROVE  Traced'
<1>1. opening' # {} => worker' = "opening"
  <2>1. CASE UNCHANGED <<opening, worker>>
    BY <2>1 DEF Traced
  <2>2. CASE opening' = opening /\ worker # "opening"
    BY <2>2 DEF Traced
  <2>3. CASE ReloadCopy
    BY <2>3 DEF ReloadCopy
  <2>4. CASE ReloadDone
    BY <2>4 DEF ReloadDone
  <2>5. ASSUME NEW s \in Sessions, ReloadOpen(s) PROVE opening' # {} => worker' = "opening"
    BY <2>5 DEF ReloadOpen
  <2>6. CASE opening' = opening /\ worker' = Woken
    BY <2>6 DEF Traced, Woken
  <2>7. ASSUME NEW s \in Sessions, Terminal(s)
        PROVE  opening' = opening /\ worker' \in {worker, Woken}
    BY <2>7 DEF Terminal, Register, PostOpen, FindForOutput, PostOutput, Unregister, PostClose,
                Post, Push
  <2>8. ASSUME NEW c \in Callers, Caller(c)
        PROVE  opening' = opening /\ worker' \in {worker, Woken}
    BY <2>8 DEF Caller, SavePlugin, SaveFails, DeletePlugin, ReloadRequest, PostReload,
                ReloadTimeout, Post, Push
  <2>9. ASSUME NEW r \in flight, HttpReturns(r)
        PROVE  opening' = opening /\ worker' \in {worker, Woken}
    BY <2>9 DEF HttpReturns, Push
  <2>10. ASSUME Stop PROVE opening' = opening /\ worker' \in {worker, Woken}
    BY <2>10 DEF Stop, StopTakesQueue, StopClears, StopRequests, StopNotifies, StopJoins
  <2>11. ASSUME FirstLoad \/ FetchQueue \/ Test \/ Sleep \/ Dispatch \/ CompleteHttp \/ ReloadLoad
         PROVE  opening' = opening /\ worker # "opening"
    BY <2>11 DEF FirstLoad, FetchQueue, Test, Sleep, Dispatch, CompleteHttp, ReloadLoad
  <2> QED
    BY <2>1, <2>2, <2>3, <2>4, <2>5, <2>6, <2>7, <2>8, <2>9, <2>10, <2>11 DEF Next, Worker, vars
<1>2. ASSUME NEW s \in Sessions
      PROVE  /\ s \in registered' => owner'[s] \in {"inserted", "open"}
             /\ source'[s] = "found" => owner'[s] \notin {"new", "inserted"}
             /\ s \notin Shared /\ owner'[s] \in {"erased", "gone"} => source'[s] = "idle"
  <2>1. ASSUME NEW t \in Sessions, Terminal(t)
        PROVE  /\ s \in registered' => owner'[s] \in {"inserted", "open"}
               /\ source'[s] = "found" => owner'[s] \notin {"new", "inserted"}
               /\ s \notin Shared /\ owner'[s] \in {"erased", "gone"} => source'[s] = "idle"
    BY <2>1 DEF Typed, TypeOK, Traced, Terminal, Register, PostOpen, FindForOutput, PostOutput,
                Unregister, WithoutSession, PostClose
  <2> QED
    BY <2>1, OtherSteps DEF Traced
<1>3. ASSUME NEW s \in Sessions, s \in closed' PROVE owner'[s] = "gone"
  <2>1. CASE s \in closed
    BY <2>1, OwnersGoOn DEF Traced
  <2>2. CASE s \notin closed
    BY <1>3, <2>2, ClosedBy, OwnersGoOn DEF Traced, InLine
  <2> QED
    BY <2>1, <2>2
<1>4. ASSUME NEW s \in Sessions
      PROVE  /\ SessionEvent("output", s) \in InLine' => owner'[s] \notin {"new", "inserted"}
             /\ SessionEvent("close", s) \in InLine' => owner'[s] = "gone"
  <2>1. SessionEvent("output", s) \in Events /\ SessionEvent("close", s) \in Events
    BY MadeEvents, Kinds
  <2>2. ASSUME Arrives(SessionEvent("output", s)) PROVE PostOutput(s)
    BY <2>2 DEF Arrives, SessionEvent, Reload, AnswerTo
  <2>3. ASSUME Arrives(SessionEvent("close", s)) PROVE PostClose(s)
    BY <2>3 DEF Arrives, SessionEvent, Reload, AnswerTo
  <2>4. PostOutput(s) => owner[s] \notin {"new", "inserted"}
    BY DEF Traced, PostOutput
  <2>5. PostClose(s) => owner'[s] = "gone"
    BY DEF Typed, TypeOK, PostClose
  <2> QED
    BY <2>1, <2>2, <2>3, <2>4, <2>5, Arrivals, OwnersGoOn DEF Traced
<1> QED
  BY <1>1, <1>2, <1>3, <1>4 DEF Traced

-----------------------------------------------------------------------------
(* Nothing comes behind a Close.                                               *)

(* Of a session that has come to its end, nothing arrives but what the thread  *)
(* that reports its output has in hand.                                        *)
LEMMA GoneIsSilent ==
  ASSUME Typed, Traced, NEW s \in Sessions, owner[s] = "gone", NEW e \in Events, Arrives(e)
  PROVE  /\ e \notin Bounds(s)
         /\ e = SessionEvent("output", s) => source[s] = "found" /\ source'[s] = "idle"
<1>1. ASSUME e \in Bounds(s) \cup {SessionEvent("output", s)}
      PROVE  PostOpen(s) \/ PostOutput(s) \/ PostClose(s)
  BY <1>1 DEF Arrives, SessionEvent, Bounds, Reload, AnswerTo
<1>2. ASSUME e \in Bounds(s) PROVE PostOpen(s) \/ PostClose(s)
  BY <1>2 DEF Arrives, SessionEvent, Bounds, Reload, AnswerTo
<1>3. ~PostOpen(s) /\ ~PostClose(s)
  BY DEF PostOpen, PostClose
<1>4. PostOutput(s) => source[s] = "found" /\ source'[s] = "idle"
  BY DEF PostOutput, Typed, TypeOK
<1> QED
  BY <1>1, <1>2, <1>3, <1>4

(* And its output thread finds it no more.                                     *)
LEMMA GoneIsNotFound ==
  ASSUME Typed, [Next]_vars, NEW s \in Sessions, owner[s] = "gone", source'[s] = "found"
  PROVE  source[s] = "found"
<1>1. ASSUME NEW t \in Sessions, Terminal(t) PROVE source[s] = "found"
  BY <1>1 DEF Typed, TypeOK, Terminal, Register, PostOpen, FindForOutput, PostOutput, Unregister,
              PostClose
<1> QED
  BY <1>1, OtherSteps

(* A session whose end is in the line is gone.                                 *)
LEMMA EndOfGone ==
  ASSUME Traced, NEW s \in Sessions, NEW n \in 0 .. Len(queue), EndAt(s, n)
  PROVE  owner[s] = "gone" /\ s \notin registered
BY DEF Traced, EndAt, InLine, Queued

(* What a step does to the places at which output is.                          *)
LEMMA OutputRests ==
  ASSUME Typed, [Next]_vars, NEW s \in Sessions, owner[s] = "gone", Rests
  PROVE  OutputOf(s)' \subseteq OutputOf(s)
BY GoneIsNotFound, MadeEvents, Kinds, NoneAssumption DEF Rests, OutputOf, Events

LEMMA OutputGrows ==
  ASSUME Typed, Traced, [Next]_vars, NEW s \in Sessions, owner[s] = "gone",
         NEW e \in Events, Arrives(e), Grows(e)
  PROVE  \A i, k \in OutputOf(s)' :
           \E f, g \in OutputOf(s) : f <= i /\ g <= k /\ (f < i => f = Len(queue) + 1)
                                     /\ (g < k => g = Len(queue) + 1) /\ (f = g => i = k)
<1>0. queue \in Seq(Events) /\ Len(queue) \in Nat
  BY DEF Typed
<1>1. /\ Len(queue') = Len(queue) + 1 /\ queue'[Len(queue) + 1] = e
      /\ \A i \in 1 .. Len(queue) : queue'[i] = queue[i]
      /\ current' = current /\ DOMAIN queue' = 1 .. Len(queue) + 1
      /\ DOMAIN queue = 1 .. Len(queue)
  BY <1>0, Appended DEF Grows
<1>2. \A i \in OutputOf(s)' : i \in 0 .. Len(queue) => i \in OutputOf(s)
  BY <1>0, <1>1 DEF OutputOf
<1>3. Len(queue) + 1 \in OutputOf(s)' =>
        Len(queue) + 1 \in OutputOf(s) /\ Len(queue) + 2 \notin OutputOf(s)'
  <2>1. Len(queue) + 1 \in OutputOf(s)' => e = SessionEvent("output", s)
    BY <1>0, <1>1 DEF OutputOf
  <2>2. Len(queue) + 2 \in OutputOf(s)' => source'[s] = "found"
    BY <1>0, <1>1 DEF OutputOf
  <2>3. source[s] = "found" => Len(queue) + 1 \in OutputOf(s)
    BY <1>0 DEF OutputOf
  <2> QED
    BY <2>1, <2>2, <2>3, GoneIsSilent
<1>4. Len(queue) + 2 \in OutputOf(s)' => Len(queue) + 1 \in OutputOf(s)
  BY <1>0, <1>1, GoneIsNotFound DEF OutputOf
<1>5. OutputOf(s)' \subseteq 0 .. Len(queue) + 2
  BY <1>0, <1>1 DEF OutputOf
<1> DEFINE Before(i) == IF i = Len(queue) + 2 THEN Len(queue) + 1 ELSE i
<1>6. \A i \in OutputOf(s)' :
        /\ Before(i) \in OutputOf(s) /\ Before(i) <= i
        /\ Before(i) < i => Before(i) = Len(queue) + 1
  BY <1>0, <1>2, <1>3, <1>4, <1>5
<1>7. \A i, k \in OutputOf(s)' : Before(i) = Before(k) => i = k
  BY <1>0, <1>3, <1>5
<1> HIDE DEF Before
<1> QED
  BY <1>6, <1>7

LEMMA OutputMoves ==
  ASSUME Typed, [Next]_vars, NEW s \in Sessions, Moves
  PROVE  /\ \A i \in OutputOf(s)' : i \in Nat /\ i + 1 \in OutputOf(s)
         /\ 0 \notin OutputOf(s)
<1>0. queue \in Seq(Events) /\ DOMAIN queue = 1 .. Len(queue)
  BY DEF Typed
<1>1. /\ current' = queue[1] /\ Len(queue) \in Nat \ {0}
      /\ Len(queue') = Len(queue) - 1 /\ DOMAIN queue' = 1 .. Len(queue) - 1
      /\ \A i \in 1 .. Len(queue) - 1 : queue'[i] = queue[i + 1]
      /\ current = None
  BY <1>0, Taken DEF Moves
<1>2. source' = source
  BY DEF Moves, Test, sessionVars
<1>3. None # SessionEvent("output", s)
  BY MadeEvents, Kinds, NoneAssumption
<1>4. ASSUME NEW i \in OutputOf(s)' PROVE i \in Nat /\ i + 1 \in OutputOf(s)
  <2>a. /\ i \in 0 .. Len(queue') + 1
        /\ \/ i = 0 /\ current' = SessionEvent("output", s)
           \/ i \in DOMAIN queue' /\ queue'[i] = SessionEvent("output", s)
           \/ i = Len(queue') + 1 /\ source'[s] = "found"
    BY DEF OutputOf
  <2>1. i \in 0 .. Len(queue)
    BY <1>1, <2>a
  <2>2. CASE i = 0
    <3>1. queue[1] = SessionEvent("output", s)
      BY <1>0, <1>1, <2>2 DEF OutputOf
    <3> QED
      BY <1>0, <1>1, <2>2, <3>1 DEF OutputOf
  <2>3. CASE i \in 1 .. Len(queue) - 1
    <3>1. queue[i + 1] = SessionEvent("output", s)
      BY <1>1, <2>3, <2>a
    <3>2. i + 1 \in 1 .. Len(queue)
      BY <1>1, <2>3
    <3>3. i + 1 \in 0 .. Len(queue) + 1
      BY <1>1, <3>2
    <3> QED
      BY <1>0, <2>3, <3>1, <3>2, <3>3 DEF OutputOf
  <2>4. CASE i = Len(queue) /\ i # 0
    <3>1. source[s] = "found"
      BY <1>0, <1>1, <1>2, <2>4 DEF OutputOf
    <3> QED
      BY <1>0, <1>1, <2>4, <3>1 DEF OutputOf
  <2> QED
    BY <1>1, <2>1, <2>2, <2>3, <2>4
<1>5. 0 \notin OutputOf(s)
  BY <1>0, <1>1, <1>3 DEF OutputOf
<1> QED
  BY <1>4, <1>5

LEMMA OutputEmpties ==
  ASSUME Typed, [Next]_vars, NEW s \in Sessions, owner[s] = "gone", Empties
  PROVE  \A i \in OutputOf(s)' :
           \/ i = 0 /\ 0 \in OutputOf(s)
           \/ i = 1 /\ Len(queue) + 1 \in OutputOf(s)
<1>0. queue \in Seq(Events) /\ Len(queue) \in Nat
  BY DEF Typed
<1>1. queue' = <<>> /\ Len(queue') = 0 /\ DOMAIN queue' = {} /\ current' = current
  BY DEF Empties
<1> QED
  BY <1>0, <1>1, GoneIsNotFound DEF OutputOf

LEMMA ClosingStep ==
  ASSUME Typed, Traced, Closing, Traced', [Next]_vars
  PROVE  Closing'
<1> SUFFICES ASSUME NEW s \in Sessions
             PROVE  /\ \A n \in 0 .. Len(queue') : EndAt(s, n)' => Over(s, n)'
                    /\ s \in closed' => s \notin opening' /\ current' \notin Bounds(s)
  BY DEF Closing, Bounds
<1> DEFINE c == SessionEvent("close", s)
           Ended == s \in closed' => s \notin opening' /\ current' \notin Bounds(s)
<1>0. /\ c \in Events /\ queue \in Seq(Events) /\ Len(queue) \in Nat
      /\ None \notin Bounds(s) /\ c \in Bounds(s) /\ c # SessionEvent("output", s)
  <2>1. c \in Events /\ SessionEvent("open", s) \in Events
    BY MadeEvents, Kinds
  <2>2. c # SessionEvent("output", s)
    BY DEF SessionEvent
  <2>3. queue \in Seq(Events) /\ Len(queue) \in Nat
    BY DEF Typed
  <2> QED
    BY <2>1, <2>2, <2>3, NoneAssumption DEF Bounds
<1>a. /\ \A n \in 0 .. Len(queue) : EndAt(s, n) => Over(s, n)
      /\ s \in closed => s \notin opening /\ current \notin Bounds(s)
  BY DEF Closing
<1>b. s \in closed => s \notin registered
  BY DEF Traced
<1>1. CASE Rests
  <2>1. queue' = queue /\ current' \in {current, None}
    BY <1>1 DEF Rests
  <2>2. ASSUME s \notin closed, s \in closed'
        PROVE  current = c /\ current' = None /\ opening' = {}
    BY <2>2, ClosedBy DEF Dispatch, Finished, Traced
  <2>3. Ended
    BY <1>0, <1>a, <1>b, <2>1, <2>2, OpeningFrom
  <2>4. ASSUME NEW n \in 0 .. Len(queue'), EndAt(s, n)' PROVE Over(s, n)'
    <3>1. EndAt(s, n)
      BY <1>0, <2>1, <2>2, <2>4 DEF EndAt
    <3>2. Over(s, n) /\ owner[s] = "gone"
      BY <1>a, <2>1, <3>1, EndOfGone
    <3> QED
      BY <1>1, <2>1, <3>2, OutputRests DEF Over, Bounds
  <2> QED
    BY <2>3, <2>4
<1>2. ASSUME NEW e \in Events, Arrives(e), Grows(e)
      PROVE  Ended /\ \A n \in 0 .. Len(queue') : EndAt(s, n)' => Over(s, n)'
  <2>1. /\ Len(queue') = Len(queue) + 1 /\ queue'[Len(queue) + 1] = e
        /\ \A i \in 1 .. Len(queue) : queue'[i] = queue[i]
        /\ UNCHANGED <<current, closed, opening>>
    BY <1>0, <1>2, Appended DEF Grows
  <2>2. ASSUME NEW n \in 0 .. Len(queue), EndAt(s, n) PROVE Over(s, n)'
    <3>1. Over(s, n) /\ owner[s] = "gone"
      BY <1>a, <2>2, EndOfGone
    <3>2. e \notin Bounds(s)
      BY <1>2, <3>1, GoneIsSilent
    <3>3. \A k \in 1 .. Len(queue') : k > n => queue'[k] \notin Bounds(s)
      BY <1>0, <2>1, <3>1, <3>2 DEF Over
    <3>4. ASSUME NEW i \in OutputOf(s)', NEW k \in OutputOf(s)', i >= n, k >= n
          PROVE  s \in Shared /\ i = k
      <4>1. PICK f \in OutputOf(s), g \in OutputOf(s) :
              /\ f <= i /\ g <= k /\ (f = g => i = k)
              /\ (f < i => f = Len(queue) + 1) /\ (g < k => g = Len(queue) + 1)
        BY <1>2, <3>1, OutputGrows
      <4>2. i \in Nat /\ k \in Nat /\ f \in Nat /\ g \in Nat
        BY <1>0, <2>1 DEF OutputOf
      <4>3. f >= n /\ g >= n
        BY <1>0, <3>4, <4>1, <4>2
      <4> QED
        BY <3>1, <4>1, <4>3 DEF Over
    <3> QED
      BY <3>3, <3>4 DEF Over, Bounds
  <2>3. ASSUME e = c, NEW n \in {Len(queue) + 1} PROVE Over(s, n)'
    <3>1. \A k \in 1 .. Len(queue') : ~(k > n)
      BY <1>0, <2>1
    <3>2. \A i \in OutputOf(s)' :
            i >= n => i = Len(queue) + 2 /\ source'[s] = "found"
      BY <1>0, <2>1, <2>3 DEF OutputOf
    <3>3. owner'[s] = "gone"
      BY <1>0, <2>1, <2>3 DEF Traced, InLine, Queued
    <3>4. source'[s] = "found" => s \in Shared
      BY <3>3 DEF Traced
    <3> QED
      BY <3>1, <3>2, <3>4 DEF Over, Bounds
  <2>4. ASSUME NEW n \in 0 .. Len(queue'), EndAt(s, n)' PROVE Over(s, n)'
    <3>1. CASE n \in 0 .. Len(queue)
      BY <1>0, <2>1, <2>2, <2>4, <3>1 DEF EndAt
    <3>2. CASE n = Len(queue) + 1
      <4>1. e = c
        BY <1>0, <2>1, <2>4, <3>2 DEF EndAt
      <4> QED
        BY <2>3, <3>2, <4>1
    <3> QED
      BY <1>0, <2>1, <3>1, <3>2
  <2> QED
    BY <1>a, <2>1, <2>4
<1>3. CASE Moves
  <2>1. /\ current' = queue[1] /\ Len(queue) \in Nat \ {0}
        /\ Len(queue') = Len(queue) - 1
        /\ \A i \in 1 .. Len(queue) - 1 : queue'[i] = queue[i + 1]
        /\ UNCHANGED <<closed, opening>>
    BY <1>0, <1>3, Taken DEF Moves
  <2>2. \A k \in 1 .. Len(queue') : k + 1 \in 1 .. Len(queue) /\ queue'[k] = queue[k + 1]
    BY <2>1
  <2>3. Ended
    <3> SUFFICES ASSUME s \in closed PROVE s \notin opening /\ queue[1] \notin Bounds(s)
      BY <2>1 DEF Bounds
    <3>1. EndAt(s, 0)
      BY DEF EndAt
    <3>2. Over(s, 0)
      BY <1>0, <1>a, <3>1
    <3> QED
      BY <1>a, <2>1, <3>2 DEF Over
  <2>4. ASSUME NEW n \in 0 .. Len(queue'), EndAt(s, n)' PROVE Over(s, n)'
    <3>1. PICK m \in {n, n + 1} : m \in 0 .. Len(queue) /\ EndAt(s, m)
      BY <2>1, <2>4 DEF EndAt
    <3>2. Over(s, m) /\ m \in Nat /\ m <= n + 1
      BY <1>0, <1>a, <3>1
    <3>3. \A k \in 1 .. Len(queue') : k > n => queue'[k] \notin Bounds(s)
      BY <2>1, <2>2, <3>2 DEF Over
    <3>4. ASSUME NEW i \in OutputOf(s)', NEW k \in OutputOf(s)', i >= n, k >= n
          PROVE  s \in Shared /\ i = k
      <4>1. i \in Nat /\ k \in Nat /\ i + 1 \in OutputOf(s) /\ k + 1 \in OutputOf(s)
        BY <1>3, OutputMoves
      <4>2. i + 1 >= m /\ k + 1 >= m
        BY <3>2, <3>4, <4>1
      <4>3. s \in Shared /\ i + 1 = k + 1
        BY <3>2, <4>1, <4>2 DEF Over
      <4> QED
        BY <4>1, <4>3
    <3> QED
      BY <3>3, <3>4 DEF Over, Bounds
  <2> QED
    BY <2>3, <2>4
<1>4. CASE Empties
  <2>1. Len(queue') = 0 /\ UNCHANGED <<current, closed, opening>>
    BY <1>4 DEF Empties
  <2>2. ASSUME NEW n \in 0 .. Len(queue'), EndAt(s, n)' PROVE Over(s, n)'
    <3>1. n = 0 /\ EndAt(s, 0)
      BY <2>1, <2>2 DEF EndAt
    <3>2. Over(s, 0) /\ owner[s] = "gone"
      BY <1>0, <1>a, <3>1, EndOfGone
    <3>3. \A i \in OutputOf(s)' :
            \/ i = 0 /\ 0 \in OutputOf(s)
            \/ i = 1 /\ Len(queue) + 1 \in OutputOf(s)
      BY <1>4, <3>2, OutputEmpties
    <3>4. \A i, k \in OutputOf(s) : s \in Shared /\ i = k
      BY <1>0, <3>2 DEF Over, OutputOf
    <3>5. \A i, k \in OutputOf(s)' : s \in Shared /\ i = k
      BY <1>0, <3>3, <3>4
    <3> QED
      BY <2>1, <3>1, <3>5 DEF Over
  <2> QED
    BY <1>a, <2>1, <2>2 DEF Bounds
<1> QED
  BY <1>1, <1>2, <1>3, <1>4, LineMoves

-----------------------------------------------------------------------------
(* Output comes behind an announcement.                                        *)

(* What the runtime was told, or is about to be told, of a session that stays  *)
(* registered is not lost: a reload that forgets it announces it again.        *)
LEMMA KnownStays ==
  ASSUME Typed, Traced, [Next]_vars, NEW s \in Sessions, s \in registered, s \in registered',
         ~Moves, KnownNow(s)
  PROVE  KnownNow(s)'
<1> USE DEF KnownNow, Running
<1>0. /\ worker \in {"loaded", "opening"} => current \in ReloadEvents
      /\ worker \in {"dispatching", "loaded", "opening"} => current \in Events
      /\ current # None <=> worker \in {"dispatching", "loaded", "opening"}
      /\ opening # {} => worker = "opening"
  BY DEF Typed, TypeOK, Traced
<1>1. ASSUME UNCHANGED <<heard, current, opening, loaded>>,
             worker' = worker \/ worker \notin {"dispatching", "loaded"},
             worker' # "loading"
      PROVE  KnownNow(s)'
  BY <1>1
<1>2. ASSUME UNCHANGED <<heard, current, opening, loaded, worker>>
      PROVE  KnownNow(s)'
  BY <1>2
<1>3. ASSUME NEW t \in Sessions, Terminal(t)
      PROVE  UNCHANGED <<heard, current, opening, loaded>> /\ WorkerKept
  BY <1>3 DEF Terminal, Register, PostOpen, FindForOutput, PostOutput, Unregister, PostClose,
              Post, Push, Woken, WorkerKept, runtimeVars, loadVars
<1>4. ASSUME NEW c \in Callers, Caller(c)
      PROVE  UNCHANGED <<heard, current, opening, loaded>> /\ WorkerKept
  BY <1>4 DEF Caller, SavePlugin, SaveFails, DeletePlugin, ReloadRequest, PostReload,
              ReloadTimeout, Post, Push, Woken, WorkerKept, runtimeVars, loadVars
<1>5. ASSUME NEW r \in flight, HttpReturns(r)
      PROVE  UNCHANGED <<heard, current, opening, loaded>> /\ WorkerKept
  BY <1>5 DEF HttpReturns, Push, Woken, WorkerKept, loadVars
<1>6. ASSUME Stop
      PROVE  UNCHANGED <<heard, current, opening, loaded>> /\ WorkerKept
  BY <1>6 DEF Stop, StopTakesQueue, StopClears, StopRequests, StopNotifies, StopJoins, Woken,
              WorkerKept, runtimeVars, loadVars
<1>7. ASSUME UNCHANGED <<heard, current, opening, loaded>>, WorkerKept
      PROVE  KnownNow(s)'
  BY <1>1, <1>2, <1>7 DEF WorkerKept
<1>8. CASE FirstLoad
  <2>1. UNCHANGED <<heard, current, opening>> /\ worker = "loading"
    BY <1>8 DEF FirstLoad, runtimeVars
  <2> QED
    BY <1>0, <2>1
<1>9. CASE FetchQueue \/ Sleep
  BY <1>1, <1>9 DEF FetchQueue, Sleep, runtimeVars, loadVars
<1>10. CASE Test
  <2>1. worker' # "dispatching"
    BY <1>10 DEF Test, Moves, Typed, TypeOK
  <2> QED
    BY <1>1, <1>10, <2>1 DEF Test, runtimeVars, loadVars
<1>11. CASE Dispatch
  <2>1. /\ worker = "dispatching" /\ current \in Events
        /\ current.kind \in {"open", "output", "close"} /\ current.session \in Sessions
        /\ Handle(current.kind, current.session) /\ current \in SessionEvents
        /\ current = SessionEvent(current.kind, current.session)
    BY <1>0, <1>11, Kinds DEF Dispatch
  <2>2. heard' = IF Running /\ current.kind # "output"
                  THEN [heard EXCEPT ![current.session] = current.kind] ELSE heard
    BY <2>1, Handled
  <2>3. heard \in [Sessions -> {"nothing", "open", "close"}]
    BY DEF Typed, TypeOK
  <2>4. UNCHANGED <<opening, loaded>> /\ worker' = "testing"
    BY <1>11 DEF Dispatch, Finished, loadVars
  <2>5. current # SessionEvent("close", s)
    BY DEF Traced, InLine
  <2>6. current \notin ReloadEvents
    BY <2>1, Kinds
  <2>7. CASE heard[s] = "open"
    BY <2>1, <2>2, <2>3, <2>5, <2>7
  <2>8. CASE current = SessionEvent("open", s)
    <3>1. current.kind = "open" /\ current.session = s
      BY <2>8, MadeEvents
    <3>2. Running => heard'[s] = "open"
      BY <2>2, <2>3, <3>1
    <3> QED
      BY <2>4, <3>2
  <2>9. CASE s \in opening \/ ~Running
    BY <2>4, <2>9
  <2> QED
    BY <2>6, <2>7, <2>8, <2>9
<1>12. CASE CompleteHttp
  <2>1. UNCHANGED <<heard, opening, loaded>> /\ worker' = "testing" /\ current.kind = "http"
        /\ worker = "dispatching"
    BY <1>12 DEF CompleteHttp, Finished, loadVars
  <2>2. current \notin ReloadEvents /\ current # SessionEvent("open", s)
    BY <1>0, <2>1, Kinds, MadeEvents
  <2> QED
    BY <2>1, <2>2
<1>13. CASE ReloadLoad
  <2>1. current \in ReloadEvents
    BY <1>0, <1>13, Kinds DEF ReloadLoad
  <2> QED
    BY <1>13, <2>1 DEF ReloadLoad
<1>14. CASE ReloadCopy
  BY <1>14 DEF ReloadCopy, SessionsToAnnounce
<1>15. CASE ReloadDone
  <2>1. /\ UNCHANGED <<heard, opening, loaded>> /\ worker' = "testing" /\ worker = "opening"
        /\ opening = {}
    BY <1>15 DEF ReloadDone, Finished, runtimeVars, loadVars
  <2>2. current # SessionEvent("open", s)
    BY <1>0, <2>1, Kinds, MadeEvents
  <2> QED
    BY <2>1, <2>2
<1>16. ASSUME NEW t \in Sessions, ReloadOpen(t)
       PROVE  KnownNow(s)'
  <2>1. worker = "opening" /\ Handle("open", t) /\ opening' = opening \ {t}
        /\ UNCHANGED <<worker, current, loaded>>
    BY <1>16 DEF ReloadOpen, loadVars
  <2>2. heard' = IF Running THEN [heard EXCEPT ![t] = "open"] ELSE heard
    BY <2>1, Handled
  <2>3. heard \in [Sessions -> {"nothing", "open", "close"}]
    BY DEF Typed, TypeOK
  <2>4. CASE Running
    BY <2>1, <2>2, <2>3, <2>4
  <2>5. CASE ~Running
    BY <2>1, <2>5
  <2> QED
    BY <2>4, <2>5
<1>17. CASE UNCHANGED vars
  BY <1>2, <1>17 DEF vars, runtimeVars, loadVars
<1> QED
  BY <1>3, <1>4, <1>5, <1>6, <1>7, <1>8, <1>9, <1>10, <1>11, <1>12, <1>13, <1>14, <1>15, <1>16,
     <1>17 DEF Next, Worker

LEMMA AnnouncedStep ==
  ASSUME Typed, Traced, Announced, [Next]_vars, Typed', Traced'
  PROVE  Announced'
<1>0. queue \in Seq(Events) /\ Len(queue) \in Nat
  BY DEF Typed
<1>a. ASSUME NEW s \in registered, s \in registered', ~Moves,
             NEW n \in Nat, Known(s, n), n <= Len(queue), ~Empties
      PROVE  Known(s, n)'
  <2>1. CASE KnownNow(s)
    BY <1>a, <2>1, KnownStays DEF Known, Typed, TypeOK
  <2>2. CASE \E i \in 1 .. n : queue[i] = SessionEvent("open", s)
    <3>1. \A i \in 1 .. n : queue'[i] = queue[i]
      <4>1. CASE Rests
        BY <4>1 DEF Rests
      <4>2. ASSUME NEW e \in Events, Grows(e) PROVE \A i \in 1 .. n : queue'[i] = queue[i]
        BY <1>0, <1>a, <4>2, Appended DEF Grows
      <4> QED
        BY <1>a, <4>1, <4>2, LineMoves
    <3> QED
      BY <2>2, <3>1 DEF Known
  <2> QED
    BY <1>a, <2>1, <2>2 DEF Known
<1>1. ASSUME NEW s \in registered', owner'[s] = "open", queueSet'
      PROVE  Known(s, Len(queue))'
  <2>0. s \in Sessions /\ s \in registered /\ queueSet /\ ~Empties
    <3>1. s \in Sessions
      BY DEF Typed, TypeOK
    <3>2. ASSUME NEW t \in Sessions, Terminal(t) PROVE s \in registered
      BY <1>1, <3>2 DEF Terminal, Register, PostOpen, FindForOutput, PostOutput, Unregister,
                       WithoutSession, PostClose, Typed, TypeOK
    <3>3. queueSet
      BY <1>1 DEF Next, vars, Terminal, Register, PostOpen, FindForOutput, PostOutput,
         Unregister, PostClose, Post, Push, Caller, SavePlugin, SaveFails, DeletePlugin,
         ReloadRequest, PostReload, ReloadTimeout, HttpReturns, Worker, FirstLoad, FetchQueue, Test,
         Sleep, Dispatch, CompleteHttp, ReloadLoad, ReloadCopy, ReloadDone, ReloadOpen, Stop,
         StopTakesQueue, StopClears, StopRequests, StopNotifies, StopJoins, queueVars
    <3> QED
      BY <1>1, <3>1, <3>2, <3>3, OtherSteps DEF Empties
  <2>1. CASE owner[s] = "open"
    <3>1. Known(s, Len(queue))
      BY <2>0, <2>1 DEF Announced
    <3>2. CASE Rests
      <4>1. CASE Moves
        BY <1>0, <3>2, <4>1, Taken DEF Rests, Moves
      <4>2. CASE ~Moves
        BY <1>0, <1>a, <2>0, <3>1, <3>2, <4>2 DEF Rests
      <4> QED
        BY <4>1, <4>2
    <3>3. ASSUME NEW e \in Events, Grows(e) PROVE Known(s, Len(queue))'
      <4>1. ~Moves
        BY <1>0, <3>3, Appended, Taken DEF Grows, Moves
      <4>2. Known(s, Len(queue))' \/ KnownNow(s)'
                                  \/ \E i \in 1 .. Len(queue) : queue'[i] = SessionEvent("open", s)
        BY <1>0, <1>a, <2>0, <3>1, <4>1 DEF Known, KnownNow, Grows
      <4>3. Len(queue') = Len(queue) + 1
        BY <1>0, <3>3, Appended DEF Grows
      <4> QED
        BY <1>0, <4>2, <4>3 DEF Known
    <3>4. CASE Moves
      <4>1. UNCHANGED <<heard, opening, loaded>> /\ worker' # "loading" /\ current = None
            /\ worker = "testing"
        BY <3>4 DEF Moves, Test, runtimeVars, loadVars
      <4>2. /\ current' = queue[1] /\ Len(queue) \in Nat \ {0}
            /\ Len(queue') = Len(queue) - 1
            /\ \A i \in 1 .. Len(queue) - 1 : queue'[i] = queue[i + 1]
        BY <1>0, <3>4, Taken DEF Moves
      <4>3. CASE KnownNow(s)
        <5>1. heard[s] = "open" \/ s \in opening \/ ~Running
          BY <2>0, <4>1, <4>3, MadeEvents, Kinds, NoneAssumption DEF KnownNow
        <5> QED
          BY <4>1, <5>1 DEF Known, KnownNow, Running
      <4>4. CASE \E i \in 1 .. Len(queue) : queue[i] = SessionEvent("open", s)
        <5>1. PICK i \in 1 .. Len(queue) : queue[i] = SessionEvent("open", s)
          BY <4>4
        <5>2. CASE i = 1
          BY <4>2, <5>1, <5>2 DEF Known, KnownNow
        <5>3. CASE i # 1
          <6>1. i - 1 \in 1 .. Len(queue') /\ queue'[i - 1] = SessionEvent("open", s)
            BY <4>2, <5>1, <5>3
          <6> QED
            BY <6>1 DEF Known
        <5> QED
          BY <5>2, <5>3
      <4> QED
        BY <3>1, <4>3, <4>4 DEF Known
    <3> QED
      BY <2>0, <3>2, <3>3, <3>4, LineMoves
  <2>2. CASE owner[s] # "open"
    <3>1. PostOpen(s)
      <4>1. ASSUME NEW t \in Sessions, Terminal(t) PROVE PostOpen(s)
        BY <1>1, <2>0, <2>2, <4>1 DEF Terminal, Register, PostOpen, FindForOutput, PostOutput, Unregister,
                       PostClose, Typed, TypeOK
      <4> QED
        BY <1>1, <2>0, <2>2, <4>1, OtherSteps
    <3>2. queue' = Append(queue, SessionEvent("open", s))
      BY <2>0, <3>1 DEF PostOpen, Post, Push, Typed
    <3>3. SessionEvent("open", s) \in Events
      BY <2>0, MadeEvents, Kinds
    <3>4. Len(queue') \in 1 .. Len(queue') /\ queue'[Len(queue')] = SessionEvent("open", s)
      BY <1>0, <3>2, <3>3, Appended
    <3> QED
      BY <3>4 DEF Known
  <2> QED
    BY <2>1, <2>2
<1>2. ASSUME NEW s \in registered', NEW n \in 1 .. Len(queue'),
             queue'[n] = SessionEvent("output", s)
      PROVE  Known(s, n)'
  <2>0. s \in Sessions /\ s \in registered
    <3>1. s \in Sessions
      BY DEF Typed, TypeOK
    <3>2. queue'[n] \in InLine'
      BY DEF InLine, Queued
    <3>3. owner'[s] \notin {"new", "inserted"}
      BY <1>2, <3>1, <3>2 DEF Traced
    <3>4. ASSUME NEW t \in Sessions, Terminal(t) PROVE s \in registered
      BY <3>1, <3>3, <3>4 DEF Terminal, Register, PostOpen, FindForOutput, PostOutput, Unregister,
                       WithoutSession, PostClose, Typed, TypeOK
    <3> QED
      BY <3>1, <3>4, OtherSteps
  <2>1. CASE Rests /\ ~Moves
    <3>1. queue' = queue /\ Known(s, n)
      BY <1>2, <2>0, <2>1 DEF Rests, Announced
    <3> QED
      BY <1>0, <1>a, <2>0, <2>1, <3>1 DEF Empties
  <2>2. ASSUME NEW e \in Events, Arrives(e), Grows(e) PROVE Known(s, n)'
    <3>1. /\ Len(queue') = Len(queue) + 1 /\ queue'[Len(queue) + 1] = e
          /\ \A i \in 1 .. Len(queue) : queue'[i] = queue[i]
          /\ ~Moves /\ ~Empties
      BY <1>0, <2>2, Appended, Taken DEF Grows, Moves, Empties
    <3>2. CASE n \in 1 .. Len(queue)
      <4>1. Known(s, n)
        BY <1>2, <2>0, <3>1, <3>2 DEF Announced
      <4> QED
        BY <1>0, <1>a, <2>0, <3>1, <3>2, <4>1
    <3>3. CASE n = Len(queue) + 1
      <4>1. PostOutput(s) /\ queueSet
        BY <1>2, <2>2, <3>1, <3>3 DEF Arrives, SessionEvent, Reload, AnswerTo
      <4>2. owner[s] = "open"
        BY <2>0, <4>1 DEF PostOutput, Traced
      <4>3. Known(s, Len(queue))
        BY <2>0, <4>1, <4>2 DEF Announced
      <4>4. KnownNow(s)' \/ \E i \in 1 .. Len(queue) : queue'[i] = SessionEvent("open", s)
        BY <1>0, <1>a, <2>0, <3>1, <4>3 DEF Known, KnownNow, Grows
      <4> QED
        BY <1>0, <3>3, <4>4 DEF Known
    <3> QED
      BY <1>0, <3>1, <3>2, <3>3
  <2>3. CASE Moves
    <3>1. UNCHANGED <<heard, opening, loaded>> /\ worker' # "loading" /\ current = None
          /\ worker = "testing"
      BY <2>3 DEF Moves, Test, runtimeVars, loadVars
    <3>2. /\ current' = queue[1] /\ Len(queue) \in Nat \ {0}
          /\ Len(queue') = Len(queue) - 1
          /\ \A i \in 1 .. Len(queue) - 1 : queue'[i] = queue[i + 1]
      BY <1>0, <2>3, Taken DEF Moves
    <3>3. n + 1 \in 1 .. Len(queue) /\ queue[n + 1] = SessionEvent("output", s)
      BY <1>2, <3>2
    <3>4. Known(s, n + 1)
      BY <2>0, <3>3 DEF Announced
    <3>5. CASE KnownNow(s)
      <4>1. heard[s] = "open" \/ s \in opening \/ ~Running
        BY <2>0, <3>1, <3>5, MadeEvents, Kinds, NoneAssumption DEF KnownNow
      <4> QED
        BY <3>1, <4>1 DEF Known, KnownNow, Running
    <3>6. CASE \E i \in 1 .. n + 1 : queue[i] = SessionEvent("open", s)
      <4>1. PICK i \in 1 .. n + 1 : queue[i] = SessionEvent("open", s)
        BY <3>6
      <4>2. CASE i = 1
        BY <3>2, <4>1, <4>2 DEF Known, KnownNow
      <4>3. CASE i # 1
        <5>1. i - 1 \in 1 .. n /\ queue'[i - 1] = SessionEvent("open", s)
          BY <3>2, <3>3, <4>1, <4>3
        <5> QED
          BY <5>1 DEF Known
      <4> QED
        BY <4>2, <4>3
    <3> QED
      BY <3>4, <3>5, <3>6 DEF Known
  <2>4. CASE Empties
    BY <1>2, <2>4 DEF Empties
  <2> QED
    BY <2>1, <2>2, <2>3, <2>4, LineMoves
<1>3. AnnouncedFirst'
  <2> SUFFICES ASSUME worker' = "dispatching", current'.kind = "output", Running',
                      current'.session \in registered'
               PROVE  heard'[current'.session] = "open"
    BY DEF AnnouncedFirst
  <2>0. PICK s \in Sessions : current' = SessionEvent("output", s) /\ current' \in Events
                             /\ s = current'.session
    BY Kinds DEF Typed, TypeOK
  <2>1. s \in registered
    <3>1. owner'[s] \notin {"new", "inserted"}
      BY <2>0 DEF Traced, InLine
    <3>2. ASSUME NEW t \in Sessions, Terminal(t) PROVE s \in registered
      BY <2>0, <3>1, <3>2 DEF Terminal, Register, PostOpen, FindForOutput, PostOutput, Unregister,
                       WithoutSession, PostClose, Typed, TypeOK
    <3> QED
      BY <2>0, <3>2, OtherSteps
  <2>2. KnownNow(s)' => heard'[s] = "open"
    <3>1. /\ current' # SessionEvent("open", s) /\ current' \notin ReloadEvents
          /\ opening' = {}
      BY <2>0, MadeEvents, Kinds DEF Traced
    <3> QED
      BY <3>1 DEF KnownNow
  <2>3. CASE Moves
    <3>1. UNCHANGED <<heard, opening, loaded>> /\ current = None /\ worker = "testing"
      BY <2>3 DEF Moves, Test, runtimeVars, loadVars
    <3>2. current' = queue[1] /\ 1 \in 1 .. Len(queue)
      BY <1>0, <2>3, Taken DEF Moves
    <3>3. Known(s, 1)
      BY <2>0, <2>1, <3>2 DEF Announced
    <3>4. queue[1] # SessionEvent("open", s) /\ None \notin ReloadEvents
          /\ None # SessionEvent("open", s)
      BY <2>0, <3>2, MadeEvents, Kinds, NoneAssumption
    <3>5. KnownNow(s)
      BY <3>3, <3>4 DEF Known
    <3>6. opening = {}
      BY <3>1 DEF Traced
    <3> QED
      BY <2>0, <3>1, <3>4, <3>5, <3>6 DEF KnownNow, Running
  <2>4. CASE ~Moves
    <3>1. current' = current
      <4>1. CASE Rests
        BY <2>0, <4>1, NoneAssumption DEF Rests
      <4>2. ASSUME NEW e \in Events, Grows(e) PROVE current' = current
        BY <4>2 DEF Grows
      <4>3. CASE Empties
        BY <4>3 DEF Empties
      <4> QED
        BY <2>4, <4>1, <4>2, <4>3, LineMoves
    <3>2. worker = "dispatching"
      BY <2>0, <3>1, MadeEvents, Kinds, NoneAssumption DEF Typed, TypeOK
    <3>3. KnownNow(s)
      BY <2>0, <2>1, <3>1, <3>2, MadeEvents DEF Announced, AnnouncedFirst, KnownNow, Running
    <3>4. KnownNow(s)'
      BY <2>0, <2>1, <2>4, <3>3, KnownStays
    <3> QED
      BY <2>0, <2>2, <3>4
  <2> QED
    BY <2>3, <2>4
<1> QED
  BY <1>1, <1>2, <1>3 DEF Announced, Known, KnownNow, Running, SessionEvent

-----------------------------------------------------------------------------
(* Requests and their answers.                                                 *)

(* What stays in the line.                                                     *)
LEMMA Departures ==
  ASSUME Typed, [Next]_vars, NEW e \in InLine, e \in Events, e \notin InLine', ~Empties
  PROVE  e = current /\ current' = None
<1> USE DEF InLine
<1>0. queue \in Seq(Events) /\ Len(queue) \in Nat
  BY DEF Typed
<1>1. CASE Rests
  BY <1>1 DEF Rests, Queued
<1>2. ASSUME NEW x \in Events, Grows(x)
      PROVE  e \in InLine'
  <2>1. /\ Len(queue') = Len(queue) + 1 /\ current' = current
        /\ \A i \in 1 .. Len(queue) : queue'[i] = queue[i]
    BY <1>0, <1>2, Appended DEF Grows
  <2>2. CASE e = current
    BY <2>1, <2>2
  <2>3. CASE e \in Queued
    <3>1. PICK i \in 1 .. Len(queue) : e = queue[i]
      BY <2>3 DEF Queued
    <3>2. i \in 1 .. Len(queue') /\ e = queue'[i]
      BY <1>0, <2>1, <3>1
    <3> QED
      BY <3>2 DEF Queued
  <2> QED
    BY <2>2, <2>3
<1>3. CASE Moves
  <2>1. /\ current' = queue[1] /\ Len(queue) \in Nat \ {0} /\ current = None
        /\ Len(queue') = Len(queue) - 1
        /\ \A i \in 1 .. Len(queue) - 1 : queue'[i] = queue[i + 1]
    BY <1>0, <1>3, Taken DEF Moves
  <2>2. PICK i \in 1 .. Len(queue) : e = queue[i]
    BY <2>1, NoneAssumption DEF Queued
  <2>3. i # 1
    BY <2>1, <2>2
  <2>4. i - 1 \in 1 .. Len(queue') /\ queue'[i - 1] = e
    BY <2>1, <2>2, <2>3
  <2> QED
    BY <2>4 DEF Queued
<1> QED
  BY <1>1, <1>2, <1>3, LineMoves

(* What a step may do to requests.                                             *)
RequestsKept == UNCHANGED <<pending, flight, nextId>>

LEMMA RequestSteps ==
  ASSUME Typed, [Next]_vars
  PROVE  \/ RequestsKept
         \/ \E r \in flight : /\ HttpReturns(r) /\ flight' = flight \ {r}
                               /\ UNCHANGED <<pending, nextId>>
         \/ \E s \in Sessions, kept \in SUBSET pending : Asked(s, kept)
         \/ pending' = {} /\ UNCHANGED <<flight, nextId>>
<1> DEFINE Claim ==
      \/ RequestsKept
      \/ \E r \in flight : /\ HttpReturns(r) /\ flight' = flight \ {r}
                            /\ UNCHANGED <<pending, nextId>>
      \/ \E s \in Sessions, kept \in SUBSET pending : Asked(s, kept)
      \/ pending' = {} /\ UNCHANGED <<flight, nextId>>
<1> USE DEF RequestsKept, runtimeVars
<1>1. ASSUME NEW t \in Sessions, Terminal(t) PROVE Claim
  BY <1>1 DEF Terminal, Register, PostOpen, FindForOutput, PostOutput, Unregister, PostClose
<1>2. ASSUME NEW c \in Callers, Caller(c) PROVE Claim
  BY <1>2 DEF Caller, SavePlugin, SaveFails, DeletePlugin, ReloadRequest, PostReload,
              ReloadTimeout
<1>3. ASSUME NEW r \in flight, HttpReturns(r) PROVE Claim
  BY <1>3 DEF HttpReturns
<1>4. CASE Stop
  BY <1>4 DEF Stop, StopTakesQueue, StopClears, StopRequests, StopNotifies, StopJoins
<1>5. CASE FirstLoad \/ FetchQueue \/ Test \/ Sleep \/ ReloadCopy \/ ReloadDone
  BY <1>5 DEF FirstLoad, FetchQueue, Test, Sleep, ReloadCopy, ReloadDone
<1>6. CASE Dispatch
  <2>1. /\ current.kind \in {"open", "output", "close"} /\ current.session \in Sessions
        /\ Handle(current.kind, current.session) /\ worker # "loading"
    BY <1>6, Kinds DEF Dispatch, Typed, TypeOK
  <2> QED
    BY <2>1, Handled
<1>7. CASE CompleteHttp
  <2>1. CASE Waiting(current.id) = {}
    BY <1>7, <2>1 DEF CompleteHttp, NoJavaScript
  <2>2. CASE Waiting(current.id) # {}
    <3>1. PICK p \in Waiting(current.id) : JavaScript(p.session, StillWaiting(current.id))
      BY <1>7, <2>2 DEF CompleteHttp
    <3>2. p.session \in Sessions
      BY <3>1 DEF Waiting, Requests, Typed, TypeOK
    <3> QED
      BY <3>1, <3>2, ScriptAsks DEF StillWaiting
  <2> QED
    BY <2>1, <2>2
<1>8. CASE ReloadLoad
  BY <1>8 DEF ReloadLoad, CounterAfterReload
<1>9. ASSUME NEW t \in Sessions, ReloadOpen(t) PROVE Claim
  BY <1>9, Handled DEF ReloadOpen
<1>10. CASE UNCHANGED vars
  BY <1>10 DEF vars
<1> QED
  BY <1>1, <1>2, <1>3, <1>4, <1>5, <1>6, <1>7, <1>8, <1>9, <1>10 DEF Next, Worker

LEMMA NumberedStep ==
  ASSUME Typed, Numbered, [Next]_vars, Typed'
  PROVE  Numbered'
<1>0. /\ nextId \in Nat
      /\ \A r \in pending \cup flight : r.id \in Nat
      /\ \A e \in HttpEvents : e.id \in Nat
  BY SMTT(30), ConstantsAssumption DEF Typed, TypeOK, Requests, HttpEvents
<1> DEFINE Claim == /\ \A p \in pending' \cup flight' : p.id <= nextId'
                    /\ \A e \in flight', p \in pending' : Meet(e, p)
                    /\ nextId <= nextId'
                    /\ \A p \in pending' : p \in pending \/ p.id = nextId + 1
<1>1. Claim
  <2>1. CASE RequestsKept
    BY <1>0, <2>1 DEF RequestsKept, Numbered
  <2>2. ASSUME NEW r \in flight, flight' = flight \ {r}, UNCHANGED <<pending, nextId>>
        PROVE  Claim
    BY <1>0, <2>2 DEF Numbered
  <2>3. ASSUME NEW s \in Sessions, NEW kept \in SUBSET pending, Asked(s, kept)
        PROVE  Claim
    <3>1. RequestOf(s).id = nextId + 1
      BY DEF RequestOf
    <3>2. \A e \in flight, p \in pending : Meet(e, p) /\ e.id <= nextId /\ p.id <= nextId
      BY DEF Numbered
    <3>3. CASE pending' = kept /\ flight' = flight /\ nextId' \in {nextId, nextId + 1}
      <4>1. \A p \in pending \cup flight : p.id <= nextId
        BY DEF Numbered
      <4> QED
        BY <1>0, <3>2, <3>3, <4>1
    <3>4. CASE /\ pending' = kept \cup {RequestOf(s)} /\ flight' = flight \cup {RequestOf(s)}
               /\ nextId' = nextId + 1
      <4>1. \A p \in pending \cup flight : p.id <= nextId
        BY DEF Numbered
      <4>2. \A p \in pending' \cup flight' : p.id <= nextId'
        BY <1>0, <3>1, <3>4, <4>1
      <4>3. \A e \in flight', p \in pending' : Meet(e, p)
        BY <1>0, <3>1, <3>2, <3>4, <4>1 DEF Meet
      <4> QED
        BY <1>0, <3>1, <3>4, <4>2, <4>3
    <3> QED
      BY <2>3, <3>3, <3>4 DEF Asked
  <2>4. CASE pending' = {} /\ UNCHANGED <<flight, nextId>>
    BY <1>0, <2>4 DEF Numbered
  <2> QED
    BY <2>1, <2>2, <2>3, <2>4, RequestSteps
<1>2. ASSUME NEW e \in InLine', e \in HttpEvents
      PROVE  e.id <= nextId' /\ \A p \in pending' : Meet(e, p)
  <2>1. CASE e \in InLine
    <3>1. e.id <= nextId /\ \A p \in pending : Meet(e, p)
      BY <1>2, <2>1 DEF Numbered
    <3>2. e.id \in Nat /\ nextId' \in Nat
      BY <1>0, <1>2, ConstantsAssumption DEF Typed, TypeOK
    <3> QED
      BY <1>0, <1>1, <3>1, <3>2 DEF Meet
  <2>2. CASE e \notin InLine
    <3>1. Arrives(e)
      BY <1>2, <2>2, Arrivals, Kinds
    <3>2. PICK r \in flight : HttpReturns(r) /\ e = AnswerTo(r)
      BY <1>2, <3>1, Kinds, MadeEvents DEF Arrives
    <3>3. UNCHANGED <<pending, nextId>>
      BY <3>2 DEF HttpReturns
    <3>4. e.id = r.id /\ e.session = r.session /\ e.generation = r.generation
      BY <3>2 DEF AnswerTo
    <3> QED
      BY <3>3, <3>4 DEF Numbered, Meet
  <2> QED
    BY <2>1, <2>2
<1> QED
  BY <1>1, <1>2 DEF Numbered, Meet

LEMMA SlotsStep ==
  ASSUME Typed, SlotsAreFreed, [Next]_vars, Typed'
  PROVE  SlotsAreFreed'
<1> SUFFICES ASSUME accepting', NEW p \in pending', p \notin flight'
             PROVE  \E e \in InLine' : e \in HttpEvents /\ e.id = p.id
  <2>1. DOMAIN queue' = 1 .. Len(queue')
    BY DEF Typed
  <2>2. \A e \in InLine' : e = current' \/ \E i \in DOMAIN queue' : e = queue'[i]
    BY <2>1 DEF InLine, Queued
  <2> QED
    BY <2>2 DEF SlotsAreFreed
<1>1. accepting /\ ~Empties
  BY DEF Empties, Next, vars, Terminal, Register, PostOpen, FindForOutput, PostOutput,
     Unregister, PostClose, Post, Push, Caller, SavePlugin, SaveFails, DeletePlugin,
     ReloadRequest, PostReload, ReloadTimeout, HttpReturns, Worker, FirstLoad, FetchQueue, Test,
     Sleep, Dispatch, CompleteHttp, ReloadLoad, ReloadCopy, ReloadDone, ReloadOpen, Stop,
     StopTakesQueue, StopClears, StopRequests, StopNotifies, StopJoins, queueVars
<1>2. p \in pending
  BY RequestSteps DEF RequestsKept, Asked
<1>3. CASE p \in flight
  <2>1. PICK r \in flight : HttpReturns(r) /\ flight' = flight \ {r}
    BY <1>3, RequestSteps DEF RequestsKept, Asked
  <2>2. r = p
    BY <1>3, <2>1
  <2>3. Push(AnswerTo(p)) /\ AnswerTo(p) \in HttpEvents /\ AnswerTo(p).id = p.id
    BY <1>1, <1>2, <2>1, <2>2 DEF HttpReturns, AnswerTo, HttpEvents, Typed, TypeOK, Requests
  <2>4. Queued' = Queued \cup {AnswerTo(p)}
    BY <2>3, PushLine, Kinds DEF Typed
  <2> QED
    BY <2>3, <2>4 DEF InLine
<1>4. CASE p \notin flight
  <2>1. PICK e \in InLine : e \in HttpEvents /\ e.id = p.id
    <3>1. DOMAIN queue = 1 .. Len(queue)
      BY DEF Typed
    <3>2. /\ current \in InLine
          /\ \A i \in DOMAIN queue : queue[i] \in InLine
      BY <3>1 DEF InLine, Queued
    <3> QED
      BY <1>1, <1>2, <1>4, <3>2 DEF SlotsAreFreed
  <2>2. CASE e \in InLine'
    BY <2>1, <2>2
  <2>3. CASE e \notin InLine'
    <3>1. e = current /\ current' = None /\ current # None
      BY <1>1, <2>1, <2>3, Departures, Kinds, NoneAssumption
    <3>2. worker = "dispatching" /\ current.kind = "http"
      BY <2>1, <3>1, Kinds DEF Typed, TypeOK
    <3>3. CompleteHttp
      BY <3>1, <3>2 DEF Next, vars, Terminal, Register, PostOpen, FindForOutput, PostOutput,
         Unregister, PostClose, Caller, SavePlugin, SaveFails, DeletePlugin,
         ReloadRequest, PostReload, ReloadTimeout, HttpReturns, Worker, FirstLoad, FetchQueue, Test,
         Sleep, Dispatch, ReloadLoad, ReloadCopy, ReloadDone, ReloadOpen, Stop,
         StopTakesQueue, StopClears, StopRequests, StopNotifies, StopJoins
    <3>4. p \in Waiting(current.id)
      BY <1>2, <2>1, <3>1 DEF Waiting
    <3>5. PICK q \in Waiting(current.id) : JavaScript(q.session, StillWaiting(current.id))
      BY <3>3, <3>4 DEF CompleteHttp
    <3>6. q.session \in Sessions
      BY <3>5 DEF Waiting, Requests, Typed, TypeOK
    <3>7. Asked(q.session, StillWaiting(current.id))
      BY <3>5, <3>6, ScriptAsks
    <3> QED
      BY <3>4, <3>7 DEF Asked, StillWaiting
  <2> QED
    BY <2>2, <2>3
<1> QED
  BY <1>3, <1>4

-----------------------------------------------------------------------------
(* Changes of plugins take effect.                                             *)

(* The steps that touch neither plugins nor callers.                           *)
Unconcerned ==
  /\ UNCHANGED <<files, loaded, version, call>>
  /\ worker' \in {"loaded", "opening"} =>
       worker \in {"loaded", "opening"} /\ current' = current

LEMMA AppliedStep ==
  ASSUME Typed, Applied, [Next]_vars, Typed'
  PROVE  Applied'
<1> DEFINE Line == \A c \in Callers : Reload(c) \in InLine' => call'[c] \notin {"idle", "reload"}
           Rest == /\ SaveTakesEffect' /\ loaded'.count <= files'.count
                   /\ \A c \in Callers :
                        /\ version'[c] <= files'.count
                        /\ worker' \in {"loaded", "opening"} /\ current' = Reload(c) =>
                             loaded'.count >= version'[c]
<1>0. /\ files.count \in Nat /\ loaded.count \in Nat /\ version \in [Callers -> Nat]
      /\ call \in [Callers -> {"idle", "reload", "waiting", "ok", "error"}]
      /\ \A c \in Callers : Reload(c) \in Events
  BY MadeEvents, Kinds DEF Typed, TypeOK
<1>a. /\ loaded.count <= files.count
      /\ \A c \in Callers :
           /\ call[c] = "ok" => loaded.count >= version[c]
           /\ version[c] <= files.count
           /\ Reload(c) \in InLine => call[c] \notin {"idle", "reload"}
           /\ worker \in {"loaded", "opening"} /\ current = Reload(c) =>
                loaded.count >= version[c]
  BY DEF Applied, SaveTakesEffect
<1>b. \A c \in Callers : current = Reload(c) => call[c] \notin {"idle", "reload"}
  BY <1>a DEF InLine
<1>1. Line
  <2> SUFFICES ASSUME NEW c \in Callers, Reload(c) \in InLine'
               PROVE  call'[c] \notin {"idle", "reload"}
    OBVIOUS
  <2>1. CASE Reload(c) \in InLine
    <3>1. call[c] \notin {"idle", "reload"}
      BY <1>a, <2>1
    <3>2. ASSUME NEW d \in Callers, Caller(d) PROVE call'[c] \notin {"idle", "reload"}
      BY <1>0, <3>1, <3>2 DEF Caller, SavePlugin, SaveFails, DeletePlugin, ReloadRequest,
                              PostReload, ReloadTimeout
    <3>3. CASE ReloadDone
      BY <1>0, <3>1, <3>3 DEF ReloadDone
    <3>4. CASE StopClears
      BY <1>0, <3>1, <3>4 DEF StopClears
    <3>5. CASE UNCHANGED call
      BY <3>1, <3>5
    <3> QED
      BY <3>2, <3>3, <3>4, <3>5 DEF Next, vars, callVars, Terminal, Register, PostOpen,
         FindForOutput, PostOutput, Unregister, PostClose, HttpReturns, Worker, FirstLoad,
         FetchQueue, Test, Sleep, Dispatch, CompleteHttp, ReloadLoad, ReloadCopy, ReloadOpen,
         Stop, StopTakesQueue, StopRequests, StopNotifies, StopJoins
  <2>2. CASE Reload(c) \notin InLine
    <3>1. Arrives(Reload(c))
      BY <1>0, <2>2, Arrivals
    <3>2. PostReload(c)
      BY <3>1 DEF Arrives, SessionEvent, Reload, AnswerTo
    <3> QED
      BY <1>0, <3>2 DEF PostReload
  <2> QED
    BY <2>1, <2>2
<1>2. ASSUME Unconcerned PROVE Rest
  BY <1>a, <1>2 DEF Unconcerned, SaveTakesEffect
<1>3. ASSUME NEW t \in Sessions, Terminal(t) \/ ReloadOpen(t)
      PROVE  Unconcerned
  BY <1>3 DEF Terminal, Register, PostOpen, FindForOutput, PostOutput, Unregister, PostClose,
              Post, Push, Woken, ReloadOpen, callVars, loadVars, Unconcerned
<1>4. ASSUME NEW r \in flight, HttpReturns(r) PROVE Unconcerned
  BY <1>4 DEF HttpReturns, Push, Woken, callVars, loadVars, Unconcerned
<1>5. ASSUME FetchQueue \/ Test \/ Sleep \/ Dispatch \/ CompleteHttp \/ ReloadCopy \/ UNCHANGED vars
      PROVE  Unconcerned
  BY <1>5 DEF FetchQueue, Test, Sleep, Dispatch, CompleteHttp, ReloadCopy, Finished, vars,
              callVars, loadVars, Unconcerned
<1>6. ASSUME StopTakesQueue \/ StopRequests \/ StopNotifies \/ StopJoins
      PROVE  Unconcerned
  BY <1>6 DEF StopTakesQueue, StopRequests, StopNotifies, StopJoins, Woken, callVars, loadVars,
              Unconcerned
<1>7. ASSUME FirstLoad PROVE Rest
  BY <1>0, <1>a, <1>7 DEF FirstLoad, LoadPlugins, callVars, SaveTakesEffect
<1>8. ASSUME ReloadLoad PROVE Rest
  BY <1>0, <1>a, <1>8 DEF ReloadLoad, LoadPlugins, callVars, SaveTakesEffect
<1>9. ASSUME ReloadDone PROVE Rest
  <2>1. current \in ReloadEvents /\ current.by \in Callers /\ current = Reload(current.by)
        /\ worker = "opening"
    BY <1>9, Kinds DEF ReloadDone, Typed
  <2>2. loaded.count >= version[current.by]
    BY <1>a, <2>1
  <2>3. UNCHANGED <<files, loaded, version>> /\ worker' = "testing"
        /\ call' = [call EXCEPT ![current.by] = IF @ = "waiting" THEN "ok" ELSE @]
    BY <1>9 DEF ReloadDone, Finished, loadVars
  <2>4. \A c \in Callers : call'[c] = "ok" => loaded.count >= version[c]
    BY <1>0, <1>a, <2>1, <2>2, <2>3
  <2> QED
    BY <1>a, <2>3, <2>4 DEF SaveTakesEffect
<1>10. ASSUME StopClears PROVE Rest
  <2>1. \A c \in Callers : call'[c] = "ok" => call[c] = "ok"
    BY <1>0, <1>10 DEF StopClears
  <2> QED
    BY <1>a, <1>10, <2>1 DEF StopClears, loadVars, SaveTakesEffect
<1>11. ASSUME NEW d \in Callers, PostReload(d) \/ ReloadTimeout(d)
       PROVE  Rest
  <2>1. \A c \in Callers : call'[c] = "ok" => call[c] = "ok"
    BY <1>0, <1>11 DEF PostReload, ReloadTimeout
  <2>2. /\ UNCHANGED <<files, loaded, version, current>>
        /\ worker' \in {"loaded", "opening"} => worker \in {"loaded", "opening"}
    BY <1>11 DEF PostReload, ReloadTimeout, Post, Push, Woken, loadVars, queueVars
  <2> QED
    BY <1>a, <2>1, <2>2 DEF SaveTakesEffect
<1>12. ASSUME NEW d \in Callers, SavePlugin(d) \/ SaveFails(d) \/ DeletePlugin(d) \/ ReloadRequest(d)
       PROVE  Rest
  <2>1. /\ call[d] = "idle" /\ call'[d] \in {"reload", "error"}
        /\ \A c \in Callers \ {d} : call'[c] = call[c] /\ version'[c] = version[c]
        /\ UNCHANGED <<loaded, worker, current>>
    BY <1>0, <1>12 DEF SavePlugin, SaveFails, DeletePlugin, ReloadRequest, Changed, loadVars
  <2>2. /\ files'.count \in {files.count, files.count + 1}
        /\ version'[d] = files'.count
    BY <1>0, <1>12 DEF SavePlugin, SaveFails, DeletePlugin, ReloadRequest, Changed
  <2>3. \A c \in Callers : version'[c] <= files'.count
    BY <1>0, <1>a, <2>1, <2>2
  <2>4. loaded'.count <= files'.count
    BY <1>0, <1>a, <2>1, <2>2
  <2>5. \A c \in Callers : call'[c] = "ok" => loaded'.count >= version'[c]
    BY <1>a, <2>1
  <2>6. current # Reload(d)
    BY <1>b, <2>1
  <2>7. \A c \in Callers : worker' \in {"loaded", "opening"} /\ current' = Reload(c) =>
          loaded'.count >= version'[c]
    BY <1>a, <2>1, <2>6
  <2> QED
    BY <2>3, <2>4, <2>5, <2>7 DEF SaveTakesEffect
<1>13. Rest
  BY <1>2, <1>3, <1>4, <1>5, <1>6, <1>7, <1>8, <1>9, <1>10, <1>11, <1>12
     DEF Next, Caller, Worker, Stop
<1> QED
  BY <1>1, <1>13 DEF Applied, Reload

-----------------------------------------------------------------------------
(* The theorems.                                                               *)

LEMMA Invariance == Spec => []IInv
<1>1. Init => IInv
  <2> SUFFICES ASSUME Init PROVE IInv
    OBVIOUS
  <2>1. Typed
    BY TypedInit
  <2>2. /\ Queued = {} /\ InLine = {None} /\ Len(queue) = 0
        /\ \A s \in Sessions : owner[s] = "new"
    BY DEF Init, Queued, InLine
  <2>3. \A s \in Sessions : SessionEvent("output", s) # None /\ SessionEvent("close", s) # None
    BY MadeEvents, Kinds, NoneAssumption
  <2>4. \A c \in Callers : Reload(c) # None
    BY MadeEvents, Kinds, NoneAssumption
  <2>5. Traced
    BY <2>2, <2>3 DEF Init, Traced
  <2>6. Announced
    BY DEF Init, Announced, AnnouncedFirst
  <2>7. Closing
    BY <2>2, <2>3, MadeEvents, Kinds DEF Init, Closing, EndAt
  <2>8. Numbered
    BY <2>2, Kinds, NoneAssumption DEF Init, Numbered
  <2>9. SlotsAreFreed
    BY DEF Init, SlotsAreFreed
  <2>10. Applied
    BY <2>2, <2>4 DEF Init, Applied, SaveTakesEffect
  <2> QED
    BY <2>1, <2>5, <2>6, <2>7, <2>8, <2>9, <2>10 DEF IInv
<1>2. IInv /\ [Next]_vars => IInv'
  <2> SUFFICES ASSUME IInv, [Next]_vars PROVE IInv'
    OBVIOUS
  <2> USE DEF IInv
  <2>1. Typed'
    BY TypedStep
  <2>2. Traced'
    BY TracedStep
  <2>3. Announced'
    BY <2>1, <2>2, AnnouncedStep
  <2>4. Closing'
    BY <2>2, ClosingStep
  <2>5. Numbered'
    BY <2>1, NumberedStep
  <2>6. SlotsAreFreed'
    BY <2>1, SlotsStep
  <2>7. Applied'
    BY <2>1, AppliedStep
  <2> QED
    BY <2>1, <2>2, <2>3, <2>4, <2>5, <2>6, <2>7
<1> QED
  BY <1>1, <1>2, PTL DEF Spec

(* The variables keep their types, the numbers of requests and the jobs left   *)
(* in a runtime their bounds.                                                  *)
THEOREM PluginTypes == Spec => []TypeOK
<1>1. IInv => TypeOK
  BY DEF IInv, Typed
<1> QED
  BY <1>1, Invariance, PTL

(* No plugin gets output of a terminal that is there and was not announced to  *)
(* it, however registering, reloading and stopping interleave (RegisterSession *)
(* and the Reload branch of DispatchEvent).                                    *)
THEOREM AnnouncementPromise == Spec => []AnnouncedFirst
<1>1. IInv => AnnouncedFirst
  BY DEF IInv, Announced
<1> QED
  BY <1>1, Invariance, PTL

(* A session whose Close was handled stays over: no reload opens it again, and *)
(* no output of it follows, but for the one piece that the reader of a serial  *)
(* port, which is stopped after UnregisterSession, had in hand.                *)
THEOREM ClosePromise == Spec => []ClosedIsOver
<1>1. IInv => ClosedIsOver
  <2> SUFFICES ASSUME IInv, NEW s \in closed
               PROVE  /\ s \notin registered \cup opening
                      /\ \A e \in {current} \cup {queue[i] : i \in DOMAIN queue} :
                           e \notin Bounds(s)
                      /\ \A i, k \in OutputOf(s) : s \in Shared /\ i = k
    BY DEF ClosedIsOver, Bounds
  <2>1. s \in Sessions /\ DOMAIN queue = 1 .. Len(queue) /\ Len(queue) \in Nat
    BY DEF IInv, Typed, TypeOK
  <2>2. s \notin registered
    BY <2>1 DEF IInv, Traced
  <2>3. EndAt(s, 0) /\ 0 \in 0 .. Len(queue)
    BY <2>1 DEF EndAt
  <2>4. Over(s, 0) /\ s \notin opening /\ current \notin Bounds(s)
    BY <2>1, <2>3 DEF IInv, Closing
  <2> QED
    BY <2>1, <2>2, <2>4 DEF Over, OutputOf
<1> QED
  BY <1>1, Invariance, PTL

(* A response reaches the promise of its own request, across reloads.          *)
THEOREM ResponsePromise == Spec => []ResponseMeetsItsRequest
<1>1. IInv => ResponseMeetsItsRequest
  <2> SUFFICES ASSUME IInv, worker = "dispatching", current.kind = "http",
                      NEW p \in Waiting(current.id)
               PROVE  p.session = current.session /\ p.generation = current.generation
    BY DEF ResponseMeetsItsRequest
  <2>1. current \in HttpEvents /\ current \in InLine
    BY Kinds DEF IInv, Typed, TypeOK, InLine
  <2>2. p \in pending /\ p.id = current.id
    BY DEF Waiting
  <2>3. Meet(current, p)
    BY <2>1, <2>2 DEF IInv, Numbered
  <2> QED
    BY <2>2, <2>3 DEF Meet
<1> QED
  BY <1>1, Invariance, PTL

(* Every promise that counts against maxConcurrentRequests has its thread, or  *)
(* its completion in the queue.                                                *)
THEOREM SlotsPromise == Spec => []SlotsAreFreed
<1>1. IInv => SlotsAreFreed
  BY DEF IInv
<1> QED
  BY <1>1, Invariance, PTL

(* Who saved a plugin, deleted one or asked for a reload, and got no error,    *)
(* finds the change in the runtime, however the callers overlap.               *)
THEOREM SavePromise == Spec => []SaveTakesEffect
<1>1. IInv => SaveTakesEffect
  BY DEF IInv, Applied
<1> QED
  BY <1>1, Invariance, PTL
=============================================================================
