----------------------------- MODULE SerialPorts -----------------------------
(***************************************************************************)
(* Serial ports of the server (serial/serial_service.cpp).  The browsers   *)
(* that open one port share one Session, which owns the device and a       *)
(* reader thread; the last one to leave closes the port.  One port is      *)
(* enough: ports meet only in the mutex of the service.                    *)
(*                                                                         *)
(* A piece is what one read of the device returns, known by its number.    *)
(* A Session object is known by its index in sess; it lives as long as     *)
(* something refers to it (shared_ptr), and its destructor, run by         *)
(* whoever lets go last, joins the thread and then closes the device.      *)
(***************************************************************************)
EXTENDS Integers, Sequences, FiniteSets

CONSTANTS
  Viewers,      \* WebSocket connections
  PortOptions,  \* sets of options a browser may ask for
  None,
  MaxSessions,  \* bound: Session objects made
  MaxPieces,    \* bound: pieces a session reads
  BacklogSize,  \* kMaximumBacklogBytes, in pieces
  MaxQueued     \* kMaximumQueuedWriteBytes, in writes

ASSUME SerialAssumption == None \notin Viewers /\ {MaxPieces, MaxQueued} \subseteq Nat

VARIABLES
  sess,      \* the Session objects made so far
  table,     \* sessions_[port], an index of sess, 0 for none
  serviceLock,  \* SerialService::mutex_: the connection whose handler has it
  ws,        \* a connection: open, closing (lost, not yet handled) or gone
  step,      \* where the handler of a connection is
  subs,      \* subscriptions_: the session of a connection, 0 for none
  uses,      \* the session a running handler holds a shared_ptr to
  waits,     \* the session whose destructor a handler runs
  copy,      \* the backlog Add has copied
  since,     \* pieces read when Add registered the connection
  got        \* what the browser has received since it asked

serialVars == <<sess, table, serviceLock, ws, step, subs, uses, waits, copy, since, got>>
handlerVars == <<serviceLock, ws, step, subs, uses, waits, copy, since>>

SerialInit ==
  /\ sess = <<>> /\ table = 0 /\ serviceLock = None
  /\ ws = [c \in Viewers |-> "open"]
  /\ step = [c \in Viewers |-> "fresh"]
  /\ subs = [c \in Viewers |-> 0]
  /\ uses = [c \in Viewers |-> 0]
  /\ waits = [c \in Viewers |-> 0]
  /\ copy = [c \in Viewers |-> <<>>]
  /\ since = [c \in Viewers |-> 0]
  /\ got = [c \in Viewers |-> <<>>]

-----------------------------------------------------------------------------
(* Helpers.                                                                *)

Connected(c) == ws[c] = "open"

\* CollectConnections: the entries of lost connections are erased.
Collect(s) == {c \in sess[s].viewers : Connected(c)}

\* Somebody holds a shared_ptr to s; `but` is the one who is about to drop it.
ReferencedBut(s, but) == table = s \/ \E c \in Viewers \ {but} : uses[c] = s
Referenced(s) == ReferencedBut(s, None)

\* flock and TIOCEXCL: one open descriptor per device.
DeviceFree == \A s \in DOMAIN sess : ~sess[s].open

NewSession(o) ==
  [options |-> o, running |-> TRUE, open |-> TRUE, viewers |-> {}, backlog |-> <<>>,
   read |-> 0, queue |-> 0, thread |-> "reading", out |-> {}]

\* The last kMaximumBacklogBytes are kept.
Trim(b) == IF Len(b) > BacklogSize THEN Tail(b) ELSE b

FailureNotice == 0  \* the "error" message, beside the numbers of the pieces

\* A message to a set of connections: those that are lost do not get it.
SendTo(to, m) ==
  got' = [c \in Viewers |-> IF c \in to /\ Connected(c) THEN got[c] \o m ELSE got[c]]

-----------------------------------------------------------------------------
(* Attach: the service mutex is held from AskOpen to Answer.               *)

\* Mutant: the handlers do not exclude each other.
AlwaysFree == TRUE
LockFree == serviceLock = None

PortRuns == table # 0 /\ sess[table].running

\* A tab opens a connection for each session and asks once on it
\* (SerialTool.vue).  The running session is joined if the options agree (if not, the request
\* is refused and nothing changes); a dead one is dropped from the table.
AskOpen(c, o) ==
  /\ Connected(c) /\ step[c] = "fresh" /\ LockFree
  /\ serviceLock' = c
  /\ \/ /\ PortRuns
        /\ sess[table].options = o
        /\ step' = [step EXCEPT ![c] = "adding"]
        /\ uses' = [uses EXCEPT ![c] = table]
        /\ UNCHANGED <<table, waits>>
     \/ /\ ~PortRuns
        /\ step' = [step EXCEPT ![c] = "opening"]
        /\ waits' = [waits EXCEPT ![c] =
             IF table # 0 /\ ~(\E d \in Viewers : uses[d] = table) THEN table ELSE 0]
        /\ table' = 0
        /\ UNCHANGED uses
  /\ UNCHANGED <<sess, ws, subs, copy, since, got>>

\* The destructor a handler has to run to its end is over.
Waited(c) == ~(waits[c] # 0 /\ sess[waits[c]].open)

\* Session::Session opens the device and Start starts the thread.  (The
\* options are those of the request: AskOpen has not used them yet.)
OpenDevice(c, o) ==
  /\ step[c] = "opening" /\ Waited(c)
  /\ DeviceFree
  /\ Len(sess) < MaxSessions
  /\ sess' = Append(sess, NewSession(o))
  /\ table' = Len(sess) + 1
  /\ uses' = [uses EXCEPT ![c] = Len(sess) + 1]
  /\ waits' = [waits EXCEPT ![c] = 0]
  /\ step' = [step EXCEPT ![c] = "adding"]
  /\ UNCHANGED <<serviceLock, ws, subs, copy, since, got>>

\* The device is busy, gone or does not take the options: Attach throws.
OpenFails(c) ==
  /\ step[c] = "opening" /\ Waited(c)
  /\ step' = [step EXCEPT ![c] = "idle"]
  /\ waits' = [waits EXCEPT ![c] = 0]
  /\ serviceLock' = None
  /\ UNCHANGED <<sess, table, ws, subs, uses, copy, since, got>>

\* Session::Add, with its mutex.
AddViewer(c) ==
  LET s == uses[c] IN
  /\ step[c] = "adding"
  /\ subs' = [subs EXCEPT ![c] = s]
  /\ sess' = [sess EXCEPT ![s].viewers = @ \cup {c}]
  /\ copy' = [copy EXCEPT ![c] = sess[s].backlog]
  /\ since' = [since EXCEPT ![c] = IF Connected(c) THEN sess[s].read ELSE 0]
  /\ step' = [step EXCEPT ![c] = "answering"]
  /\ UNCHANGED <<table, serviceLock, ws, uses, waits, got>>

\* Mutant: the backlog is read again when it is sent.
LateBacklog(c) == sess[uses[c]].backlog
\* The backlog that goes with "opened".
BacklogOf(c) == copy[c]

\* "opened" and the backlog are sent, the state is broadcast.
Answer(c) ==
  /\ step[c] = "answering"
  /\ SendTo({c}, BacklogOf(c))
  /\ sess' = [sess EXCEPT ![uses[c]].viewers = Collect(uses[c])]
  /\ step' = [step EXCEPT ![c] = "idle"]
  /\ uses' = [uses EXCEPT ![c] = 0]
  /\ copy' = [copy EXCEPT ![c] = <<>>]
  /\ serviceLock' = None
  /\ UNCHANGED <<table, ws, subs, waits, since>>

-----------------------------------------------------------------------------
(* Detach and Write.                                                       *)

\* The handler of c drops its reference to s: it runs the destructor if
\* nobody else has one, and is done otherwise.
LetGo(c, s, others) ==
  IF s = 0 \/ others
    THEN /\ step' = [step EXCEPT ![c] = "idle"]
         /\ UNCHANGED waits
    ELSE /\ step' = [step EXCEPT ![c] = "releasing"]
         /\ waits' = [waits EXCEPT ![c] = s]

\* Session::Remove: who is left (and counted, connected or not).
Remaining(s, c) == sess[s].viewers \ {c}

\* "close", or the connection was lost: the subscription goes, and with the
\* last one the session leaves the table.
DetachViewer(c) ==
  LET s == subs[c]
      alive == s # 0 /\ Referenced(s)
      rest == Remaining(s, c)
  IN
  /\ step[c] = "idle" /\ LockFree /\ s # 0
  /\ subs' = [subs EXCEPT ![c] = 0]
  /\ \/ /\ ~alive
        /\ UNCHANGED <<sess, table, step, waits>>
     \/ /\ alive /\ rest # {}
        /\ sess' = [sess EXCEPT ![s].viewers = {d \in rest : Connected(d)}]
        /\ UNCHANGED <<table, step, waits>>
     \/ /\ alive /\ rest = {}
        /\ sess' = [sess EXCEPT ![s].viewers = {}]
        /\ table' = IF table = s THEN 0 ELSE table
        /\ LetGo(c, IF table = s THEN s ELSE 0, \E d \in Viewers : uses[d] = s)
  /\ since' = [since EXCEPT ![c] = 0]
  /\ got' = [got EXCEPT ![c] = <<>>]
  /\ UNCHANGED <<serviceLock, ws, uses, copy>>

\* The destructor has returned.
Released(c) ==
  /\ step[c] = "releasing" /\ Waited(c)
  /\ step' = [step EXCEPT ![c] = "idle"]
  /\ waits' = [waits EXCEPT ![c] = 0]
  /\ UNCHANGED <<sess, table, serviceLock, ws, subs, uses, copy, since, got>>

\* Write finds the session with the service mutex ...
FindSession(c) ==
  /\ Connected(c) /\ step[c] = "idle" /\ LockFree
  /\ subs[c] # 0 /\ Referenced(subs[c])
  /\ uses' = [uses EXCEPT ![c] = subs[c]]
  /\ step' = [step EXCEPT ![c] = "writing"]
  /\ UNCHANGED <<sess, table, serviceLock, ws, subs, waits, copy, since, got>>

\* Mutant: the limit is tested before the data are counted.
OneMore(s) == sess[s].running /\ sess[s].queue <= MaxQueued
Fits(s) == sess[s].running /\ sess[s].queue < MaxQueued

\* ... and queues with the mutex of the session, or throws.
QueueWrite(c) ==
  LET s == uses[c] IN
  /\ step[c] = "writing"
  /\ sess' = IF Fits(s) THEN [sess EXCEPT ![s].queue = @ + 1] ELSE sess
  /\ uses' = [uses EXCEPT ![c] = 0]
  /\ LetGo(c, s, ReferencedBut(s, c))
  /\ UNCHANGED <<table, serviceLock, ws, subs, copy, since, got>>

\* A connection is lost; its handler runs when the earlier ones are done.
\* (What it received is of no interest from now on.)
Lose(c) ==
  /\ Connected(c)
  /\ ws' = [ws EXCEPT ![c] = "closing"]
  /\ got' = [got EXCEPT ![c] = <<>>]
  /\ since' = [since EXCEPT ![c] = 0]
  /\ UNCHANGED <<sess, table, serviceLock, step, subs, uses, waits, copy>>

HandleClosed(c) ==
  /\ ws[c] = "closing" /\ step[c] \in {"fresh", "idle"} /\ subs[c] = 0
  /\ ws' = [ws EXCEPT ![c] = "gone"]
  /\ UNCHANGED <<sess, table, serviceLock, step, subs, uses, waits, copy, since, got>>

-----------------------------------------------------------------------------
(* Session::Run, the thread of s.                                          *)

\* The destructor has asked the thread to stop.
StopRequested(s) == ~Referenced(s)

ReadPiece(s) ==
  /\ sess[s].thread = "reading" /\ ~StopRequested(s)
  /\ sess[s].read < MaxPieces
  /\ sess' = [sess EXCEPT ![s].read = @ + 1,
                          ![s].backlog = Trim(Append(@, sess[s].read + 1)),
                          ![s].viewers = Collect(s),
                          ![s].out = Collect(s),
                          ![s].thread = "sending"]
  /\ UNCHANGED <<table, handlerVars, got>>

SendPiece(s) ==
  /\ sess[s].thread = "sending"
  /\ SendTo(sess[s].out, <<sess[s].read>>)
  /\ sess' = [sess EXCEPT ![s].thread = "reading", ![s].out = {}]
  /\ UNCHANGED <<table, handlerVars>>

TakeWrite(s) ==
  /\ sess[s].thread = "reading" /\ sess[s].queue > 0
  /\ sess' = [sess EXCEPT ![s].queue = @ - 1, ![s].thread = "writing"]
  /\ UNCHANGED <<table, handlerVars, got>>

\* The device takes the rest of the write; it may also never do so.
DeviceTakes(s) ==
  /\ sess[s].thread = "writing"
  /\ sess' = [sess EXCEPT ![s].thread = "reading"]
  /\ UNCHANGED <<table, handlerVars, got>>

\* Mutant: the inner loop waits for the device whatever happens.
BetweenRounds(s) == sess[s].thread = "reading"
\* Both loops test the stop token.
SeesStop(s) == sess[s].thread \in {"reading", "writing"}

StopThread(s) ==
  /\ SeesStop(s) /\ StopRequested(s)
  /\ sess' = [sess EXCEPT ![s].running = FALSE, ![s].thread = "ended"]
  /\ UNCHANGED <<table, handlerVars, got>>

\* Fail: running_ first, then the viewers are told.
DeviceFails(s) ==
  /\ sess[s].thread \in {"reading", "writing"}
  /\ sess' = [sess EXCEPT ![s].running = FALSE, ![s].thread = "failing"]
  /\ UNCHANGED <<table, handlerVars, got>>

TellFailure(s) ==
  /\ sess[s].thread = "failing"
  /\ SendTo(Collect(s), <<FailureNotice>>)
  /\ sess' = [sess EXCEPT ![s].viewers = Collect(s), ![s].thread = "ended"]
  /\ UNCHANGED <<table, handlerVars>>

\* The join is over: the destructor closes the device.
CloseDevice(s) ==
  /\ sess[s].thread = "ended" /\ sess[s].open /\ ~Referenced(s)
  /\ sess' = [sess EXCEPT ![s].open = FALSE]
  /\ UNCHANGED <<table, handlerVars, got>>

-----------------------------------------------------------------------------
HandlerStep(c) ==
  \/ \E o \in PortOptions : OpenDevice(c, o)
  \/ OpenFails(c)
  \/ AddViewer(c)
  \/ Answer(c)
  \/ Released(c)
  \/ QueueWrite(c)
  \/ HandleClosed(c)

ThreadStep(s) ==
  \/ SendPiece(s)
  \/ StopThread(s)
  \/ TellFailure(s)
  \/ CloseDevice(s)

SerialNext ==
  \/ \E c \in Viewers : HandlerStep(c)
  \/ \E c \in Viewers, o \in PortOptions : AskOpen(c, o)
  \/ \E c \in Viewers : DetachViewer(c)
  \/ \E c \in Viewers : FindSession(c)
  \/ \E c \in Viewers : Lose(c)
  \/ \E s \in DOMAIN sess : ThreadStep(s)
  \/ \E s \in DOMAIN sess : ReadPiece(s)
  \/ \E s \in DOMAIN sess : TakeWrite(s)
  \/ \E s \in DOMAIN sess : DeviceTakes(s)
  \/ \E s \in DOMAIN sess : DeviceFails(s)

\* Handlers and threads go on; users, lines and devices owe nothing.
SerialFairness ==
  /\ \A c \in Viewers :
       /\ WF_serialVars(HandlerStep(c))
       /\ SF_serialVars(ws[c] = "closing" /\ DetachViewer(c))
  /\ \A s \in 1 .. MaxSessions : WF_serialVars(s \in DOMAIN sess /\ ThreadStep(s))

SerialSpec == SerialInit /\ [][SerialNext]_serialVars /\ SerialFairness

-----------------------------------------------------------------------------
Session ==
  [options : PortOptions, running : BOOLEAN, open : BOOLEAN, viewers : SUBSET Viewers,
   backlog : Seq(1 .. MaxPieces), read : 0 .. MaxPieces, queue : 0 .. MaxQueued,
   thread : {"reading", "sending", "writing", "failing", "ended"}, out : SUBSET Viewers]

SerialTypeOK ==
  /\ sess \in Seq(Session)
  /\ table \in 0 .. Len(sess)
  /\ serviceLock \in Viewers \cup {None}
  /\ ws \in [Viewers -> {"open", "closing", "gone"}]
  /\ step \in [Viewers -> {"fresh", "idle", "opening", "adding", "answering",
                        "releasing", "writing"}]
  /\ \A c \in Viewers :
       /\ {subs[c], uses[c], waits[c]} \subseteq 0 .. Len(sess)
       /\ copy[c] \in Seq(1 .. MaxPieces)
       /\ since[c] \in 0 .. MaxPieces
       /\ got[c] \in Seq(0 .. MaxPieces)

\* A session that a connected browser was added to, and that has not failed,
\* stays the session of the port: the last Detach of somebody else does not
\* release it (the comments in Attach and Detach).
SharedSessionStays ==
  \A c \in Viewers :
    LET s == subs[c] IN
    (Connected(c) /\ s # 0) =>
      (sess[s].running => table = s /\ c \in sess[s].viewers)

\* Every connected browser has received each piece read since it was added
\* exactly once, behind a part of the backlog without a hole (the order is
\* not promised: the backlog can come after newer pieces).
EachPieceOnce ==
  \A c \in Viewers :
    LET s == subs[c]
        settled == /\ Connected(c) /\ s # 0 /\ step[c] # "answering"
                   /\ sess[s].thread # "sending"
    IN settled =>
         /\ \A i, j \in DOMAIN got[c] :
              got[c][i] = got[c][j] /\ got[c][i] # FailureNotice => i = j
         /\ \E k \in 1 .. since[c] + 1 :
              {got[c][i] : i \in DOMAIN got[c]} \ {FailureNotice} = k .. sess[s].read

\* When every browser is gone the device is closed, even if it takes no
\* more data.
PortIsReleased ==
  (\A c \in Viewers : ~Connected(c)) ~> DeviceFree

\* What the browsers on a shared port rely on, together.
SharedPortIsSafe == SharedSessionStays /\ EachPieceOnce
=============================================================================
