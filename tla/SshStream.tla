----------------------------- MODULE SshStream -----------------------------
(***************************************************************************)
(* The output of SSH sessions on its way to one browser tab: the numbered  *)
(* messages and the bounded buffer of SshSession (ssh_session.cpp), the    *)
(* connect, resume and terminate handlers of ssh_websocket.cpp, and the    *)
(* tab of SshTool.vue with its resume token and last sequence.             *)
(*                                                                         *)
(* The tab opens connections 1, 2, 3, ... and listens to the last one.  A  *)
(* connection carries two FIFO streams.  When it breaks, what is under way *)
(* to the tab is lost, while the server may still handle what it received  *)
(* before it notices.                                                      *)
(***************************************************************************)
EXTENDS Naturals, Sequences, FiniteSets, FiniteSetsExt

CONSTANTS
  MaxConns,     \* bound: connections the tab opens
  MaxSessions,  \* bound: sessions the server creates for the tab
  MaxOutput,    \* bound: messages of a session
  Sizes,        \* sizes of a message
  BufferLimit   \* kDetachedOutputBufferBytes

ASSUME BoundsAssumption ==
  /\ MaxConns \in Nat \ {0} /\ MaxSessions \in Nat \ {0} /\ MaxOutput \in Nat
  /\ Sizes \subseteq Nat \ {0} /\ BufferLimit \in Nat \ {0}

None == 0
Conns == 1..MaxConns
Sessions == 1..MaxSessions
MaxTokens == MaxSessions + MaxConns

VARIABLES
  \* sessions
  written,   \* the sizes of the messages sent so far, by sequence number
  front,     \* the sequence of the first message in output_buffer_
  attached,  \* connection_id_
  token,     \* the key of the session in resumable_sessions_
  exited,    \* its last message was the status "closed"
  created,   \* sessions created so far
  drawn,     \* tokens drawn so far
  \* connections, as the server sees them
  stage,     \* "idle", or where HandleResume is: "attach", "gap"
  bound,     \* state->session
  own,       \* state->resume_token
  position,  \* lastSequence of the resume being handled
  gone,      \* handleConnectionClosed has run
  refused,   \* history: the last token a resume was refused for
  \* the network
  up, down, broken,
  \* the tab
  conns,     \* connections opened; tab.socket is the last one
  status,    \* "waiting" for a new connection, "live" or "ended"
  resume,    \* tab.resumeToken
  showing,   \* history: the session tab.resumeToken was given for
  seen,      \* tab.lastServerSequence
  missed     \* history: output was skipped and no gap message shown since

sessionVars == <<written, front, exited, created>>
tableVars == <<attached, token, drawn>>
serverVars == <<stage, bound, own, position, gone, refused>>
netVars == <<up, down, broken>>
tabVars == <<conns, status, resume, showing, seen, missed>>
vars == <<sessionVars, tableVars, serverVars, netVars, tabVars>>

Init ==
  /\ written = [s \in Sessions |-> <<>>]
  /\ front = [s \in Sessions |-> 1]
  /\ attached = [s \in Sessions |-> None]
  /\ token = [s \in Sessions |-> None]
  /\ exited = [s \in Sessions |-> FALSE]
  /\ created = 0
  /\ drawn = 0
  /\ stage = [c \in Conns |-> "idle"]
  /\ bound = [c \in Conns |-> None]
  /\ own = [c \in Conns |-> None]
  /\ position = [c \in Conns |-> 0]
  /\ gone = [c \in Conns |-> FALSE]
  /\ refused = None
  /\ up = [c \in Conns |-> <<>>]
  /\ down = [c \in Conns |-> <<>>]
  /\ broken = [c \in Conns |-> FALSE]
  /\ conns = 0
  /\ status = "waiting"
  /\ resume = None
  /\ showing = None
  /\ seen = 0
  /\ missed = FALSE

-----------------------------------------------------------------------------
(* Messages *)

\* connection->send, which does nothing once the connection is broken.
Send(c, msgs) ==
  down' = IF c = None \/ broken[c] THEN down ELSE [down EXCEPT ![c] = @ \o msgs]

Output(s, n) ==
  [type |-> IF exited[s] /\ n = Len(written[s]) THEN "closed" ELSE "output",
   seq |-> n]

\* The bytes of the first messages of w, and of those from the i-th on.
BytesUpTo(w) ==
  LET sum[n \in 0..Len(w)] == IF n = 0 THEN 0 ELSE sum[n - 1] + w[n] IN sum
Bytes(w, i) == BytesUpTo(w)[Len(w)] - BytesUpTo(w)[i - 1]

\* StoreBufferedMessage: the front of the buffer after w got its last message.
Trimmed(w, f) ==
  Min({g \in f..Len(w) : Bytes(w, g) <= BufferLimit \/ g = Len(w)})

-----------------------------------------------------------------------------
(* The sessions *)

\* SendOutput and SendEvent, under the session's mutex.
Emit(s, last) ==
  /\ token[s] # None
  /\ ~exited[s]
  /\ exited' = [exited EXCEPT ![s] = last]
  /\ \E n \in Sizes :
       LET w == Append(written[s], n) IN
       /\ written' = [written EXCEPT ![s] = w]
       /\ front' = [front EXCEPT ![s] = Trimmed(w, front[s])]
       /\ Send(attached[s], <<[type |-> IF last THEN "closed" ELSE "output",
                               seq |-> Len(w)]>>)
  /\ UNCHANGED <<created, tableVars, serverVars, up, broken, tabVars>>

Write(s) == Len(written[s]) < MaxOutput /\ Emit(s, FALSE)

\* The end of Run, whether the remote side closed or the connection failed.
Exit(s) == Emit(s, TRUE)

\* ExpireDetachedSession, 90 s after the last detach.
Expire(s) ==
  /\ token[s] # None
  /\ attached[s] = None
  /\ \A c \in Conns : stage[c] = "attach" => bound[c] # s
  /\ token' = [token EXCEPT ![s] = None]
  /\ UNCHANGED <<sessionVars, attached, drawn, serverVars, netVars, tabVars>>

-----------------------------------------------------------------------------
(* Handlers of a connection *)

\* The next request on a connection whose handler is idle.
Request(c, type) ==
  /\ ~gone[c]
  /\ stage[c] = "idle"
  /\ up[c] # <<>>
  /\ Head(up[c]).type = type
  /\ up' = [up EXCEPT ![c] = Tail(@)]

\* HandleConnect, with Start: one section of sessions_mutex_.
ServerConnect(c) ==
  /\ Request(c, "connect")
  /\ created < MaxSessions
  /\ LET s == created + 1 IN
     /\ created' = s
     /\ token' = [token EXCEPT ![s] = drawn + 1]
     /\ attached' = [attached EXCEPT ![s] = c]
     /\ bound' = [bound EXCEPT ![c] = s]
     /\ own' = [own EXCEPT ![c] = drawn + 1]
     /\ Send(c, <<[type |-> "session", token |-> drawn + 1, session |-> s]>>)
  /\ drawn' = drawn + 1
  /\ UNCHANGED <<written, front, exited, stage, position, gone, refused, broken,
                 tabVars>>

\* HandleResume with a token nobody holds any more.
ServerRefuse(c) ==
  /\ Request(c, "resume")
  /\ \A s \in Sessions : token[s] # Head(up[c]).token
  /\ refused' = Head(up[c]).token
  /\ Send(c, <<[type |-> "resume-failed"]>>)
  /\ UNCHANGED <<sessionVars, tableVars, stage, bound, own, position, gone,
                 broken, tabVars>>

\* HandleResume up to the "resumed" message.
ServerResume(c) ==
  /\ Request(c, "resume")
  /\ \E s \in Sessions :
       /\ token[s] = Head(up[c]).token
       /\ token' = [token EXCEPT ![s] = drawn + 1]
       /\ bound' = [bound EXCEPT ![c] = s]
  /\ own' = [own EXCEPT ![c] = drawn + 1]
  /\ drawn' = drawn + 1
  /\ position' = [position EXCEPT ![c] = Head(up[c]).last]
  /\ stage' = [stage EXCEPT ![c] = "attach"]
  /\ Send(c, <<[type |-> "resumed", token |-> drawn + 1]>>)
  /\ UNCHANGED <<sessionVars, attached, gone, refused, broken, tabVars>>

\* Mutants: one message too many is dropped as received; a gap is reported
\* when the next message is the first one in the buffer; the newest message is
\* missing from a copy of the buffer that was made before the attachment.
OneTooMany(s, last) == IF front[s] <= last THEN last + 2 ELSE front[s]
GapAtTheFront(s, last) == last < Len(written[s]) /\ last + 1 <= front[s]
OfACopy(s, f) == f..Len(written[s]) - 1

\* The front of the buffer once the messages the tab has are dropped.
FirstKept(s, last) ==
  IF front[s] <= last THEN Min({last, Len(written[s])}) + 1 ELSE front[s]

Gap(s, last) == last < Len(written[s]) /\ last + 1 < front[s]

Replayed(s, f) == f..Len(written[s])

\* SshSession::Attach, under the session's mutex.
ServerAttach(c) ==
  /\ stage[c] = "attach"
  /\ LET s == bound[c]
         f == FirstKept(s, position[c])
     IN
     /\ front' = [front EXCEPT ![s] = f]
     /\ attached' = [attached EXCEPT ![s] = c]
     /\ Send(c, [i \in 1..Cardinality(Replayed(s, f)) |-> Output(s, f + i - 1)])
     /\ stage' = [stage EXCEPT ![c] = IF Gap(s, position[c]) THEN "gap" ELSE "idle"]
  /\ UNCHANGED <<written, exited, created, token, drawn, bound, own, position,
                 gone, refused, up, broken, tabVars>>

\* The "resume-gap" message after Attach; the session may send in between.
ServerGap(c) ==
  /\ stage[c] = "gap"
  /\ stage' = [stage EXCEPT ![c] = "idle"]
  /\ Send(c, <<[type |-> "resume-gap"]>>)
  /\ UNCHANGED <<sessionVars, tableVars, bound, own, position, gone, refused, up,
                 broken, tabVars>>

DetachFrom(s, c) == [attached EXCEPT ![s] = IF @ = c THEN None ELSE @]

\* HandleTerminate.  The tab sends it on a connection it does not use again.
ServerTerminate(c) ==
  /\ Request(c, "terminate")
  /\ bound[c] # None
  /\ token' = [token EXCEPT ![bound[c]] = IF @ = own[c] THEN None ELSE @]
  /\ attached' = DetachFrom(bound[c], c)
  /\ bound' = [bound EXCEPT ![c] = None]
  /\ own' = [own EXCEPT ![c] = None]
  /\ UNCHANGED <<sessionVars, drawn, stage, position, gone, refused, down,
                 broken, tabVars>>

\* handleConnectionClosed, which may run before all requests were read.
ServerClosed(c) ==
  /\ broken[c] /\ ~gone[c]
  /\ stage[c] = "idle"
  /\ gone' = [gone EXCEPT ![c] = TRUE]
  /\ up' = [up EXCEPT ![c] = <<>>]
  /\ attached' = IF bound[c] = None THEN attached ELSE DetachFrom(bound[c], c)
  /\ UNCHANGED <<sessionVars, token, drawn, stage, bound, own, position, refused,
                 down, broken, tabVars>>

-----------------------------------------------------------------------------
(* The tab *)

\* A new WebSocket: the first one, the timer of scheduleResumeReconnect, or
\* reconnectTab, which closes the previous one.  The server answers "ready".
TabOpens ==
  /\ status # "live"
  /\ conns < MaxConns
  /\ conns' = conns + 1
  /\ status' = "live"
  /\ broken' = [c \in Conns |-> broken[c] \/ c = conns]
  /\ down' = [c \in Conns |-> IF c = conns + 1 THEN <<[type |-> "ready"]>>
                                               ELSE <<>>]
  /\ IF resume = None
     THEN seen' = 0 /\ showing' = None /\ missed' = FALSE
     ELSE UNCHANGED <<seen, showing, missed>>
  /\ UNCHANGED <<sessionVars, tableVars, serverVars, up, resume>>

\* The connection is lost; a tab that "ended" notices nothing new.
TabLoses ==
  /\ conns # 0
  /\ ~broken[conns]
  /\ broken' = [broken EXCEPT ![conns] = TRUE]
  /\ down' = [down EXCEPT ![conns] = <<>>]
  /\ status' = IF status = "live" THEN "waiting" ELSE status
  /\ UNCHANGED <<sessionVars, tableVars, serverVars, up, conns, resume, showing,
                 seen, missed>>

\* handleSocketMessage takes the next message of tab.socket.
Receives(type) ==
  /\ conns # 0
  /\ ~broken[conns]
  /\ down[conns] # <<>>
  /\ Head(down[conns]).type = type
  /\ down' = [down EXCEPT ![conns] = Tail(@)]

Msg == Head(down[conns])

SendUp(m) == up' = [up EXCEPT ![conns] = Append(@, m)]

TabReady ==
  /\ Receives("ready")
  /\ SendUp(IF resume # None
            THEN [type |-> "resume", token |-> resume, last |-> seen]
            ELSE [type |-> "connect"])
  /\ UNCHANGED <<sessionVars, tableVars, serverVars, broken, tabVars>>

TabSession ==
  /\ Receives("session")
  /\ resume' = Msg.token
  /\ showing' = Msg.session
  /\ UNCHANGED <<sessionVars, tableVars, serverVars, up, broken, conns, status,
                 seen, missed>>

TabResumed ==
  /\ Receives("resumed")
  /\ resume' = Msg.token
  /\ UNCHANGED <<sessionVars, tableVars, serverVars, up, broken, conns, status,
                 showing, seen, missed>>

TabResumeFailed ==
  /\ Receives("resume-failed")
  /\ resume' = None
  /\ seen' = 0
  /\ showing' = None
  /\ missed' = FALSE
  /\ SendUp([type |-> "connect"])
  /\ UNCHANGED <<sessionVars, tableVars, serverVars, broken, conns, status>>

TabResumeGap ==
  /\ Receives("resume-gap")
  /\ missed' = FALSE
  /\ UNCHANGED <<sessionVars, tableVars, serverVars, up, broken, conns, status,
                 resume, showing, seen>>

\* Mutant: the message after the last one shown is dropped, too.
ShownOrNext(n) == n <= seen + 1

\* A message the tab has already handled is dropped.
AlreadyShown(n) == n <= seen

TabOutput ==
  /\ Receives("output")
  /\ IF AlreadyShown(Msg.seq)
     THEN UNCHANGED <<seen, missed>>
     ELSE seen' = Msg.seq /\ missed' = (missed \/ Msg.seq # seen + 1)
  /\ UNCHANGED <<sessionVars, tableVars, serverVars, up, broken, conns, status,
                 resume, showing>>

\* The status "closed": terminateServerSession on the open socket.
TabClosed ==
  /\ Receives("closed")
  /\ IF AlreadyShown(Msg.seq)
     THEN UNCHANGED <<up, status, resume, seen, missed>>
     ELSE /\ seen' = Msg.seq
          /\ missed' = (missed \/ Msg.seq # seen + 1)
          /\ status' = "ended"
          /\ SendUp([type |-> "terminate"])
          /\ resume' = None
  /\ UNCHANGED <<sessionVars, tableVars, serverVars, broken, conns, showing>>

-----------------------------------------------------------------------------
ServerNext(c) ==
  \/ ServerConnect(c) \/ ServerRefuse(c) \/ ServerResume(c) \/ ServerAttach(c)
  \/ ServerGap(c) \/ ServerTerminate(c) \/ ServerClosed(c)

TabReceives ==
  \/ TabReady \/ TabSession \/ TabResumed \/ TabResumeFailed \/ TabResumeGap
  \/ TabOutput \/ TabClosed

Next ==
  \/ \E s \in Sessions : Write(s) \/ Exit(s) \/ Expire(s)
  \/ \E c \in Conns : ServerNext(c)
  \/ TabOpens \/ TabLoses \/ TabReceives

Spec == Init /\ [][Next]_vars

\* The server handles what it has received and the network delivers; nobody
\* has to write, to lose a connection or to open a new one.
FairSpec ==
  /\ Spec
  /\ \A c \in Conns : WF_vars(ServerNext(c))
  /\ WF_vars(TabReceives)

-----------------------------------------------------------------------------
(* Properties *)

Terminal == INSTANCE TerminalOutput WITH
  NoSession <- None, session <- showing

\* The tab shows the messages of one session in order, none twice, and skips
\* messages only when more than BufferLimit bytes were waiting.
ImplementsTerminal == Terminal!Spec

\* The values the variables take.
TypeOK ==
  /\ written \in [Sessions -> Seq(Sizes)]
  /\ \A s \in Sessions : front[s] \in 1..Len(written[s]) + 1
  /\ attached \in [Sessions -> Conns \cup {None}]
  /\ token \in [Sessions -> 0..MaxTokens]
  /\ exited \in [Sessions -> BOOLEAN]
  /\ created \in 0..MaxSessions
  /\ drawn \in 0..MaxTokens
  /\ stage \in [Conns -> {"idle", "attach", "gap"}]
  /\ bound \in [Conns -> Sessions \cup {None}]
  /\ own \in [Conns -> 0..MaxTokens]
  /\ broken \in [Conns -> BOOLEAN]
  /\ conns \in 0..MaxConns
  /\ status \in {"waiting", "live", "ended"}
  /\ resume \in 0..MaxTokens
  /\ showing \in Sessions \cup {None}
  /\ seen \in 0..MaxOutput + 1
  /\ missed \in BOOLEAN

\* On one connection, what Attach replays and what the session sends before and
\* after it meet without a hole, a repetition or a change of order.
Numbered(m) == m.type \in {"output", "closed"}
Stream(c) == {i \in 1..Len(down[c]) : Numbered(down[c][i])}
Follows(c, i, j) == i < j /\ \A k \in Stream(c) : k <= i \/ k >= j

NoHoleInStream ==
  \A c \in Conns : \A i, j \in Stream(c) :
    Follows(c, i, j) => down[c][j].seq = down[c][i].seq + 1

\* "Part of the output could not be recovered" is shown only to a user whose
\* terminal really lacks some.
GapNoticeIsTrue ==
  conns # 0 /\ down[conns] # <<>> /\ Msg.type = "resume-gap" => missed

\* Everything a session has written when the tab is attached to it reaches the
\* terminal, unless the connection is lost or the session moves on.
OutputArrives ==
  \A s \in Sessions, n \in 1..MaxOutput + 1 :
    (attached[s] = conns /\ conns # None /\ showing = s /\ Len(written[s]) >= n)
      ~> (seen >= n \/ showing # s \/ broken[conns] \/ attached[s] # conns)

\* "The resume window of the SSH session has expired" is the answer only for a
\* session that cannot be resumed any more.
RefusedMeansExpired ==
  [][refused' # refused /\ showing # None => token[showing] = None]_vars

=============================================================================
