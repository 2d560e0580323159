----------------------------- MODULE ThreadsProofs -----------------------------
(***************************************************************************)
(* Theorems about the machines of MCThreads: serial ports that browsers    *)
(* share, the worker thread of an SSH terminal, the transfer server.  For  *)
(* any number of browsers, sessions, pieces, commands, servers, workers.   *)
(*                                                                         *)
(* Each machine has an invariant of its own; a behaviour of MCThreads      *)
(* keeps all three, because a step of one leaves the others alone.         *)
(***************************************************************************)
EXTENDS MCThreads, Induction, SequenceTheorems, TLAPS

-----------------------------------------------------------------------------
(* Serial ports *)

SerialTyped ==
  /\ sess \in Seq(Session)
  /\ table \in 0 .. Len(sess)
  /\ serviceLock \in Viewers \cup {None}
  /\ ws \in [Viewers -> {"open", "closing", "gone"}]
  /\ step \in [Viewers -> {"fresh", "idle", "opening", "adding", "answering",
                           "releasing", "writing"}]
  /\ subs \in [Viewers -> 0 .. Len(sess)]
  /\ uses \in [Viewers -> 0 .. Len(sess)]
  /\ waits \in [Viewers -> 0 .. Len(sess)]
  /\ copy \in [Viewers -> Seq(1 .. MaxPieces)]
  /\ since \in [Viewers -> 0 .. MaxPieces]
  /\ got \in [Viewers -> Seq(0 .. MaxPieces)]

\* A handler between AskOpen and Answer has the mutex of the service; what it
\* found, or put, in the table stays there.
Locking ==
  \A c \in Viewers :
    /\ step[c] \in {"opening", "adding", "answering"} <=> serviceLock = c
    /\ step[c] = "opening" => table = 0
    /\ step[c] \in {"adding", "answering"} => uses[c] = table /\ table # 0
    /\ step[c] = "answering" => subs[c] = uses[c]
    /\ step[c] = "writing" => uses[c] # 0

\* A browser asks once: what has it among its viewers is its session, or was.
Newcomers == {c \in Viewers : step[c] \in {"fresh", "opening", "adding"}}

Loyal ==
  /\ \A c \in Newcomers : subs[c] = 0 /\ got[c] = <<>>
  /\ \A s \in DOMAIN sess : \A c \in sess[s].viewers \cup sess[s].out :
       c \notin Newcomers /\ subs[c] \in {0, s}

\* A thread that works belongs to a session that runs; what it is about to
\* send was read.
Threads ==
  \A s \in DOMAIN sess :
    /\ sess[s].thread \in {"reading", "sending", "writing"} => sess[s].running
    /\ sess[s].thread = "sending" => sess[s].read > 0

\* The backlog is the end of what was read.
EndsAt(q, n) == Len(q) <= n /\ \A i \in 1 .. Len(q) : q[i] = n - Len(q) + i

Backlogs == \A s \in DOMAIN sess : EndsAt(sess[s].backlog, sess[s].read)

\* Beside failure notices q holds the pieces after a up to b, once each.
Holds(q, a, b) ==
  /\ \A i \in 1 .. Len(q) : q[i] = FailureNotice \/ q[i] \in a + 1 .. b
  /\ \A n \in a + 1 .. b : \E i \in 1 .. Len(q) : q[i] = n
  /\ \A i, j \in 1 .. Len(q) : q[i] = q[j] /\ q[i] # FailureNotice => i = j

\* The last piece that was sent to c: the latest may still be in the hands of
\* the thread.
Sent(c) ==
  LET s == sess[subs[c]] IN
  IF s.thread = "sending" /\ c \in s.out THEN s.read - 1 ELSE s.read

\* Before its Answer a browser has the pieces read since Add, and its copy of
\* the backlog ends where they begin; afterwards it has both.
Delivered ==
  \A c \in Viewers : Connected(c) /\ subs[c] # 0 =>
    /\ since[c] <= Sent(c)
    /\ IF step[c] = "answering"
         THEN Holds(got[c], since[c], Sent(c)) /\ EndsAt(copy[c], since[c])
         ELSE \E a \in 0 .. since[c] : Holds(got[c], a, Sent(c))

SerialInv ==
  /\ SerialTyped /\ Locking /\ Loyal /\ Threads /\ Backlogs
  /\ SharedSessionStays /\ Delivered

\* Sequences of what a browser has got.
LEMMA HoldsNothing == \A n \in Nat : Holds(<<>>, n, n)
BY DEF Holds

LEMMA HoldsMore ==
  ASSUME NEW q \in Seq(0 .. MaxPieces), NEW a \in Nat, NEW b \in Nat, a <= b,
         Holds(q, a, b), NEW m, m = b + 1
  PROVE  Holds(q \o <<m>>, a, m)
<1> DEFINE r == q \o <<m>>
<1>1. /\ Len(q) \in Nat /\ Len(r) = Len(q) + 1 /\ r[Len(q) + 1] = m
      /\ \A i \in 1 .. Len(q) : r[i] = q[i]
  OBVIOUS
<1>2. \A i \in 1 .. Len(r) : i \in 1 .. Len(q) \/ i = Len(q) + 1
  BY <1>1
<1> HIDE DEF r
<1>3. \A i \in 1 .. Len(r) : r[i] = FailureNotice \/ r[i] \in a + 1 .. m
  BY <1>1, <1>2 DEF Holds
<1>4. ASSUME NEW n \in a + 1 .. m PROVE \E i \in 1 .. Len(r) : r[i] = n
  <2>1. CASE n = m
    BY <1>1, <2>1
  <2>2. CASE n # m
    <3>1. PICK i \in 1 .. Len(q) : q[i] = n
      BY <2>2 DEF Holds
    <3>2. i \in 1 .. Len(r)
      BY <1>1
    <3> QED
      BY <1>1, <3>1, <3>2
  <2> QED
    BY <2>1, <2>2
<1>5. \A i, j \in 1 .. Len(r) : r[i] = r[j] /\ r[i] # FailureNotice => i = j
  BY <1>1, <1>2 DEF Holds, FailureNotice
<1> QED
  BY <1>3, <1>4, <1>5 DEF Holds, r

LEMMA HoldsNotice ==
  ASSUME NEW q \in Seq(0 .. MaxPieces), NEW a \in Nat, NEW b \in Nat, Holds(q, a, b)
  PROVE  Holds(q \o <<FailureNotice>>, a, b)
<1> DEFINE r == q \o <<FailureNotice>>
<1>1. /\ Len(q) \in Nat /\ Len(r) = Len(q) + 1 /\ r[Len(q) + 1] = FailureNotice
      /\ \A i \in 1 .. Len(q) : r[i] = q[i]
  BY DEF FailureNotice
<1>2. \A i \in 1 .. Len(r) : i \in 1 .. Len(q) \/ i = Len(q) + 1
  BY <1>1
<1> HIDE DEF r
<1>3. \A i \in 1 .. Len(r) : r[i] = FailureNotice \/ r[i] \in a + 1 .. b
  BY <1>1, <1>2 DEF Holds
<1>4. ASSUME NEW n \in a + 1 .. b PROVE \E i \in 1 .. Len(r) : r[i] = n
  <2>1. PICK i \in 1 .. Len(q) : q[i] = n
    BY DEF Holds
  <2>2. i \in 1 .. Len(r)
    BY <1>1
  <2> QED
    BY <1>1, <2>1, <2>2
<1>5. \A i, j \in 1 .. Len(r) : r[i] = r[j] /\ r[i] # FailureNotice => i = j
  BY <1>1, <1>2 DEF Holds
<1> QED
  BY <1>3, <1>4, <1>5 DEF Holds, r

\* The backlog joins up with the pieces that came before it.
LEMMA HoldsBacklog ==
  ASSUME NEW q \in Seq(0 .. MaxPieces), NEW e \in Seq(1 .. MaxPieces),
         NEW a \in Nat, NEW b \in Nat, a <= b, Holds(q, a, b), EndsAt(e, a)
  PROVE  a - Len(e) \in 0 .. a /\ Holds(q \o e, a - Len(e), b)
<1> DEFINE r == q \o e
           l == a - Len(e)
<1>1. /\ Len(q) \in Nat /\ Len(e) \in Nat /\ Len(r) = Len(q) + Len(e)
      /\ \A i \in 1 .. Len(q) : r[i] = q[i]
      /\ \A i \in 1 .. Len(e) : r[Len(q) + i] = e[i]
  OBVIOUS
<1>2. l \in 0 .. a
  BY <1>1 DEF EndsAt
<1>3. \A i \in 1 .. Len(e) : r[Len(q) + i] = l + i
  BY <1>1 DEF EndsAt
<1> HIDE DEF r
<1>4. \A i \in 1 .. Len(r) : i \in 1 .. Len(q) \/
                             (i > Len(q) /\ r[i] = l + i - Len(q) /\ r[i] <= a)
  <2> SUFFICES ASSUME NEW i \in 1 .. Len(r), i > Len(q)
               PROVE  r[i] = l + i - Len(q) /\ r[i] <= a
    BY <1>1
  <2>1. PICK k \in 1 .. Len(e) : i = Len(q) + k
    <3>1. i - Len(q) \in 1 .. Len(e) /\ i = Len(q) + (i - Len(q))
      BY <1>1
    <3> QED
      BY <3>1
  <2>2. r[i] = l + k
    BY <1>3, <2>1
  <2> QED
    BY <1>1, <1>2, <2>1, <2>2
<1>5. ASSUME NEW i \in 1 .. Len(r) PROVE r[i] = FailureNotice \/ r[i] \in l + 1 .. b
  <2>1. CASE i \in 1 .. Len(q)
    BY <1>1, <1>2, <2>1 DEF Holds
  <2>2. CASE i \notin 1 .. Len(q)
    BY <1>1, <1>2, <1>4, <2>2
  <2> QED
    BY <2>1, <2>2
<1>6. ASSUME NEW n \in l + 1 .. b PROVE \E i \in 1 .. Len(r) : r[i] = n
  <2>1. CASE n > a
    <3>1. PICK i \in 1 .. Len(q) : q[i] = n
      BY <1>2, <2>1 DEF Holds
    <3>2. i \in 1 .. Len(r)
      BY <1>1
    <3> QED
      BY <1>1, <3>1, <3>2
  <2>2. CASE n <= a
    <3>1. PICK k \in 1 .. Len(e) : n = l + k
      <4>1. n - l \in 1 .. Len(e) /\ n = l + (n - l)
        BY <1>1, <1>2, <2>2
      <4> QED
        BY <4>1
    <3>2. r[Len(q) + k] = n
      BY <1>3, <3>1
    <3>3. Len(q) + k \in 1 .. Len(r)
      BY <1>1, <3>1
    <3> QED
      BY <3>2, <3>3
  <2> QED
    BY <1>2, <2>1, <2>2
<1>7. ASSUME NEW i \in 1 .. Len(r), NEW j \in 1 .. Len(r), r[i] = r[j],
             r[i] # FailureNotice
      PROVE  i = j
  <2>1. CASE i \in 1 .. Len(q) /\ j \in 1 .. Len(q)
    BY <1>1, <1>7, <2>1 DEF Holds
  <2>2. CASE i \notin 1 .. Len(q) /\ j \notin 1 .. Len(q)
    BY <1>1, <1>2, <1>4, <1>7, <2>2
  <2>3. \A k \in 1 .. Len(q) : r[k] = FailureNotice \/ r[k] > a
    BY <1>1 DEF Holds
  <2>4. \A k \in 1 .. Len(r) : k \notin 1 .. Len(q) => r[k] <= a
    BY <1>4
  <2>5. \A k \in 1 .. Len(r) : r[k] \in Int
    BY <1>2, <1>5 DEF FailureNotice
  <2> QED
    BY <1>7, <2>1, <2>2, <2>3, <2>4, <2>5
<1> QED
  BY <1>2, <1>5, <1>6, <1>7 DEF Holds, r

\* The backlog that is kept still ends at the last piece.
LEMMA TrimEnds ==
  ASSUME NEW q \in Seq(1 .. MaxPieces), NEW n \in Nat, n + 1 \in 1 .. MaxPieces,
         EndsAt(q, n)
  PROVE  Trim(Append(q, n + 1)) \in Seq(1 .. MaxPieces)
         /\ EndsAt(Trim(Append(q, n + 1)), n + 1)
<1> DEFINE r == Append(q, n + 1)
           t == Tail(r)
<1>1. /\ Len(q) \in Nat /\ Len(r) = Len(q) + 1 /\ r[Len(q) + 1] = n + 1
      /\ \A i \in 1 .. Len(q) : r[i] = q[i]
      /\ r \in Seq(1 .. MaxPieces)
  OBVIOUS
<1>2. EndsAt(r, n + 1)
  <2>1. \A i \in 1 .. Len(r) : i \in 1 .. Len(q) \/ i = Len(q) + 1
    BY <1>1
  <2> QED
    BY <1>1, <2>1 DEF EndsAt
<1>3. r # <<>>
  BY <1>1
<1> HIDE DEF r
<1>4. /\ t \in Seq(1 .. MaxPieces) /\ Len(t) = Len(r) - 1
      /\ \A i \in 1 .. Len(t) : t[i] = r[i + 1]
  BY <1>1, <1>3
<1> HIDE DEF t
<1>5. EndsAt(t, n + 1)
  <2>1. \A i \in 1 .. Len(t) : i + 1 \in 1 .. Len(r)
    BY <1>1, <1>4
  <2> QED
    BY <1>1, <1>2, <1>4, <2>1 DEF EndsAt
<1> QED
  BY <1>1, <1>2, <1>4, <1>5 DEF Trim, r, t

\* One session is changed.
LEMMA SessionChange ==
  ASSUME SerialTyped, NEW s \in DOMAIN sess, NEW r \in Session,
         sess' = [sess EXCEPT ![s] = r]
  PROVE  /\ sess' \in Seq(Session) /\ Len(sess') = Len(sess)
         /\ DOMAIN sess' = DOMAIN sess
         /\ sess'[s] = r
         /\ \A x \in DOMAIN sess : x # s => sess'[x] = sess[x]
BY DEF SerialTyped

\* Whom a message reaches.
LEMMA SendEffect ==
  ASSUME SerialTyped, NEW to \in SUBSET Viewers, NEW m \in Seq(0 .. MaxPieces),
         SendTo(to, m)
  PROVE  /\ got' \in [Viewers -> Seq(0 .. MaxPieces)]
         /\ \A c \in Viewers : got'[c] = IF c \in to /\ Connected(c)
                                         THEN got[c] \o m ELSE got[c]
<1>1. \A c \in Viewers : got[c] \in Seq(0 .. MaxPieces) /\ got[c] \o m \in Seq(0 .. MaxPieces)
  BY DEF SerialTyped
<1> QED
  BY <1>1 DEF SendTo

\* What has been sent to a browser is a number of pieces.
LEMMA SentNat ==
  ASSUME SerialInv, NEW c \in Viewers, subs[c] # 0
  PROVE  /\ subs[c] \in DOMAIN sess /\ sess[subs[c]] \in Session
         /\ Sent(c) \in Nat /\ since[c] \in Nat
         /\ got[c] \in Seq(0 .. MaxPieces) /\ copy[c] \in Seq(1 .. MaxPieces)
<1>1. subs[c] \in DOMAIN sess /\ sess[subs[c]] \in Session
  BY DEF SerialInv, SerialTyped
<1>2. sess[subs[c]].read \in Nat
      /\ (sess[subs[c]].thread = "sending" => sess[subs[c]].read > 0)
  BY <1>1 DEF SerialInv, Threads, Session
<1>3. Sent(c) \in Nat
  BY <1>2 DEF Sent
<1> QED
  BY <1>1, <1>3 DEF SerialInv, SerialTyped

\* A step of the thread of s: it loses no connected viewer, and what it
\* changes of its session is r.
LEMMA ThreadFrame ==
  ASSUME SerialInv, NEW s \in DOMAIN sess, NEW r \in Session,
         sess' = [sess EXCEPT ![s] = r],
         UNCHANGED <<table, handlerVars>>,
         r.viewers \in {sess[s].viewers, Collect(s)},
         r.out \subseteq sess[s].out \cup sess[s].viewers,
         r.thread \in {"reading", "sending", "writing"} => r.running,
         r.running => sess[s].running,
         r.thread = "sending" => r.read > 0,
         EndsAt(r.backlog, r.read),
         got' \in [Viewers -> Seq(0 .. MaxPieces)],
         \A c \in Newcomers : got'[c] = got[c],
         Delivered'
  PROVE  SerialInv'
<1> USE DEF handlerVars
<1>0. /\ sess' \in Seq(Session) /\ Len(sess') = Len(sess)
      /\ DOMAIN sess' = DOMAIN sess
      /\ sess'[s] = r
      /\ \A x \in DOMAIN sess : x # s => sess'[x] = sess[x]
  BY SessionChange DEF SerialInv
<1>1. SerialTyped'
  BY <1>0 DEF SerialInv, SerialTyped
<1>2. Locking'
  BY DEF SerialInv, Locking
<1>3. Loyal'
  <2>1. Newcomers' = Newcomers
    BY DEF Newcomers
  <2>2. r.viewers \subseteq sess[s].viewers
    BY DEF Collect
  <2> QED
    BY <1>0, <2>1, <2>2 DEF SerialInv, Loyal
<1>4. Threads'
  BY <1>0 DEF SerialInv, Threads
<1>5. Backlogs'
  BY <1>0 DEF SerialInv, Backlogs
<1>6. SharedSessionStays'
  BY <1>0 DEF SerialInv, SerialTyped, SharedSessionStays, Connected, Collect
<1> QED
  BY <1>1, <1>2, <1>3, <1>4, <1>5, <1>6 DEF SerialInv

\* What a browser was sent stays what it was sent while its session sends
\* nothing.
LEMMA DeliveredFrame ==
  ASSUME SerialInv, NEW s \in DOMAIN sess, NEW r \in Session,
         sess' = [sess EXCEPT ![s] = r],
         UNCHANGED <<handlerVars, got>>,
         \A c \in Viewers : Connected(c) /\ subs[c] = s => Sent(c)' = Sent(c)
  PROVE  Delivered'
<1> USE DEF handlerVars
<1>0. /\ sess'[s] = r
      /\ \A x \in DOMAIN sess : x # s => sess'[x] = sess[x]
  BY SessionChange DEF SerialInv
<1> SUFFICES ASSUME NEW c \in Viewers, Connected(c), subs[c] # 0
             PROVE  Sent(c)' = Sent(c)
  BY DEF SerialInv, Delivered, Connected
<1>1. subs[c] \in DOMAIN sess
  BY DEF SerialInv, SerialTyped
<1> QED
  BY <1>0, <1>1 DEF Sent

\* The thread of a session keeps the invariant.
LEMMA SerialThreadStep ==
  ASSUME SerialInv, NEW s \in DOMAIN sess,
         \/ ThreadStep(s) \/ ReadPiece(s) \/ TakeWrite(s) \/ DeviceTakes(s)
         \/ DeviceFails(s)
  PROVE  SerialInv'
<1> USE SerialAssumption DEF handlerVars
<1>0. SerialTyped /\ sess[s] \in Session
  BY DEF SerialInv, SerialTyped
<1>1. ASSUME NEW r \in Session, sess' = [sess EXCEPT ![s] = r],
             UNCHANGED <<table, handlerVars, got>>,
             r.viewers = sess[s].viewers, r.out = sess[s].out,
             r.read = sess[s].read, r.backlog = sess[s].backlog,
             r.thread \in {"reading", "sending", "writing"} => r.running,
             r.running => sess[s].running,
             sess[s].thread # "sending", r.thread # "sending"
      PROVE  SerialInv'
  <2>0. sess'[s] = r
    BY <1>0, <1>1, SessionChange
  <2>1. \A c \in Viewers : subs[c] = s => Sent(c)' = Sent(c)
    BY <1>1, <2>0 DEF Sent
  <2>2. Delivered'
    BY <1>1, <2>1, DeliveredFrame
  <2> QED
    BY <1>1, <2>2, ThreadFrame DEF SerialInv, SerialTyped, Backlogs
<1>2. CASE TakeWrite(s)
  <2> DEFINE r == [sess[s] EXCEPT !.queue = @ - 1, !.thread = "writing"]
  <2>0. sess[s].queue \in 0 .. MaxQueued /\ sess[s].queue - 1 \in 0 .. MaxQueued
    BY <1>0, <1>2 DEF TakeWrite, Session
  <2>1. r \in Session /\ sess' = [sess EXCEPT ![s] = r]
    BY <1>0, <1>2, <2>0 DEF TakeWrite, Session
  <2>2. sess[s].running
    BY <1>2 DEF TakeWrite, SerialInv, Threads
  <2> QED
    BY <1>0, <1>1, <1>2, <2>1, <2>2 DEF TakeWrite, Session
<1>3. CASE DeviceTakes(s)
  <2> DEFINE r == [sess[s] EXCEPT !.thread = "reading"]
  <2>1. r \in Session /\ sess' = [sess EXCEPT ![s] = r]
    BY <1>0, <1>3 DEF DeviceTakes, Session
  <2>2. sess[s].running
    BY <1>3 DEF DeviceTakes, SerialInv, Threads
  <2> QED
    BY <1>0, <1>1, <1>3, <2>1, <2>2 DEF DeviceTakes, Session
<1>4. CASE StopThread(s)
  <2> DEFINE r == [sess[s] EXCEPT !.running = FALSE, !.thread = "ended"]
  <2>1. r \in Session /\ sess' = [sess EXCEPT ![s] = r]
    BY <1>0, <1>4 DEF StopThread, Session
  <2> QED
    BY <1>0, <1>1, <1>4, <2>1 DEF StopThread, SeesStop, Session
<1>5. CASE DeviceFails(s)
  <2> DEFINE r == [sess[s] EXCEPT !.running = FALSE, !.thread = "failing"]
  <2>1. r \in Session /\ sess' = [sess EXCEPT ![s] = r]
    BY <1>0, <1>5 DEF DeviceFails, Session
  <2> QED
    BY <1>0, <1>1, <1>5, <2>1 DEF DeviceFails, Session
<1>6. CASE CloseDevice(s)
  <2> DEFINE r == [sess[s] EXCEPT !.open = FALSE]
  <2>1. r \in Session /\ sess' = [sess EXCEPT ![s] = r]
    BY <1>0, <1>6 DEF CloseDevice, Session
  <2> QED
    BY <1>0, <1>1, <1>6, <2>1 DEF CloseDevice, Session
<1>7. CASE TellFailure(s)
  <2> DEFINE r == [sess[s] EXCEPT !.viewers = Collect(s), !.thread = "ended"]
  <2>1. r \in Session /\ sess' = [sess EXCEPT ![s] = r]
    BY <1>0, <1>7 DEF TellFailure, Session, Collect
  <2>2. /\ SendTo(Collect(s), <<FailureNotice>>) /\ Collect(s) \subseteq Viewers
        /\ <<FailureNotice>> \in Seq(0 .. MaxPieces)
    <3>1. FailureNotice \in 0 .. MaxPieces
      BY DEF FailureNotice
    <3>2. Collect(s) \subseteq Viewers
      BY <1>0 DEF Collect, Session
    <3> QED
      BY <1>7, <3>1, <3>2 DEF TellFailure
  <2>3. /\ got' \in [Viewers -> Seq(0 .. MaxPieces)]
        /\ \A c \in Viewers : got'[c] = got[c] \/
             (c \in sess[s].viewers /\ got'[c] = got[c] \o <<FailureNotice>>)
    BY <1>0, <2>2, SendEffect DEF Collect
  <2>4. \A c \in Newcomers : got'[c] = got[c]
    BY <2>3 DEF SerialInv, Loyal, Newcomers
  <2>5. sess'[s] = r /\ \A x \in DOMAIN sess : x # s => sess'[x] = sess[x]
    BY <1>0, <2>1, SessionChange
  <2>6. Delivered'
    <3> SUFFICES ASSUME NEW c \in Viewers, Connected(c), subs[c] # 0
                 PROVE  /\ since[c] <= Sent(c)'
                        /\ IF step[c] = "answering"
                             THEN /\ Holds(got'[c], since[c], Sent(c)')
                                  /\ EndsAt(copy[c], since[c])
                             ELSE \E a \in 0 .. since[c] : Holds(got'[c], a, Sent(c)')
      BY <1>7 DEF Delivered, Connected, TellFailure
    <3>2. /\ subs[c] \in DOMAIN sess
          /\ Sent(c) \in Nat /\ since[c] \in Nat /\ got[c] \in Seq(0 .. MaxPieces)
      BY SentNat
    <3>1. Sent(c)' = Sent(c)
      <4>1. CASE subs[c] = s
        BY <1>0, <1>7, <2>5, <4>1 DEF Sent, TellFailure, Session
      <4>2. CASE subs[c] # s
        BY <1>7, <2>5, <3>2, <4>2 DEF Sent, TellFailure
      <4> QED
        BY <4>1, <4>2
    <3>3. ASSUME NEW a \in 0 .. since[c], Holds(got[c], a, Sent(c))
          PROVE  Holds(got'[c], a, Sent(c))
      <4>1. a \in Nat
        BY <3>2
      <4>2. Holds(got[c] \o <<FailureNotice>>, a, Sent(c))
        BY <3>2, <3>3, <4>1, HoldsNotice
      <4> QED
        BY <2>3, <3>3, <4>2
    <3> QED
      BY <3>1, <3>2, <3>3 DEF SerialInv, Delivered
  <2>7. got' \in [Viewers -> Seq(0 .. MaxPieces)]
    BY <2>3
  <2>8. /\ r.viewers = Collect(s) /\ r.out = sess[s].out /\ r.thread = "ended"
        /\ r.running = sess[s].running
        /\ r.read = sess[s].read /\ r.backlog = sess[s].backlog
    BY <1>0 DEF Session
  <2>9. EndsAt(r.backlog, r.read)
    BY <2>8 DEF SerialInv, Backlogs
  <2>10. r.viewers \in {sess[s].viewers, Collect(s)}
         /\ r.out \subseteq sess[s].out \cup sess[s].viewers
         /\ (r.running => sess[s].running)
    BY <2>8
  <2> HIDE DEF r
  <2> QED
    BY <1>7, <2>1, <2>4, <2>6, <2>7, <2>8, <2>9, <2>10, ThreadFrame DEF TellFailure
<1>8. CASE SendPiece(s)
  <2> DEFINE r == [sess[s] EXCEPT !.thread = "reading", !.out = {}]
  <2>1. r \in Session /\ sess' = [sess EXCEPT ![s] = r]
    BY <1>0, <1>8 DEF SendPiece, Session
  <2>2. /\ SendTo(sess[s].out, <<sess[s].read>>) /\ sess[s].out \subseteq Viewers
        /\ <<sess[s].read>> \in Seq(0 .. MaxPieces)
    BY <1>0, <1>8 DEF SendPiece, Session
  <2>3. /\ got' \in [Viewers -> Seq(0 .. MaxPieces)]
        /\ \A c \in Viewers : got'[c] = IF c \in sess[s].out /\ Connected(c)
             THEN got[c] \o <<sess[s].read>> ELSE got[c]
    BY <1>0, <2>2, SendEffect
  <2>4. \A c \in Newcomers : got'[c] = got[c]
    BY <2>3 DEF SerialInv, Loyal, Newcomers
  <2>5. sess'[s] = r /\ \A x \in DOMAIN sess : x # s => sess'[x] = sess[x]
    BY <1>0, <2>1, SessionChange
  <2>6. sess[s].running /\ sess[s].read > 0
    BY <1>8 DEF SendPiece, SerialInv, Threads
  <2>7. Delivered'
    <3> SUFFICES ASSUME NEW c \in Viewers, Connected(c), subs[c] # 0
                 PROVE  /\ since[c] <= Sent(c)'
                        /\ IF step[c] = "answering"
                             THEN /\ Holds(got'[c], since[c], Sent(c)')
                                  /\ EndsAt(copy[c], since[c])
                             ELSE \E a \in 0 .. since[c] : Holds(got'[c], a, Sent(c)')
      BY <1>8 DEF Delivered, Connected, SendPiece
    <3>0. sess[subs[c]] \in Session /\ subs[c] \in DOMAIN sess
      BY SentNat
    <3>2. Sent(c) \in Nat /\ since[c] \in Nat /\ got[c] \in Seq(0 .. MaxPieces)
      BY SentNat
    <3>3. CASE subs[c] = s /\ c \in sess[s].out
      <4>1. Sent(c) = sess[s].read - 1 /\ Sent(c)' = sess[s].read
        BY <1>0, <1>8, <2>5, <3>3 DEF Sent, SendPiece, Session
      <4>2. got'[c] = got[c] \o <<sess[s].read>>
        BY <2>3, <3>3
      <4>3. sess[s].read = Sent(c) + 1
        BY <1>0, <4>1 DEF Session
      <4>4. since[c] <= Sent(c)
        BY DEF SerialInv, Delivered
      <4>5. \A a \in 0 .. since[c] : Holds(got[c], a, Sent(c)) => Holds(got'[c], a, Sent(c)')
        BY <3>2, <4>1, <4>2, <4>3, <4>4, HoldsMore
      <4>6. since[c] <= Sent(c)'
        BY <3>2, <4>1, <4>3, <4>4
      <4> QED
        BY <3>2, <4>5, <4>6 DEF SerialInv, Delivered
    <3>4. CASE ~(subs[c] = s /\ c \in sess[s].out)
      <4>1. got'[c] = got[c]
        BY <2>3, <3>0, <3>4 DEF SerialInv, Loyal
      <4>2. Sent(c)' = Sent(c)
        BY <1>0, <1>8, <2>5, <3>0, <3>4 DEF Sent, SendPiece, Session
      <4> QED
        BY <4>1, <4>2 DEF SerialInv, Delivered
    <3> QED
      BY <3>3, <3>4
  <2>8. /\ r.viewers = sess[s].viewers /\ r.out = {} /\ r.thread = "reading"
        /\ r.running = sess[s].running
        /\ r.read = sess[s].read /\ r.backlog = sess[s].backlog
    BY <1>0 DEF Session
  <2>9. EndsAt(r.backlog, r.read)
    BY <2>8 DEF SerialInv, Backlogs
  <2> HIDE DEF r
  <2> QED
    BY <1>8, <2>1, <2>3, <2>4, <2>6, <2>7, <2>8, <2>9, ThreadFrame DEF SendPiece
<1>9. CASE ReadPiece(s)
  <2> DEFINE n == sess[s].read
             b == Trim(Append(sess[s].backlog, n + 1))
             r == [sess[s] EXCEPT !.read = n + 1, !.backlog = b, !.viewers = Collect(s),
                                  !.out = Collect(s), !.thread = "sending"]
  <2>0. n \in Nat /\ n + 1 \in 1 .. MaxPieces /\ EndsAt(sess[s].backlog, n)
        /\ sess[s].backlog \in Seq(1 .. MaxPieces)
    BY <1>0, <1>9 DEF ReadPiece, Session, SerialInv, Backlogs
  <2>1. b \in Seq(1 .. MaxPieces) /\ EndsAt(b, n + 1)
    BY <2>0, TrimEnds
  <2>2. Collect(s) \subseteq sess[s].viewers /\ sess[s].viewers \subseteq Viewers
    BY <1>0 DEF Collect, Session
  <2>3. sess' = [sess EXCEPT ![s] = r]
    BY <1>9 DEF ReadPiece
  <2> HIDE DEF b
  <2>4. r \in Session
    <3>1. Collect(s) \subseteq Viewers /\ n + 1 \in 0 .. MaxPieces
      BY <2>0, <2>2
    <3> HIDE DEF n
    <3> QED
      BY <1>0, <2>1, <3>1 DEF Session
  <2>5. sess'[s] = r /\ \A x \in DOMAIN sess : x # s => sess'[x] = sess[x]
    BY <1>0, <2>3, <2>4, SessionChange
  <2>6. sess[s].running
    BY <1>9 DEF ReadPiece, SerialInv, Threads
  <2>7. \A c \in Viewers : Connected(c) /\ subs[c] = s => Sent(c)' = Sent(c)
    <3> SUFFICES ASSUME NEW c \in Viewers, Connected(c), subs[c] = s
                 PROVE  Sent(c)' = Sent(c)
      OBVIOUS
    <3>1. s # 0 /\ c \in Collect(s)
      BY <1>0, <2>6 DEF SerialInv, SharedSessionStays, Collect, SerialTyped
    <3>2. Sent(c) = n
      BY <1>9 DEF Sent, ReadPiece
    <3>3. Sent(c)' = n + 1 - 1
      <4>1. subs'[c] = s
        BY <1>9 DEF ReadPiece
      <4>2. r.thread = "sending" /\ r.out = Collect(s) /\ r.read = n + 1
        BY <1>0 DEF Session
      <4>3. sess'[s].thread = "sending" /\ sess'[s].out = Collect(s) /\ sess'[s].read = n + 1
        BY <2>5, <4>2
      <4> HIDE DEF r, n
      <4> QED
        BY <2>0, <3>1, <4>1, <4>3 DEF Sent
    <3> QED
      BY <2>0, <3>2, <3>3
  <2>8. Delivered'
    BY <1>9, <2>3, <2>4, <2>7, DeliveredFrame DEF ReadPiece
  <2>9. /\ r.viewers = Collect(s) /\ r.out \subseteq sess[s].viewers
        /\ r.running = sess[s].running /\ r.read = n + 1 /\ r.backlog = b
    BY <1>0, <2>2 DEF Session
  <2>10. EndsAt(r.backlog, r.read) /\ r.read > 0
    BY <2>0, <2>1, <2>9
  <2>12. r.viewers \in {sess[s].viewers, Collect(s)}
         /\ r.out \subseteq sess[s].out \cup sess[s].viewers
         /\ (r.thread \in {"reading", "sending", "writing"} => r.running)
         /\ (r.running => sess[s].running)
    BY <2>6, <2>9
  <2>13. UNCHANGED <<table, handlerVars>>
    BY <1>9 DEF ReadPiece
  <2>11. got' \in [Viewers -> Seq(0 .. MaxPieces)] /\ \A c \in Newcomers : got'[c] = got[c]
    BY <1>0, <1>9 DEF ReadPiece, SerialTyped
  <2> HIDE DEF r
  <2> QED
    BY <2>3, <2>4, <2>6, <2>8, <2>10, <2>11, <2>12, <2>13, ThreadFrame
<1> QED
  BY <1>2, <1>3, <1>4, <1>5, <1>6, <1>7, <1>8, <1>9 DEF ThreadStep

\* A browser whose deliveries nothing touches.
Untouched(c) ==
  /\ Connected(c)
  /\ subs'[c] = subs[c] /\ since'[c] = since[c]
  /\ copy'[c] = copy[c] /\ got'[c] = got[c]
  /\ step'[c] = "answering" <=> step[c] = "answering"
  /\ LET s == subs[c] IN
       /\ sess'[s].thread = sess[s].thread /\ sess'[s].read = sess[s].read
       /\ c \in sess'[s].out <=> c \in sess[s].out

LEMMA DeliveredKept ==
  ASSUME SerialInv,
         NEW C \in SUBSET Viewers,
         \A c \in Viewers \ C : Connected(c)' /\ subs'[c] # 0 => Untouched(c)
  PROVE  \A c \in Viewers \ C : Connected(c)' /\ subs'[c] # 0 =>
           /\ since'[c] <= Sent(c)'
           /\ IF step'[c] = "answering"
                THEN Holds(got'[c], since'[c], Sent(c)') /\ EndsAt(copy'[c], since'[c])
                ELSE \E a \in 0 .. since'[c] : Holds(got'[c], a, Sent(c)')
<1> SUFFICES ASSUME NEW c \in Viewers \ C, Connected(c)', subs'[c] # 0
             PROVE  /\ since'[c] <= Sent(c)'
                    /\ IF step'[c] = "answering"
                         THEN /\ Holds(got'[c], since'[c], Sent(c)')
                              /\ EndsAt(copy'[c], since'[c])
                         ELSE \E a \in 0 .. since'[c] : Holds(got'[c], a, Sent(c)')
  OBVIOUS
<1>1. Untouched(c)
  OBVIOUS
<1>2. Sent(c)' = Sent(c)
  BY <1>1 DEF Untouched, Sent
<1> QED
  BY <1>1, <1>2 DEF Untouched, SerialInv, Delivered

\* Handlers that leave the sessions and what was sent alone.
LEMMA QuietStep ==
  ASSUME SerialInv, UNCHANGED <<sess, subs, copy>>, SerialTyped', Locking',
         \A c \in Viewers : c \in Newcomers' => c \in Newcomers /\ got'[c] = got[c],
         \A c \in Viewers : Connected(c)' =>
           /\ Connected(c) /\ since'[c] = since[c] /\ got'[c] = got[c]
           /\ step'[c] = "answering" <=> step[c] = "answering",
         \A s \in DOMAIN sess : sess[s].running /\ table = s => table' = s
  PROVE  SerialInv'
<1>1. Loyal'
  <2>1. Newcomers' \subseteq Newcomers
    BY DEF Newcomers
  <2> QED
    BY <2>1 DEF SerialInv, Loyal, Newcomers
<1>2. Threads' /\ Backlogs'
  BY DEF SerialInv, Threads, Backlogs
<1>3. SharedSessionStays'
  <2> SUFFICES ASSUME NEW c \in Viewers, Connected(c)', subs[c] # 0,
                      sess[subs[c]].running
               PROVE  table' = subs[c] /\ c \in sess[subs[c]].viewers
    BY DEF SharedSessionStays
  <2>1. subs[c] \in DOMAIN sess
    BY DEF SerialInv, SerialTyped
  <2> QED
    BY <2>1 DEF SerialInv, SharedSessionStays
<1>4. Delivered'
  <2>1. \A c \in Viewers \ {} : Connected(c)' /\ subs'[c] # 0 => Untouched(c)
    BY DEF Untouched
  <2> QED
    BY <2>1, DeliveredKept DEF Delivered
<1> QED
  BY <1>1, <1>2, <1>3, <1>4 DEF SerialInv

\* The handlers that find, open, let go or lose a connection.
LEMMA SerialQuietHandlers ==
  ASSUME SerialInv, NEW c \in Viewers,
         \/ \E o \in PortOptions : AskOpen(c, o)
         \/ OpenFails(c) \/ Released(c) \/ FindSession(c) \/ Lose(c) \/ HandleClosed(c)
  PROVE  SerialInv'
<1> USE SerialAssumption
<1>0. SerialTyped /\ Locking
  BY DEF SerialInv
<1>1. ASSUME NEW o \in PortOptions, AskOpen(c, o) PROVE SerialInv'
  <2>1. SerialTyped'
    <3>1. waits' \in [Viewers -> 0 .. Len(sess)]
      <4>1. 0 \in 0 .. Len(sess) /\ table \in 0 .. Len(sess)
        BY <1>0 DEF SerialTyped
      <4>2. PICK w \in 0 .. Len(sess) : waits' = waits \/ waits' = [waits EXCEPT ![c] = w]
        BY <1>1, <4>1 DEF AskOpen
      <4> QED
        BY <1>0, <4>2 DEF SerialTyped
    <3>2. table' \in 0 .. Len(sess) /\ uses' \in [Viewers -> 0 .. Len(sess)]
      <4>1. 0 \in 0 .. Len(sess) /\ table \in 0 .. Len(sess)
        BY <1>0 DEF SerialTyped
      <4>2. CASE uses' = [uses EXCEPT ![c] = table] /\ table' = table
        BY <1>0, <4>1, <4>2 DEF SerialTyped
      <4>3. CASE uses' = uses /\ table' = 0
        BY <1>0, <4>1, <4>3 DEF SerialTyped
      <4> QED
        BY <1>1, <4>2, <4>3 DEF AskOpen
    <3> QED
      BY <1>0, <1>1, <3>1, <3>2 DEF AskOpen, SerialTyped
  <2>2. Locking'
    BY SMTT(30), <1>0, <1>1 DEF AskOpen, SerialTyped, Locking, PortRuns, LockFree
  <2>3. \A s \in DOMAIN sess : sess[s].running /\ table = s => table' = s
    BY <1>0, <1>1 DEF AskOpen, PortRuns, SerialTyped
  <2> QED
    BY <1>0, <1>1, <2>1, <2>2, <2>3, QuietStep DEF AskOpen, Newcomers, SerialTyped,
       Connected
<1>2. ASSUME OpenFails(c) \/ Released(c) PROVE SerialInv'
  <2>1. SerialTyped'
    <3>1. 0 \in 0 .. Len(sess)
      BY <1>0 DEF SerialTyped
    <3>2. CASE OpenFails(c)
      BY <1>0, <3>1, <3>2 DEF OpenFails, SerialTyped
    <3>3. CASE Released(c)
      BY <1>0, <3>1, <3>3 DEF Released, SerialTyped
    <3> QED
      BY <1>2, <3>2, <3>3
  <2>2. Locking'
    BY SMTT(30), <1>0, <1>2 DEF OpenFails, Released, SerialTyped, Locking
  <2> QED
    BY <1>0, <1>2, <2>1, <2>2, QuietStep DEF OpenFails, Released, Newcomers,
       SerialTyped, Connected
<1>3. ASSUME FindSession(c) PROVE SerialInv'
  <2>1. SerialTyped'
    BY <1>0, <1>3 DEF FindSession, SerialTyped
  <2>2. Locking'
    BY <1>0, <1>3 DEF FindSession, SerialTyped, Locking
  <2> QED
    BY <1>0, <1>3, <2>1, <2>2, QuietStep DEF FindSession, Newcomers, SerialTyped,
       Connected
<1>4. ASSUME Lose(c) PROVE SerialInv'
  <2>1. SerialTyped'
    BY SMTT(30), <1>0, <1>4 DEF Lose, SerialTyped
  <2>2. Locking'
    BY <1>0, <1>4 DEF Lose, Locking
  <2>3. \A d \in Viewers : d \in Newcomers' => d \in Newcomers /\ got'[d] = got[d]
    BY <1>0, <1>4 DEF Lose, Newcomers, SerialInv, Loyal, SerialTyped
  <2> QED
    BY <1>0, <1>4, <2>1, <2>2, <2>3, QuietStep DEF Lose, SerialTyped, Connected
<1>5. ASSUME HandleClosed(c) PROVE SerialInv'
  <2>1. SerialTyped'
    BY <1>0, <1>5 DEF HandleClosed, SerialTyped
  <2>2. Locking'
    BY <1>0, <1>5 DEF HandleClosed, Locking
  <2> QED
    BY <1>0, <1>5, <2>1, <2>2, QuietStep DEF HandleClosed, SerialTyped, Connected,
       Newcomers
<1> QED
  BY <1>1, <1>2, <1>3, <1>4, <1>5

\* A new session: nobody uses it yet but the handler that opened it.
LEMMA SerialOpenStep ==
  ASSUME SerialInv, NEW c \in Viewers, NEW o \in PortOptions, OpenDevice(c, o)
  PROVE  SerialInv'
<1> USE SerialAssumption
<1> DEFINE n == NewSession(o)
<1>0. SerialTyped /\ Locking /\ Loyal
  BY DEF SerialInv
<1>1. n \in Session
  <2>1. /\ {} \in SUBSET Viewers /\ <<>> \in Seq(1 .. MaxPieces)
        /\ 0 \in 0 .. MaxPieces /\ 0 \in 0 .. MaxQueued
    OBVIOUS
  <2> QED
    BY <2>1 DEF NewSession, Session
<1>2. /\ sess' = Append(sess, n)
      /\ table' = Len(sess) + 1
      /\ uses' = [uses EXCEPT ![c] = Len(sess) + 1]
      /\ waits' = [waits EXCEPT ![c] = 0]
      /\ step' = [step EXCEPT ![c] = "adding"]
      /\ UNCHANGED <<serviceLock, ws, subs, copy, since, got>>
      /\ step[c] = "opening"
  BY DEF OpenDevice
<1>3. /\ n.running = TRUE /\ n.viewers = {} /\ n.out = {} /\ n.backlog = <<>>
      /\ n.read = 0 /\ n.thread = "reading"
  BY DEF NewSession
<1> HIDE DEF n
<1>4. /\ sess' \in Seq(Session) /\ Len(sess) \in Nat /\ Len(sess') = Len(sess) + 1
      /\ DOMAIN sess = 1 .. Len(sess) /\ DOMAIN sess' = 1 .. Len(sess) + 1
      /\ sess'[Len(sess) + 1] = n
      /\ \A s \in DOMAIN sess : sess'[s] = sess[s]
  BY SMTT(30), <1>0, <1>1, <1>2 DEF SerialTyped
<1>5. \A s \in DOMAIN sess' : s \in DOMAIN sess \/ s = Len(sess) + 1
  BY <1>4
<1>6. SerialTyped'
  <2>1. \A k \in 0 .. Len(sess) : k \in 0 .. Len(sess')
    BY <1>4
  <2>2. table' \in 0 .. Len(sess') /\ 0 \in 0 .. Len(sess')
    BY <1>2, <1>4
  <2>3. /\ subs' \in [Viewers -> 0 .. Len(sess')]
        /\ uses' \in [Viewers -> 0 .. Len(sess')]
        /\ waits' \in [Viewers -> 0 .. Len(sess')]
    <3> HIDE <1>4, <1>5
    <3> QED
      BY <1>0, <1>2, <2>1, <2>2 DEF SerialTyped
  <2> QED
    BY <1>0, <1>2, <1>4, <2>2, <2>3 DEF SerialTyped
<1>7. Locking'
  <2>1. Len(sess) + 1 # 0
    BY <1>4
  <2> QED
    BY <1>0, <1>2, <2>1 DEF SerialTyped, Locking
<1>8. Loyal'
  <2>1. Newcomers' = Newcomers
    BY <1>0, <1>2 DEF Newcomers, SerialTyped
  <2> QED
    BY <1>0, <1>2, <1>3, <1>4, <1>5, <2>1 DEF Loyal
<1>9. Threads' /\ Backlogs'
  BY <1>3, <1>4, <1>5 DEF SerialInv, Threads, Backlogs, EndsAt
<1>10. SharedSessionStays'
  <2> SUFFICES ASSUME NEW d \in Viewers, Connected(d)', subs[d] # 0,
                      sess'[subs[d]].running
               PROVE  FALSE
    BY <1>2 DEF SharedSessionStays
  <2>1. subs[d] \in DOMAIN sess /\ Connected(d)
    BY SMTT(30), <1>0, <1>2 DEF SerialTyped, Connected
  <2>2. table = subs[d]
    BY <1>4, <2>1 DEF SerialInv, SharedSessionStays
  <2> QED
    BY <1>0, <1>2, <2>2 DEF Locking
<1>11. Delivered'
  <2>1. \A d \in Viewers : subs[d] # 0 => sess'[subs[d]] = sess[subs[d]]
    <3>1. \A d \in Viewers : subs[d] # 0 => subs[d] \in DOMAIN sess
      BY <1>0 DEF SerialTyped
    <3> QED
      BY <1>4, <3>1
  <2>2. \A d \in Viewers : step'[d] = "answering" <=> step[d] = "answering"
    BY <1>0, <1>2 DEF SerialTyped
  <2>3. \A d \in Viewers \ {} : Connected(d)' /\ subs'[d] # 0 => Untouched(d)
    BY <1>2, <2>1, <2>2 DEF Untouched, Connected
  <2> QED
    BY <2>3, DeliveredKept DEF Delivered
<1> QED
  BY <1>6, <1>7, <1>8, <1>9, <1>10, <1>11 DEF SerialInv

\* Add registers a newcomer, which has got nothing yet.
LEMMA SerialAddStep ==
  ASSUME SerialInv, NEW c \in Viewers, AddViewer(c)
  PROVE  SerialInv'
<1> DEFINE s == uses[c]
           r == [sess[s] EXCEPT !.viewers = @ \cup {c}]
<1>0. SerialTyped /\ Locking /\ Loyal
  BY DEF SerialInv
<1>1. /\ step[c] = "adding" /\ serviceLock = c /\ s = table /\ s # 0
      /\ s \in DOMAIN sess /\ sess[s] \in Session
      /\ c \in Newcomers /\ subs[c] = 0 /\ got[c] = <<>>
  BY <1>0 DEF AddViewer, SerialTyped, Locking, Loyal, Newcomers
<1>2. /\ sess' = [sess EXCEPT ![s] = r]
      /\ subs' = [subs EXCEPT ![c] = s]
      /\ copy' = [copy EXCEPT ![c] = sess[s].backlog]
      /\ since' = [since EXCEPT ![c] = IF Connected(c) THEN sess[s].read ELSE 0]
      /\ step' = [step EXCEPT ![c] = "answering"]
      /\ UNCHANGED <<table, serviceLock, ws, uses, waits, got>>
  BY DEF AddViewer
<1>3. /\ r \in Session /\ r.viewers = sess[s].viewers \cup {c}
      /\ r.out = sess[s].out /\ r.thread = sess[s].thread /\ r.read = sess[s].read
      /\ r.running = sess[s].running /\ r.backlog = sess[s].backlog
  BY <1>1 DEF Session
<1> HIDE DEF r
<1>4. /\ sess' \in Seq(Session) /\ Len(sess') = Len(sess)
      /\ DOMAIN sess' = DOMAIN sess
      /\ sess'[s] = r
      /\ \A x \in DOMAIN sess : x # s => sess'[x] = sess[x]
  BY <1>0, <1>1, <1>2, <1>3, SessionChange
<1>5. /\ c \notin sess[s].out /\ sess[s].read \in 0 .. MaxPieces
      /\ sess[s].backlog \in Seq(1 .. MaxPieces)
      /\ (sess[s].thread = "sending" => sess[s].read > 0)
      /\ EndsAt(sess[s].backlog, sess[s].read)
  BY <1>1 DEF SerialInv, Loyal, Session, Threads, Backlogs
<1> HIDE DEF s
<1>6. SerialTyped'
  <2>1. since' \in [Viewers -> 0 .. MaxPieces]
    BY <1>0, <1>2, <1>5, SerialAssumption DEF SerialTyped
  <2> QED
    BY <1>0, <1>1, <1>2, <1>4, <1>5, <2>1 DEF SerialTyped
<1>7. Locking'
  BY <1>0, <1>1, <1>2 DEF SerialTyped, Locking, s
<1>8. Loyal'
  <2>1. Newcomers' = Newcomers \ {c}
    BY <1>0, <1>2 DEF Newcomers, SerialTyped
  <2> QED
    BY <1>0, <1>1, <1>2, <1>3, <1>4, <2>1 DEF Loyal, SerialTyped
<1>9. Threads' /\ Backlogs'
  BY <1>1, <1>3, <1>4 DEF SerialInv, Threads, Backlogs
<1>10. SharedSessionStays'
  <2> SUFFICES ASSUME NEW d \in Viewers, Connected(d)', subs'[d] # 0,
                      sess'[subs'[d]].running
               PROVE  table' = subs'[d] /\ d \in sess'[subs'[d]].viewers
    BY DEF SharedSessionStays
  <2>1. CASE d = c
    BY <1>0, <1>1, <1>2, <1>3, <1>4, <2>1 DEF SerialTyped
  <2>2. CASE d # c
    BY <1>0, <1>1, <1>2, <1>3, <1>4, <2>2 DEF SerialTyped, SerialInv,
       SharedSessionStays, Connected
  <2> QED
    BY <2>1, <2>2
<1>11. Delivered'
  <2>1. \A d \in Viewers \ {c} : Connected(d)' /\ subs'[d] # 0 => Untouched(d)
    BY <1>0, <1>1, <1>2, <1>3, <1>4 DEF Untouched, SerialTyped, Connected
  <2>2. ASSUME Connected(c)'
        PROVE  /\ since'[c] <= Sent(c)' /\ step'[c] = "answering"
               /\ Holds(got'[c], since'[c], Sent(c)') /\ EndsAt(copy'[c], since'[c])
    <3>1. /\ since'[c] = sess[s].read /\ copy'[c] = sess[s].backlog /\ got'[c] = <<>>
          /\ step'[c] = "answering" /\ subs'[c] = s
      BY <1>0, <1>1, <1>2, <2>2 DEF SerialTyped, Connected
    <3>2. Sent(c)' = sess[s].read
      BY <1>3, <1>4, <1>5, <3>1 DEF Sent
    <3> QED
      BY <1>5, <3>1, <3>2, HoldsNothing, SerialAssumption
  <2> QED
    BY ZenonT(30), <2>1, <2>2, DeliveredKept DEF Delivered
<1> QED
  BY <1>6, <1>7, <1>8, <1>9, <1>10, <1>11 DEF SerialInv

\* Answer sends the backlog, which joins up with what came since Add.
LEMMA SerialAnswerStep ==
  ASSUME SerialInv, NEW c \in Viewers, Answer(c)
  PROVE  SerialInv'
<1> DEFINE s == uses[c]
           r == [sess[s] EXCEPT !.viewers = Collect(s)]
<1>0. SerialTyped /\ Locking /\ Loyal
  BY DEF SerialInv
<1>1. /\ step[c] = "answering" /\ serviceLock = c /\ s = table /\ s # 0
      /\ s \in DOMAIN sess /\ sess[s] \in Session
      /\ subs[c] = s /\ copy[c] \in Seq(1 .. MaxPieces)
  BY <1>0 DEF Answer, SerialTyped, Locking
<1>2. /\ sess' = [sess EXCEPT ![s] = r]
      /\ SendTo({c}, copy[c])
      /\ step' = [step EXCEPT ![c] = "idle"]
      /\ uses' = [uses EXCEPT ![c] = 0]
      /\ copy' = [copy EXCEPT ![c] = <<>>]
      /\ serviceLock' = None
      /\ UNCHANGED <<table, ws, subs, waits, since>>
  BY DEF Answer, BacklogOf
<1>3. /\ r \in Session /\ r.viewers = Collect(s) /\ Collect(s) \subseteq sess[s].viewers
      /\ r.out = sess[s].out /\ r.thread = sess[s].thread /\ r.read = sess[s].read
      /\ r.running = sess[s].running /\ r.backlog = sess[s].backlog
  BY <1>1 DEF Session, Collect
<1>4. copy[c] \in Seq(0 .. MaxPieces) /\ <<>> \in Seq(1 .. MaxPieces)
  <2>1. 1 .. MaxPieces \subseteq 0 .. MaxPieces
    OBVIOUS
  <2>2. copy[c] \in Seq(0 .. MaxPieces)
    BY <1>1, <2>1, SeqMonotonic, Zenon
  <2> QED
    BY <2>2
<1>5. /\ got' \in [Viewers -> Seq(0 .. MaxPieces)]
      /\ \A d \in Viewers : got'[d] = IF d \in {c} /\ Connected(d)
                                      THEN got[d] \o copy[c] ELSE got[d]
  BY <1>0, <1>2, <1>4, SendEffect
<1> HIDE DEF r
<1>6. /\ sess' \in Seq(Session) /\ Len(sess') = Len(sess) /\ Len(sess) \in Nat
      /\ DOMAIN sess' = DOMAIN sess
      /\ sess'[s] = r
      /\ \A x \in DOMAIN sess : x # s => sess'[x] = sess[x]
  BY <1>0, <1>1, <1>2, <1>3, SessionChange DEF SerialTyped
<1> HIDE DEF s
<1>7. SerialTyped'
  <2>1. 0 \in 0 .. Len(sess)
    BY <1>6
  <2> QED
    BY <1>0, <1>2, <1>4, <1>5, <1>6, <2>1 DEF SerialTyped
<1>8. Locking'
  BY <1>0, <1>1, <1>2, SerialAssumption DEF SerialTyped, Locking
<1>9. Loyal'
  <2>1. Newcomers' = Newcomers /\ c \notin Newcomers
    BY <1>0, <1>1, <1>2 DEF Newcomers, SerialTyped
  <2>2. Newcomers \subseteq Viewers
    BY DEF Newcomers
  <2>3. \A d \in Newcomers : subs'[d] = subs[d] /\ got'[d] = got[d]
    BY <1>2, <1>5, <2>1, <2>2
  <2> QED
    BY <1>0, <1>2, <1>3, <1>6, <2>1, <2>3 DEF Loyal
<1>10. Threads' /\ Backlogs'
  BY <1>1, <1>3, <1>6 DEF SerialInv, Threads, Backlogs
<1>11. SharedSessionStays'
  BY <1>0, <1>1, <1>2, <1>3, <1>6 DEF SerialTyped, SerialInv, SharedSessionStays,
     Connected, Collect
<1>12. Delivered'
  <2>1. \A d \in Viewers \ {c} : Connected(d)' /\ subs'[d] # 0 => Untouched(d)
    BY <1>0, <1>1, <1>2, <1>3, <1>5, <1>6 DEF Untouched, SerialTyped, Connected
  <2>2. ASSUME Connected(c)'
        PROVE  /\ since'[c] <= Sent(c)' /\ step'[c] # "answering"
               /\ \E a \in 0 .. since'[c] : Holds(got'[c], a, Sent(c)')
    <3>1. /\ since'[c] = since[c] /\ got'[c] = got[c] \o copy[c] /\ step'[c] = "idle"
          /\ Connected(c)
      BY <1>0, <1>2, <1>5, <2>2 DEF SerialTyped, Connected
    <3>2. Sent(c)' = Sent(c)
      BY <1>1, <1>2, <1>3, <1>6 DEF Sent
    <3>3. /\ Sent(c) \in Nat /\ since[c] \in Nat /\ got[c] \in Seq(0 .. MaxPieces)
      BY <1>1, SentNat
    <3>4. /\ since[c] <= Sent(c) /\ Holds(got[c], since[c], Sent(c))
          /\ EndsAt(copy[c], since[c])
      BY <1>1, <3>1 DEF SerialInv, Delivered
    <3>5. /\ since[c] - Len(copy[c]) \in 0 .. since[c]
          /\ Holds(got[c] \o copy[c], since[c] - Len(copy[c]), Sent(c))
      BY <1>1, <3>3, <3>4, HoldsBacklog
    <3> QED
      BY <3>1, <3>2, <3>4, <3>5
  <2>3. \A d \in Viewers \ {c} : Connected(d)' /\ subs'[d] # 0 =>
           /\ since'[d] <= Sent(d)'
           /\ IF step'[d] = "answering"
                THEN Holds(got'[d], since'[d], Sent(d)') /\ EndsAt(copy'[d], since'[d])
                ELSE \E a \in 0 .. since'[d] : Holds(got'[d], a, Sent(d)')
    BY <2>1, DeliveredKept
  <2> QED
    BY <2>2, <2>3 DEF Delivered
<1> QED
  BY <1>7, <1>8, <1>9, <1>10, <1>11, <1>12 DEF SerialInv

\* A write that is queued, or refused: nobody's view of the port changes.
LEMMA SerialWriteStep ==
  ASSUME SerialInv, NEW c \in Viewers, QueueWrite(c)
  PROVE  SerialInv'
<1> DEFINE s == uses[c]
           q == IF Fits(s) THEN sess[s].queue + 1 ELSE sess[s].queue
           r == [sess[s] EXCEPT !.queue = q]
<1>0. SerialTyped /\ Locking /\ Loyal
  BY DEF SerialInv
<1>1. /\ step[c] = "writing" /\ s # 0 /\ s \in DOMAIN sess /\ sess[s] \in Session
      /\ s \in 0 .. Len(sess)
  BY <1>0 DEF QueueWrite, SerialTyped, Locking
<1>2. q \in 0 .. MaxQueued
  BY <1>1, SerialAssumption DEF Fits, Session
<1>3. sess' = [sess EXCEPT ![s] = r]
  <2>1. CASE Fits(s)
    BY <2>1 DEF QueueWrite
  <2>2. CASE ~Fits(s)
    <3>1. r = sess[s]
      BY <1>1, <2>2 DEF Session
    <3>2. sess' = sess
      BY <2>2 DEF QueueWrite
    <3> QED
      BY <1>0, <1>1, <3>1, <3>2 DEF SerialTyped
  <2> QED
    BY <2>1, <2>2
<1> HIDE DEF q
<1>4. /\ r \in Session /\ r.viewers = sess[s].viewers
      /\ r.out = sess[s].out /\ r.thread = sess[s].thread /\ r.read = sess[s].read
      /\ r.running = sess[s].running /\ r.backlog = sess[s].backlog
  BY <1>1, <1>2 DEF Session
<1>5. /\ uses' = [uses EXCEPT ![c] = 0]
      /\ \E w \in 0 .. Len(sess), p \in {"idle", "releasing"} :
           /\ step' = [step EXCEPT ![c] = p]
           /\ waits' = waits \/ waits' = [waits EXCEPT ![c] = w]
      /\ UNCHANGED <<table, serviceLock, ws, subs, copy, since, got>>
  <2>1. LetGo(c, s, ReferencedBut(s, c))
    BY DEF QueueWrite
  <2>2. s \in 0 .. Len(sess)
    BY <1>1
  <2> HIDE DEF s
  <2>3. \E w \in 0 .. Len(sess), p \in {"idle", "releasing"} :
           /\ step' = [step EXCEPT ![c] = p]
           /\ waits' = waits \/ waits' = [waits EXCEPT ![c] = w]
    BY <2>1, <2>2 DEF LetGo
  <2> QED
    BY <2>3 DEF QueueWrite
<1> HIDE DEF r
<1>6. /\ sess' \in Seq(Session) /\ Len(sess') = Len(sess) /\ Len(sess) \in Nat
      /\ DOMAIN sess' = DOMAIN sess
      /\ sess'[s] = r
      /\ \A x \in DOMAIN sess : x # s => sess'[x] = sess[x]
  BY <1>0, <1>1, <1>3, <1>4, SessionChange DEF SerialTyped
<1> HIDE DEF s
<1>7. SerialTyped'
  <2>1. 0 \in 0 .. Len(sess)
    BY <1>6
  <2>2. waits' \in [Viewers -> 0 .. Len(sess)] /\ uses' \in [Viewers -> 0 .. Len(sess)]
    BY <1>0, <1>5, <2>1 DEF SerialTyped
  <2> QED
    BY SMTT(30), <1>0, <1>5, <1>6, <2>2 DEF SerialTyped
<1>8. Locking'
  BY <1>0, <1>1, <1>5 DEF SerialTyped, Locking
<1>9. Newcomers' = Newcomers
  BY <1>0, <1>1, <1>5 DEF Newcomers, SerialTyped
<1>10. \A x \in DOMAIN sess :
         /\ sess'[x].viewers = sess[x].viewers /\ sess'[x].out = sess[x].out
         /\ sess'[x].thread = sess[x].thread /\ sess'[x].read = sess[x].read
         /\ sess'[x].running = sess[x].running /\ sess'[x].backlog = sess[x].backlog
  BY <1>4, <1>6
<1>11. Loyal' /\ Threads' /\ Backlogs'
  BY <1>0, <1>5, <1>6, <1>9, <1>10 DEF Loyal, SerialInv, Threads, Backlogs
<1>12. SharedSessionStays'
  BY <1>0, <1>5, <1>6, <1>10 DEF SerialTyped, SerialInv, SharedSessionStays, Connected
<1>13. Delivered'
  <2>1. \A d \in Viewers \ {} : Connected(d)' /\ subs'[d] # 0 => Untouched(d)
    <3>1. \A d \in Viewers : subs[d] # 0 => subs[d] \in DOMAIN sess
      BY <1>0 DEF SerialTyped
    <3>2. \A d \in Viewers : step'[d] = "answering" <=> step[d] = "answering"
      BY <1>0, <1>1, <1>5 DEF SerialTyped
    <3> QED
      BY <1>5, <1>10, <3>1, <3>2 DEF Untouched, Connected
  <2> QED
    BY <2>1, DeliveredKept DEF Delivered
<1> QED
  BY <1>7, <1>8, <1>11, <1>12, <1>13 DEF SerialInv

\* A browser leaves; the session goes with the last one.
LEMMA SerialDetachStep ==
  ASSUME SerialInv, NEW c \in Viewers, DetachViewer(c)
  PROVE  SerialInv'
<1> DEFINE s == subs[c]
<1>0. SerialTyped /\ Locking /\ Loyal
  BY DEF SerialInv
<1>1. /\ step[c] = "idle" /\ serviceLock = None /\ s # 0 /\ s \in DOMAIN sess
      /\ sess[s] \in Session /\ Len(sess) \in Nat
  BY <1>0 DEF DetachViewer, LockFree, SerialTyped
<1>2. /\ subs' = [subs EXCEPT ![c] = 0]
      /\ since' = [since EXCEPT ![c] = 0]
      /\ got' = [got EXCEPT ![c] = <<>>]
      /\ UNCHANGED <<serviceLock, ws, uses, copy>>
  BY DEF DetachViewer
<1>3. PICK v \in SUBSET sess[s].viewers :
        /\ sess' = [sess EXCEPT ![s] = [sess[s] EXCEPT !.viewers = v]]
        /\ \A d \in sess[s].viewers : d # c /\ Connected(d) => d \in v
        /\ \/ table' = table
           \/ table = s /\ table' = 0 /\ \A d \in sess[s].viewers : d = c
  <2> DEFINE alive == s # 0 /\ Referenced(s)
             rest == Remaining(s, c)
  <2>1. CASE ~alive
    <3>1. sess' = sess /\ table' = table
      BY <2>1 DEF DetachViewer
    <3>2. [sess[s] EXCEPT !.viewers = sess[s].viewers] = sess[s]
      BY <1>1 DEF Session
    <3>3. sess = [sess EXCEPT ![s] = [sess[s] EXCEPT !.viewers = sess[s].viewers]]
      BY <1>0, <1>1, <3>2 DEF SerialTyped
    <3> QED
      BY <3>1, <3>3
  <2>2. CASE alive /\ rest # {}
    <3>1. /\ sess' = [sess EXCEPT ![s].viewers = {d \in rest : Connected(d)}]
          /\ table' = table
      BY <2>2 DEF DetachViewer
    <3>2. /\ {d \in rest : Connected(d)} \in SUBSET sess[s].viewers
          /\ \A d \in sess[s].viewers : d # c /\ Connected(d) =>
               d \in {e \in rest : Connected(e)}
      BY DEF Remaining
    <3> QED
      BY <3>1, <3>2
  <2>3. CASE alive /\ rest = {}
    <3>1. /\ sess' = [sess EXCEPT ![s] = [sess[s] EXCEPT !.viewers = {}]]
          /\ table' = table \/ (table = s /\ table' = 0)
      BY <2>3 DEF DetachViewer
    <3>2. \A d \in sess[s].viewers : d = c
      BY <2>3 DEF Remaining
    <3>3. {} \in SUBSET sess[s].viewers
      OBVIOUS
    <3> QED
      BY <3>1, <3>2, <3>3
  <2> QED
    BY <2>1, <2>2, <2>3
<1> DEFINE r == [sess[s] EXCEPT !.viewers = v]
<1>4. /\ r \in Session /\ r.viewers = v
      /\ r.out = sess[s].out /\ r.thread = sess[s].thread /\ r.read = sess[s].read
      /\ r.running = sess[s].running /\ r.backlog = sess[s].backlog
  BY <1>1 DEF Session
<1>5. \E w \in 0 .. Len(sess), p \in {"idle", "releasing"} :
           /\ step' = [step EXCEPT ![c] = p]
           /\ waits' = waits \/ waits' = [waits EXCEPT ![c] = w]
  <2>1. s \in 0 .. Len(sess) /\ 0 \in 0 .. Len(sess)
    BY <1>1
  <2>2. CASE UNCHANGED <<step, waits>>
    <3>1. step' = [step EXCEPT ![c] = "idle"]
      BY <1>0, <1>1, <2>2 DEF SerialTyped
    <3> QED
      BY <2>1, <2>2, <3>1
  <2>3. ASSUME NEW x \in {s, 0}, NEW others, LetGo(c, x, others)
        PROVE  \E w \in 0 .. Len(sess), p \in {"idle", "releasing"} :
                 /\ step' = [step EXCEPT ![c] = p]
                 /\ waits' = waits \/ waits' = [waits EXCEPT ![c] = w]
    BY <2>1, <2>3 DEF LetGo
  <2>4. \/ UNCHANGED <<step, waits>>
        \/ LetGo(c, IF table = s THEN s ELSE 0, \E d \in Viewers : uses[d] = s)
    BY DEF DetachViewer
  <2> HIDE DEF s
  <2> QED
    BY <2>2, <2>3, <2>4
<1> HIDE DEF r
<1>6. /\ sess' \in Seq(Session) /\ Len(sess') = Len(sess)
      /\ DOMAIN sess' = DOMAIN sess
      /\ sess'[s] = r
      /\ \A x \in DOMAIN sess : x # s => sess'[x] = sess[x]
  BY <1>0, <1>1, <1>3, <1>4, SessionChange DEF r
<1>7. SerialTyped'
  <2>1. 0 \in 0 .. Len(sess) /\ 0 \in 0 .. MaxPieces
    BY <1>1, SerialAssumption
  <2>2. waits' \in [Viewers -> 0 .. Len(sess)]
        /\ step' \in [Viewers -> {"fresh", "idle", "opening", "adding", "answering",
                                  "releasing", "writing"}]
    BY <1>0, <1>5 DEF SerialTyped
  <2>3. table' \in 0 .. Len(sess)
    BY <1>0, <1>3, <2>1 DEF SerialTyped
  <2>4. <<>> \in Seq(0 .. MaxPieces)
    OBVIOUS
  <2> HIDE DEF s
  <2> QED
    BY <1>0, <1>2, <1>6, <2>1, <2>2, <2>3, <2>4 DEF SerialTyped
<1>8. Locking'
  BY <1>0, <1>1, <1>2, <1>5, SerialAssumption DEF SerialTyped, Locking
<1>9. Newcomers' = Newcomers /\ c \notin Newcomers
  BY <1>0, <1>1, <1>5 DEF Newcomers, SerialTyped
<1>10. \A x \in DOMAIN sess :
         /\ sess'[x].viewers \subseteq sess[x].viewers /\ sess'[x].out = sess[x].out
         /\ sess'[x].thread = sess[x].thread /\ sess'[x].read = sess[x].read
         /\ sess'[x].running = sess[x].running /\ sess'[x].backlog = sess[x].backlog
  BY <1>3, <1>4, <1>6
<1>11. Loyal'
  <2>1. Newcomers \subseteq Viewers
    BY DEF Newcomers
  <2>2. \A d \in Newcomers : subs'[d] = subs[d] /\ got'[d] = got[d]
    BY <1>0, <1>2, <1>9, <2>1 DEF SerialTyped
  <2>3. \A d \in Viewers : subs'[d] \in {subs[d], 0}
    BY <1>0, <1>2 DEF SerialTyped
  <2>4. \A x \in DOMAIN sess : sess[x].viewers \cup sess[x].out \subseteq Viewers
    <3>1. \A x \in DOMAIN sess : sess[x] \in Session
      BY <1>0 DEF SerialTyped
    <3> QED
      BY <3>1 DEF Session
  <2> QED
    BY <1>0, <1>6, <1>9, <1>10, <2>2, <2>3, <2>4 DEF Loyal
<1>12. Threads' /\ Backlogs'
  BY <1>6, <1>10 DEF SerialInv, Threads, Backlogs
<1>13. SharedSessionStays'
  <2> SUFFICES ASSUME NEW d \in Viewers, Connected(d)', subs'[d] # 0,
                      sess'[subs'[d]].running
               PROVE  table' = subs'[d] /\ d \in sess'[subs'[d]].viewers
    BY DEF SharedSessionStays
  <2>1. d # c /\ subs'[d] = subs[d] /\ Connected(d) /\ subs[d] \in DOMAIN sess
    BY <1>0, <1>2 DEF SerialTyped, Connected
  <2>2. /\ sess[subs[d]].running /\ table = subs[d] /\ d \in sess[subs[d]].viewers
    BY <1>10, <2>1 DEF SerialInv, SharedSessionStays
  <2>3. CASE subs[d] = s
    BY <1>3, <1>4, <1>6, <2>1, <2>2, <2>3
  <2>4. CASE subs[d] # s
    <3>1. d \in sess'[subs[d]].viewers
      BY <1>6, <2>1, <2>2, <2>4
    <3>2. table' = table
      BY <1>3, <2>2, <2>4
    <3> QED
      BY <2>1, <2>2, <3>1, <3>2
  <2> QED
    BY <2>3, <2>4
<1>14. Delivered'
  <2>1. \A d \in Viewers \ {c} : Connected(d)' /\ subs'[d] # 0 => Untouched(d)
    BY <1>0, <1>1, <1>2, <1>5, <1>6, <1>10 DEF Untouched, SerialTyped, Connected
  <2>2. subs'[c] = 0
    BY <1>0, <1>2 DEF SerialTyped
  <2> QED
    BY <2>1, <2>2, DeliveredKept DEF Delivered
<1> QED
  BY <1>7, <1>8, <1>11, <1>12, <1>13, <1>14 DEF SerialInv

LEMMA SerialStep ==
  SerialInv /\ [SerialNext]_serialVars => SerialInv'
<1> SUFFICES ASSUME SerialInv, [SerialNext]_serialVars PROVE SerialInv'
  OBVIOUS
<1>1. CASE UNCHANGED serialVars
  <2> USE <1>1 DEF serialVars
  <2>1. SerialTyped' /\ Locking' /\ Threads' /\ Backlogs'
    BY DEF SerialInv, SerialTyped, Locking, Threads, Backlogs
  <2>2. Loyal' /\ SharedSessionStays'
    BY DEF SerialInv, Loyal, Newcomers, SharedSessionStays, Connected
  <2>3. Delivered'
    BY DEF SerialInv, Delivered, Sent, Connected
  <2> QED
    BY <2>1, <2>2, <2>3 DEF SerialInv
<1>2. ASSUME NEW c \in Viewers, HandlerStep(c) PROVE SerialInv'
  BY <1>2, SerialQuietHandlers, SerialOpenStep, SerialAddStep, SerialAnswerStep,
     SerialWriteStep DEF HandlerStep
<1>3. ASSUME NEW c \in Viewers,
             (\E o \in PortOptions : AskOpen(c, o)) \/ FindSession(c) \/ Lose(c)
      PROVE  SerialInv'
  BY <1>3, SerialQuietHandlers
<1>4. ASSUME NEW c \in Viewers, DetachViewer(c) PROVE SerialInv'
  BY <1>4, SerialDetachStep
<1>5. ASSUME NEW s \in DOMAIN sess,
             \/ ThreadStep(s) \/ ReadPiece(s) \/ TakeWrite(s) \/ DeviceTakes(s)
             \/ DeviceFails(s)
      PROVE  SerialInv'
  BY <1>5, SerialThreadStep
<1> QED
  BY <1>1, <1>2, <1>3, <1>4, <1>5 DEF SerialNext

LEMMA SerialStart == SerialInit => SerialInv
<1> SUFFICES ASSUME SerialInit PROVE SerialInv
  OBVIOUS
<1>1. SerialTyped
  BY SerialAssumption DEF SerialInit, SerialTyped
<1>2. Locking /\ Loyal /\ Threads /\ Backlogs /\ SharedSessionStays
  BY SerialAssumption DEF SerialInit, Locking, Loyal, Newcomers, Threads, Backlogs,
     SharedSessionStays
<1>3. Delivered
  BY DEF SerialInit, Delivered
<1> QED
  BY <1>1, <1>2, <1>3 DEF SerialInv

\* What the invariant says to a browser: what a step has not sent yet aside,
\* it has an interval of the pieces that ends at the last one.
LEMMA SerialPromise == SerialInv => SerialTypeOK /\ SharedPortIsSafe
<1> SUFFICES ASSUME SerialInv PROVE SerialTypeOK /\ SharedPortIsSafe
  OBVIOUS
<1>1. SerialTypeOK
  BY DEF SerialInv, SerialTyped, SerialTypeOK
<1>2. EachPieceOnce
  <2> SUFFICES ASSUME NEW c \in Viewers, Connected(c), subs[c] # 0,
                      step[c] # "answering", sess[subs[c]].thread # "sending"
               PROVE  /\ \A i, j \in DOMAIN got[c] :
                           got[c][i] = got[c][j] /\ got[c][i] # FailureNotice => i = j
                      /\ \E k \in 1 .. since[c] + 1 :
                           {got[c][i] : i \in DOMAIN got[c]} \ {FailureNotice}
                             = k .. sess[subs[c]].read
    BY DEF EachPieceOnce
  <2>1. /\ Sent(c) \in Nat /\ since[c] \in Nat /\ got[c] \in Seq(0 .. MaxPieces)
        /\ Sent(c) = sess[subs[c]].read
    BY SentNat DEF Sent
  <2>2. PICK a \in 0 .. since[c] : Holds(got[c], a, Sent(c))
    BY DEF SerialInv, Delivered
  <2>3. DOMAIN got[c] = 1 .. Len(got[c])
    BY <2>1
  <2>4. a + 1 \in 1 .. since[c] + 1 /\ a \in Nat
    BY <2>1
  <2>5. {got[c][i] : i \in DOMAIN got[c]} \ {FailureNotice} = a + 1 .. Sent(c)
    <3> DEFINE q == got[c]
               b == Sent(c)
               pieces == {q[i] : i \in DOMAIN q} \ {FailureNotice}
    <3>1. DOMAIN q = 1 .. Len(q) /\ b \in Nat /\ Holds(q, a, b)
      BY <2>1, <2>2, <2>3
    <3> HIDE DEF q, b
    <3>2. \A x \in pieces : x \in a + 1 .. b
      BY <3>1 DEF Holds
    <3>3. \A n \in a + 1 .. b : n # FailureNotice
      BY <2>4, <3>1 DEF FailureNotice
    <3>4. \A n \in a + 1 .. b : n \in pieces
      BY <3>1, <3>3 DEF Holds
    <3>5. pieces = a + 1 .. b
      <4> HIDE DEF pieces
      <4> QED
        BY <3>2, <3>4
    <3> QED
      BY <3>5 DEF q, b
  <2> QED
    BY <2>1, <2>2, <2>3, <2>4, <2>5 DEF Holds
<1> QED
  BY <1>1, <1>2 DEF SharedPortIsSafe, SerialInv

-----------------------------------------------------------------------------
(* The worker of an SSH terminal *)

Command == [number : Nat, size : Sizes \cup {0}]

\* What a function that computes Inputs has to be.
CollectsInputs(g, cs, n) ==
  /\ g \in [0 .. n -> Seq(Nat)]
  /\ \A k \in 0 .. n :
       /\ g[k] = IF k = 0 THEN <<>>
                 ELSE IF cs[k].number = 0 THEN g[k - 1]
                 ELSE Append(g[k - 1], cs[k].number)
       /\ Len(g[k]) <= k

LEMMA InputsExist ==
  ASSUME NEW cs \in Seq(Command)
  PROVE  \E g : CollectsInputs(g, cs, Len(cs))
<1> DEFINE S == {n \in Nat : n <= Len(cs) => \E g : CollectsInputs(g, cs, n)}
<1>0. Len(cs) \in Nat /\ \A k \in 1 .. Len(cs) : cs[k].number \in Nat
  <2>1. Len(cs) \in Nat /\ \A k \in 1 .. Len(cs) : cs[k] \in Command
    OBVIOUS
  <2> QED
    BY <2>1 DEF Command
<1>1. 0 \in S
  <2>1. CollectsInputs([k \in 0 .. 0 |-> <<>>], cs, 0)
    BY DEF CollectsInputs
  <2> QED
    BY <2>1
<1>2. ASSUME NEW n \in Nat, n \in S PROVE n + 1 \in S
  <2> SUFFICES ASSUME n + 1 <= Len(cs) PROVE \E g : CollectsInputs(g, cs, n + 1)
    OBVIOUS
  <2>1. PICK g : CollectsInputs(g, cs, n)
    BY <1>0, <1>2
  <2> DEFINE x == IF cs[n + 1].number = 0 THEN g[n] ELSE Append(g[n], cs[n + 1].number)
             h == [k \in 0 .. n + 1 |-> IF k = n + 1 THEN x ELSE g[k]]
  <2>2. /\ g[n] \in Seq(Nat) /\ Len(g[n]) <= n /\ cs[n + 1].number \in Nat
        /\ \A k \in 0 .. n : g[k] \in Seq(Nat)
    <3>1. n \in 0 .. n /\ n + 1 \in 1 .. Len(cs)
      BY <1>0
    <3>2. \A k \in 0 .. n : g[k] \in Seq(Nat) /\ Len(g[k]) <= k
      BY <2>1 DEF CollectsInputs
    <3> QED
      BY <1>0, <3>1, <3>2
  <2>3. x \in Seq(Nat) /\ Len(x) <= n + 1
    BY <2>2
  <2>4. h \in [0 .. n + 1 -> Seq(Nat)]
    <3> HIDE DEF x
    <3> QED
      BY <2>2, <2>3
  <2>5. h[n + 1] = x /\ \A k \in 0 .. n : h[k] = g[k]
    <3> HIDE DEF x
    <3> QED
      OBVIOUS
  <2> HIDE DEF h
  <2>6. ASSUME NEW k \in 0 .. n + 1
        PROVE  /\ h[k] = IF k = 0 THEN <<>>
                         ELSE IF cs[k].number = 0 THEN h[k - 1]
                         ELSE Append(h[k - 1], cs[k].number)
               /\ Len(h[k]) <= k
    <3>1. CASE k = n + 1
      <4>1. k # 0 /\ k - 1 = n /\ h[n] = g[n]
        BY <2>5, <3>1
      <4> QED
        BY <2>3, <2>5, <3>1, <4>1
    <3>2. CASE k # n + 1
      <4>1. k \in 0 .. n /\ (k # 0 => k - 1 \in 0 .. n)
        BY <3>2
      <4>2. h[k] = g[k] /\ (k # 0 => h[k - 1] = g[k - 1])
        BY <2>5, <4>1
      <4> QED
        BY <2>1, <4>1, <4>2 DEF CollectsInputs
    <3> QED
      BY <3>1, <3>2
  <2>7. CollectsInputs(h, cs, n + 1)
    BY <2>4, <2>6 DEF CollectsInputs
  <2> QED
    BY <2>7
<1>3. Nat \subseteq S
  <2> HIDE DEF S
  <2> QED
    BY <1>1, <1>2, SetInduction
<1> QED
  BY <1>0, <1>3

\* A batch of commands has at most one input each.
LEMMA InputsBound ==
  ASSUME NEW cs \in Seq(Command)
  PROVE  Inputs(cs) \in Seq(Nat) /\ Len(Inputs(cs)) <= Len(cs)
<1> DEFINE f == InputsOfFirst(cs)
           Body(g) == [k \in 0 .. Len(cs) |->
                        IF k = 0 THEN <<>>
                        ELSE IF cs[k].number = 0 THEN g[k - 1]
                        ELSE Append(g[k - 1], cs[k].number)]
<1>0. Len(cs) \in Nat /\ \A k \in 1 .. Len(cs) : cs[k].number \in Nat
  <2>1. Len(cs) \in Nat /\ \A k \in 1 .. Len(cs) : cs[k] \in Command
    OBVIOUS
  <2> QED
    BY <2>1 DEF Command
<1>1. \E g : g = Body(g)
  <2>1. PICK g : CollectsInputs(g, cs, Len(cs))
    BY InputsExist
  <2>2. g = Body(g)
    BY <2>1 DEF CollectsInputs
  <2> QED
    BY <2>2
<1>2. f = Body(f)
  <2>1. f = CHOOSE g : g = Body(g)
    BY DEF InputsOfFirst
  <2> HIDE DEF f
  <2> QED
    BY <1>1, <2>1
<1>3. \A k \in 0 .. Len(cs) :
        f[k] = IF k = 0 THEN <<>>
               ELSE IF cs[k].number = 0 THEN f[k - 1]
               ELSE Append(f[k - 1], cs[k].number)
  <2> HIDE DEF f
  <2> QED
    BY <1>2
<1> HIDE DEF f
<1> DEFINE S == {n \in Nat : n <= Len(cs) => f[n] \in Seq(Nat) /\ Len(f[n]) <= n}
<1>4. 0 \in S
  <2>1. 0 \in 0 .. Len(cs)
    BY <1>0
  <2>2. f[0] = <<>>
    BY <1>3, <2>1
  <2>3. f[0] \in Seq(Nat) /\ Len(f[0]) <= 0
    BY <2>2
  <2> QED
    BY <2>3
<1>5. ASSUME NEW n \in Nat, n \in S PROVE n + 1 \in S
  <2> SUFFICES ASSUME n + 1 <= Len(cs)
               PROVE  f[n + 1] \in Seq(Nat) /\ Len(f[n + 1]) <= n + 1
    OBVIOUS
  <2>1. f[n] \in Seq(Nat) /\ Len(f[n]) <= n /\ cs[n + 1].number \in Nat
    BY <1>0, <1>5
  <2>2. f[n + 1] = IF cs[n + 1].number = 0 THEN f[n] ELSE Append(f[n], cs[n + 1].number)
    <3>1. n + 1 \in 0 .. Len(cs) /\ n + 1 # 0 /\ (n + 1) - 1 = n
      BY <1>0
    <3> QED
      BY <1>3, <3>1
  <2> QED
    BY <2>1, <2>2
<1>6. Nat \subseteq S
  <2> HIDE DEF S
  <2> QED
    BY <1>4, <1>5, SetInduction
<1> QED
  BY <1>0, <1>6 DEF Inputs, f

\* The size that a batch of commands asks for.
LEMMA LastSizeType ==
  ASSUME NEW cs \in Seq(Command), NEW before \in Sizes \cup {0}
  PROVE  LastSize(cs, before) \in Sizes \cup {0}
<1> DEFINE resizes == {i \in DOMAIN cs : cs[i].number = 0}
           last == CHOOSE i \in resizes : \A k \in resizes : k <= i
<1>0. Len(cs) \in Nat /\ DOMAIN cs = 1 .. Len(cs)
  OBVIOUS
<1>1. CASE resizes = {}
  BY <1>1 DEF LastSize
<1>2. CASE resizes # {}
  <2>1. \E i \in resizes : \A k \in resizes : k <= i
    <3> DEFINE T == {Len(cs) - i : i \in resizes}
    <3>1. T \in SUBSET Nat /\ T # {}
      BY <1>0, <1>2
    <3>2. PICK x \in T : \A y \in T : x <= y
      BY <3>1, LeastNat
    <3>3. PICK i \in resizes : x = Len(cs) - i
      BY <3>2
    <3>4. \A k \in resizes : Len(cs) - i <= Len(cs) - k
      BY <3>2, <3>3
    <3>5. \A k \in resizes : k <= i
      BY <1>0, <3>4
    <3> QED
      BY <3>5
  <2>2. last \in resizes
    BY <2>1
  <2>3. cs[last] \in Command
    <3> HIDE DEF last
    <3> QED
      BY <2>2
  <2>4. LastSize(cs, before) = cs[last].size
    BY <1>2 DEF LastSize
  <2> QED
    BY <2>3, <2>4 DEF Command
<1> QED
  BY <1>1, <1>2

WorkerTyped ==
  /\ hostKey \in {"saved", "changed", "unknown"}
  /\ stage \in {"transport", "handshake", "host-key", "authentication", "connected",
                "closed", "failed"}
  /\ round \in {"top", "resizing", "writing", "reading"}
  /\ sleeper \in {"awake", "dozing", "asleep"}
  /\ mutexHeld \in BOOLEAN /\ answered \in BOOLEAN /\ trusted \in BOOLEAN
  /\ stopping \in BOOLEAN /\ notified \in BOOLEAN /\ retrying \in BOOLEAN
  /\ given \in 0 .. MaxCommands
  /\ commands \in Seq(Command) /\ input \in Seq(Nat)
  /\ resize \in Sizes \cup {0} /\ screen \in Sizes \cup {0}
  /\ call.done \in BOOLEAN
  /\ call.op = "resize" => call.args[1] \in Sizes \cup {0}

\* Each command is in one place.
CommandsCounted == Len(commands) + Len(input) <= given

\* A write that is not complete is what the buffer holds; until it is
\* complete the loop gets no further than to the writing.
WriteIsPending ==
  call.op = "write" /\ ~call.done =>
    retrying /\ input = call.args /\ input # <<>> /\ round # "reading"

WorkerInv == WorkerTyped /\ CommandsCounted /\ WriteIsPending

LEMMA WorkerStart == WorkerInit \/ WorkerAtRest => WorkerInv
<1> SUFFICES ASSUME WorkerInit \/ WorkerAtRest PROVE WorkerInv
  OBVIOUS
<1>1. call.op = "none" /\ call.done = TRUE
  BY DEF WorkerInit, WorkerAtRest, NoCall
<1>2. /\ commands = <<>> /\ input = <<>> /\ given = 0 /\ given \in 0 .. MaxCommands
      /\ commands \in Seq(Command) /\ input \in Seq(Nat)
  <2>1. commands = <<>> /\ input = <<>> /\ given = 0
    BY DEF WorkerInit, WorkerAtRest
  <2> QED
    BY <2>1, WorkerAssumption
<1>3. WorkerTyped
  BY <1>1, <1>2 DEF WorkerInit, WorkerAtRest, WorkerTyped
<1> QED
  BY <1>1, <1>2, <1>3 DEF WorkerInv, CommandsCounted, WriteIsPending

LEMMA WorkerKeepsInv ==
  WorkerInv /\ [WorkerNext]_workerThreadVars => WorkerInv'
<1> SUFFICES ASSUME WorkerInv, [WorkerNext]_workerThreadVars PROVE WorkerInv'
  OBVIOUS
<1> USE WorkerAssumption DEF requestVars, loopVars, waitVars
<1>0. WorkerTyped /\ Len(commands) \in Nat /\ Len(input) \in Nat /\ given \in Nat
  BY DEF WorkerInv, WorkerTyped
<1>1. CASE UNCHANGED workerThreadVars
  BY <1>1 DEF workerThreadVars, WorkerInv, WorkerTyped, CommandsCounted, WriteIsPending
<1>2. ASSUME NEW number \in Nat, NEW size \in Sizes \cup {0}, GiveCommand(number, size)
      PROVE  WorkerInv'
  <2>1. commands' \in Seq(Command) /\ Len(commands') = Len(commands) + 1
    <3>1. [number |-> number, size |-> size] \in Command
      BY DEF Command
    <3> QED
      BY <1>0, <1>2, <3>1 DEF GiveCommand, WorkerTyped
  <2>2. given' \in 0 .. MaxCommands /\ given' = given + 1
    BY <1>0, <1>2 DEF GiveCommand, WorkerTyped
  <2>3. WorkerTyped'
    BY <1>0, <1>2, <2>1, <2>2 DEF GiveCommand, WakeUp, WorkerTyped
  <2>4. CommandsCounted'
    BY <1>0, <1>2, <2>1, <2>2 DEF GiveCommand, WorkerInv, CommandsCounted
  <2>5. WriteIsPending'
    BY <1>2 DEF GiveCommand, WorkerInv, WriteIsPending
  <2> QED
    BY <2>3, <2>4, <2>5 DEF WorkerInv
<1>3. CASE \/ (\E a \in BOOLEAN : ConfirmHostKey(a)) \/ AskStop \/ NotifyStop
           \/ Connects \/ ChecksHostKey \/ TestAnswer \/ FallAsleep \/ Authenticates
           \/ Fails \/ LeaveLoop \/ ChannelFails
  <2>1. UNCHANGED loopVars /\ UNCHANGED given
    BY <1>3 DEF ConfirmHostKey, AskStop, NotifyStop, Connects, ChecksHostKey, TestAnswer,
       FallAsleep, Authenticates, Fails, LeaveLoop, ChannelFails
  <2>2. stage' \in {"transport", "handshake", "host-key", "authentication", "connected",
                    "closed", "failed"}
    BY <1>0, <1>3 DEF ConfirmHostKey, AskStop, NotifyStop, Connects, ChecksHostKey,
       TestAnswer, FallAsleep, Authenticates, Fails, LeaveLoop, ChannelFails, Goes,
       WorkerTyped
  <2>3. /\ sleeper' \in {"awake", "dozing", "asleep"} /\ mutexHeld' \in BOOLEAN
        /\ answered' \in BOOLEAN /\ trusted' \in BOOLEAN
        /\ stopping' \in BOOLEAN /\ notified' \in BOOLEAN /\ hostKey' = hostKey
    <3>1. CASE (\E a \in BOOLEAN : ConfirmHostKey(a)) \/ AskStop \/ NotifyStop
      BY <1>0, <3>1 DEF ConfirmHostKey, AskStop, NotifyStop, WakeUp, WorkerTyped
    <3>2. CASE TestAnswer \/ FallAsleep
      BY <1>0, <3>2 DEF TestAnswer, FallAsleep, WorkerTyped
    <3>3. CASE Connects \/ ChecksHostKey \/ Authenticates \/ Fails \/ LeaveLoop
               \/ ChannelFails
      BY <1>0, <3>3 DEF Connects, ChecksHostKey, Authenticates, Fails, LeaveLoop,
         ChannelFails, WorkerTyped
    <3> QED
      BY <1>3, <3>1, <3>2, <3>3
  <2>4. WorkerTyped'
    BY <1>0, <2>1, <2>2, <2>3 DEF WorkerTyped
  <2> QED
    BY <2>1, <2>4 DEF WorkerInv, CommandsCounted, WriteIsPending
<1>4. CASE TakeCommands
  <2>1. /\ Inputs(commands) \in Seq(Nat) /\ Len(Inputs(commands)) <= Len(commands)
        /\ LastSize(commands, resize) \in Sizes \cup {0}
    BY <1>0, InputsBound, LastSizeType DEF WorkerTyped
  <2>2. CASE MayTakeCommands
    <3>1. /\ input' = input \o Inputs(commands) /\ commands' = <<>>
          /\ resize' = LastSize(commands, resize) /\ round' = "resizing"
          /\ UNCHANGED <<hostKey, stage, requestVars, waitVars, retrying, call, screen>>
      BY <1>4, <2>2 DEF TakeCommands
    <3>2. WorkerTyped'
      BY <1>0, <2>1, <3>1 DEF WorkerTyped
    <3>3. Len(input') = Len(input) + Len(Inputs(commands)) /\ Len(commands') = 0
      BY <1>0, <2>1, <3>1 DEF WorkerTyped
    <3>4. CommandsCounted'
      BY <1>0, <2>1, <3>1, <3>3 DEF WorkerInv, CommandsCounted
    <3> QED
      BY <2>2, <3>1, <3>2, <3>4 DEF WorkerInv, WriteIsPending, MayTakeCommands
  <2>3. CASE ~MayTakeCommands
    BY <1>0, <1>4, <2>3 DEF TakeCommands, WorkerInv, WorkerTyped, CommandsCounted,
       WriteIsPending
  <2> QED
    BY <2>2, <2>3
<1>5. CASE AskRemoteSize
  <2>0. /\ round' \in {"top", "resizing", "writing", "reading"}
        /\ resize' \in Sizes \cup {0}
        /\ UNCHANGED <<hostKey, stage, requestVars, waitVars, commands, input, retrying>>
    BY <1>0, <1>5 DEF AskRemoteSize, WorkerTyped
  <2>3. ASSUME UNCHANGED <<call, screen>> PROVE WorkerTyped'
    BY <1>0, <2>0, <2>3 DEF WorkerTyped
  <2>4. ASSUME call' = [op |-> "resize", args |-> <<resize>>, done |-> TRUE],
               screen' = IF call.op = "resize" /\ ~call.done THEN call.args[1] ELSE resize
        PROVE  WorkerTyped'
    <3>1. call'.op = "resize" /\ call'.done \in BOOLEAN /\ call'.args[1] = resize
      BY <2>4
    <3>2. screen' \in Sizes \cup {0}
      BY <1>0, <2>4 DEF WorkerTyped
    <3> QED
      BY <1>0, <2>0, <3>1, <3>2 DEF WorkerTyped
  <2>5. ASSUME call' = [op |-> "resize", args |-> <<resize>>, done |-> FALSE],
               UNCHANGED screen
        PROVE  WorkerTyped'
    <3>1. call'.op = "resize" /\ call'.done = FALSE /\ call'.args[1] = resize
      BY <2>5
    <3> QED
      BY <1>0, <2>0, <2>5, <3>1 DEF WorkerTyped
  <2>6. ASSUME call' = NoCall, UNCHANGED screen PROVE WorkerTyped'
    <3>1. call'.op = "none" /\ call'.done \in BOOLEAN
      BY <2>6 DEF NoCall
    <3> QED
      BY <1>0, <2>0, <2>6, <3>1 DEF WorkerTyped
  <2>1. WorkerTyped'
    BY <1>5, <2>3, <2>4, <2>5, <2>6 DEF AskRemoteSize
  <2>2. WriteIsPending'
    BY <1>0, <1>5 DEF AskRemoteSize, WorkerInv, WriteIsPending, WorkerTyped, NoCall
  <2> QED
    BY <1>5, <2>1, <2>2 DEF AskRemoteSize, WorkerInv, CommandsCounted
<1>6. ASSUME NEW n \in 0 .. Len(input), WriteChannel(n) PROVE WorkerInv'
  <2>1. input' \in Seq(Nat) /\ Len(input') = Len(input) - n /\ (n = 0 => input' = input)
    BY <1>0, <1>6 DEF WriteChannel, WorkerTyped
  <2>2. call' = [op |-> "write", args |-> input, done |-> n > 0]
    BY <1>6 DEF WriteChannel
  <2>6. /\ call'.op = "write" /\ call'.args = input /\ call'.done = (n > 0)
        /\ call'.done \in BOOLEAN
    BY <2>2
  <2>7. /\ round' \in {"top", "resizing", "writing", "reading"} /\ retrying' \in BOOLEAN
        /\ UNCHANGED <<hostKey, stage, requestVars, waitVars, commands, resize, screen>>
    BY <1>0, <1>6 DEF WriteChannel, WorkerTyped
  <2>3. WorkerTyped'
    BY <1>0, <2>1, <2>6, <2>7 DEF WorkerTyped
  <2>4. CommandsCounted'
    BY <1>0, <1>6, <2>1 DEF WriteChannel, WorkerInv, CommandsCounted
  <2>5. WriteIsPending'
    <3>1. CASE n > 0
      BY <2>6, <3>1 DEF WriteIsPending
    <3>2. CASE n = 0
      BY <1>6, <2>1, <2>6, <3>2 DEF WriteChannel, WriteIsPending
    <3> QED
      BY <3>1, <3>2
  <2> QED
    BY <2>3, <2>4, <2>5 DEF WorkerInv
<1>7. CASE WritesDone \/ ReadChannel \/ NothingToRead
  <2>1. CASE WritesDone
    <3>1. WorkerTyped'
      <4>1. /\ retrying' \in BOOLEAN /\ round' = "reading"
            /\ UNCHANGED <<hostKey, stage, requestVars, waitVars, commands, input, resize,
                           call, screen>>
        BY <2>1 DEF WritesDone
      <4> QED
        BY <1>0, <4>1 DEF WorkerTyped
    <3>2. CommandsCounted' /\ WriteIsPending'
      BY <2>1 DEF WritesDone, WorkerInv, CommandsCounted, WriteIsPending
    <3> QED
      BY <3>1, <3>2 DEF WorkerInv
  <2>2. CASE ReadChannel \/ NothingToRead
    <3>1. /\ call' = [op |-> "read", args |-> <<>>, done |-> TRUE]
          /\ round' \in {"top", "resizing", "writing", "reading"}
          /\ UNCHANGED <<hostKey, stage, requestVars, waitVars, commands, input, resize,
                         retrying, screen>>
      BY <1>0, <2>2 DEF ReadChannel, NothingToRead, WorkerTyped
    <3>2. call'.op = "read" /\ call'.done \in BOOLEAN
      BY <3>1
    <3> QED
      BY <1>0, <3>1, <3>2 DEF WorkerInv, WorkerTyped, CommandsCounted, WriteIsPending
  <2> QED
    BY <1>7, <2>1, <2>2
<1>8. WriteInput => \E n \in Nat : GiveCommand(n, 0)
  BY <1>0 DEF WriteInput
<1>9. ASSUME NEW s \in Sizes, ResizeTo(s) PROVE GiveCommand(0, s)
  BY <1>9 DEF ResizeTo
<1> QED
  BY <1>1, <1>2, <1>3, <1>4, <1>5, <1>6, <1>7, <1>8, <1>9 DEF WorkerNext, RunStep

\* Nothing but the same write completes, or tries again, what is pending.
LEMMA SameWriteStep ==
  WorkerInv /\ [WorkerNext]_workerThreadVars =>
    (call.op = "write" /\ ~call.done /\ call' # call
       => call'.op = "write" /\ call'.args = call.args)
<1> SUFFICES ASSUME WorkerInv, [WorkerNext]_workerThreadVars,
                    call.op = "write", ~call.done, call' # call
             PROVE  call'.op = "write" /\ call'.args = call.args
  OBVIOUS
<1>1. retrying /\ input = call.args /\ round # "reading"
  BY DEF WorkerInv, WriteIsPending
<1>2. ASSUME NEW n \in 0 .. Len(input), WriteChannel(n)
      PROVE  call' = [op |-> "write", args |-> input, done |-> n > 0]
  BY <1>2 DEF WriteChannel
<1>3. \E n \in 0 .. Len(input) : WriteChannel(n)
  BY <1>1 DEF WorkerNext, RunStep, workerThreadVars, requestVars, loopVars, waitVars,
     WriteInput, ResizeTo, GiveCommand, ConfirmHostKey, AskStop, NotifyStop, Connects,
     ChecksHostKey, TestAnswer, FallAsleep, Authenticates, Fails, LeaveLoop, TakeCommands,
     AskRemoteSize, WritesDone, ReadChannel, NothingToRead, ChannelFails, At
<1> QED
  BY <1>1, <1>2, <1>3

LEMMA WorkerPromise == WorkerInv => WorkerTypeOK
BY DEF WorkerInv, WorkerTyped, CommandsCounted, WorkerTypeOK

-----------------------------------------------------------------------------
(* The transfer server *)

Server ==
  [config : Settings, running : BOOLEAN, listening : BOOLEAN, active : SUBSET Sockets,
   acceptor : {"accepting", "holding", "ended"}, accepted : Sockets \cup {NoSocket},
   stop : {"no", "asked", "closed", "swept", "stopped"}]

Worker ==
  [server : Nat, socket : Sockets, at : {"handshake", "serving", "erasing", "done"},
   open : BOOLEAN, shut : BOOLEAN]

TransferTyped ==
  /\ settings \in Settings /\ current \in 0 .. Len(servers) /\ starting \in BOOLEAN
  /\ servers \in Seq(Server) /\ workers \in Seq(Worker)

\* A connection that is held has a descriptor, and a worker has a server.
Referring ==
  /\ \A s \in DOMAIN servers : servers[s].acceptor = "holding" => servers[s].accepted \in Sockets
  /\ \A w \in DOMAIN workers : workers[w].server \in DOMAIN servers

TransferInv == TransferTyped /\ Referring /\ RunningUsesSettings

\* A step that changes one server: nobody runs because of it, or otherwise.
LEMMA ServerChange ==
  ASSUME TransferInv, NEW s \in DOMAIN servers, NEW r \in Server,
         servers' = [servers EXCEPT ![s] = r],
         r.config = servers[s].config, r.running => servers[s].running,
         r.acceptor = "holding" => r.accepted \in Sockets,
         settings' = settings, current' \in {current, 0}, starting' \in BOOLEAN,
         workers' \in Seq(Worker),
         \A w \in DOMAIN workers' : workers'[w].server \in DOMAIN servers
  PROVE  TransferInv'
<1>1. /\ servers' \in Seq(Server) /\ Len(servers') = Len(servers) /\ Len(servers) \in Nat
      /\ DOMAIN servers' = DOMAIN servers
      /\ servers'[s] = r
      /\ \A x \in DOMAIN servers : x # s => servers'[x] = servers[x]
  BY DEF TransferInv, TransferTyped
<1>2. TransferTyped'
  <2>1. CASE current' = current
    BY <1>1, <2>1 DEF TransferInv, TransferTyped
  <2>2. CASE current' = 0
    BY <1>1, <2>2 DEF TransferInv, TransferTyped
  <2> QED
    BY <2>1, <2>2
<1>3. Referring'
  BY <1>1 DEF TransferInv, Referring
<1>4. RunningUsesSettings'
  <2> SUFFICES ASSUME current' # 0, servers'[current'].running
               PROVE  servers'[current'].config = settings'
    BY DEF RunningUsesSettings, IsRunning
  <2>1. current' = current /\ current \in DOMAIN servers
    BY DEF TransferInv, TransferTyped
  <2> QED
    BY <1>1, <2>1 DEF TransferInv, RunningUsesSettings, IsRunning
<1> QED
  BY <1>2, <1>3, <1>4 DEF TransferInv

\* The lowest free descriptor is a free one.
LEMMA LowestIsFree ==
  ASSUME FreeSockets # {}
  PROVE  (CHOOSE f \in FreeSockets : \A g \in FreeSockets : f <= g) \in Sockets
<1>1. FreeSockets \in SUBSET Nat /\ FreeSockets \subseteq Sockets
  BY SocketsAssumption DEF FreeSockets
<1>2. \E f \in FreeSockets : \A g \in FreeSockets : f <= g
  BY <1>1, LeastNat
<1> QED
  BY <1>1, <1>2

\* The steps of the manager.
LEMMA ManagerStep ==
  ASSUME TransferInv,
         UpdateServerConfig \/ StartServer \/ Started \/ StartFails \/ StartHasFailed
         \/ StopServer
  PROVE  TransferInv'
<1>0. /\ TransferTyped /\ Len(servers) \in Nat /\ DOMAIN servers = 1 .. Len(servers)
      /\ (current # 0 => current \in DOMAIN servers)
      /\ \A s \in DOMAIN servers : servers[s] \in Server
  BY DEF TransferInv, TransferTyped
<1>1. CASE UpdateServerConfig
  BY <1>0, <1>1 DEF UpdateServerConfig, SettingsLocked, TransferInv, TransferTyped,
     Referring, RunningUsesSettings, IsRunning
<1>2. CASE StartServer
  <2> DEFINE r == [config |-> settings, running |-> TRUE, listening |-> TRUE,
                   active |-> {}, acceptor |-> "accepting", accepted |-> NoSocket,
                   stop |-> "no"]
  <2>1. /\ r \in Server /\ r.config = settings /\ r.acceptor = "accepting"
    BY <1>0 DEF Server, TransferTyped
  <2>2. servers' = Append(servers, r) /\ current' = Len(servers) + 1
        /\ starting' \in BOOLEAN /\ UNCHANGED <<settings, workers>>
    BY <1>2 DEF StartServer
  <2> HIDE DEF r
  <2>3. /\ servers' \in Seq(Server) /\ Len(servers') = Len(servers) + 1
        /\ servers'[Len(servers) + 1] = r
        /\ DOMAIN servers' = 1 .. Len(servers) + 1
        /\ \A s \in DOMAIN servers : servers'[s] = servers[s]
    BY <1>0, <2>1, <2>2 DEF TransferTyped
  <2>4. TransferTyped'
    BY <1>0, <2>2, <2>3 DEF TransferTyped
  <2>5. Referring'
    BY <1>0, <2>1, <2>2, <2>3 DEF TransferInv, Referring
  <2>6. RunningUsesSettings'
    BY <2>1, <2>2, <2>3 DEF RunningUsesSettings
  <2> QED
    BY <2>4, <2>5, <2>6 DEF TransferInv
<1>3. CASE Started \/ StartHasFailed
  <2>1. starting' \in BOOLEAN /\ UNCHANGED <<settings, current, servers, workers>>
    BY <1>3 DEF Started, StartHasFailed
  <2> QED
    BY <2>1 DEF TransferInv, TransferTyped, Referring, RunningUsesSettings, IsRunning
<1>4. CASE StartFails /\ current # 0
  <2> DEFINE r == [servers[current] EXCEPT !.running = FALSE, !.stop = "asked"]
  <2>1. servers' = [servers EXCEPT ![current] = r] /\ UNCHANGED <<managerVars, workers>>
    BY <1>4 DEF StartFails
  <2>2. /\ r \in Server /\ r.config = servers[current].config /\ ~r.running
        /\ r.acceptor = servers[current].acceptor /\ r.accepted = servers[current].accepted
    BY <1>0, <1>4 DEF Server
  <2> HIDE DEF r
  <2> QED
    BY <1>0, <1>4, <2>1, <2>2, ServerChange DEF managerVars, TransferTyped, TransferInv,
       Referring
<1>5. CASE StartFails /\ current = 0
  <2>1. UNCHANGED transferVars
    BY <1>0, <1>5 DEF StartFails, transferVars, managerVars, TransferTyped
  <2> QED
    BY <2>1 DEF transferVars, TransferInv, TransferTyped, Referring, RunningUsesSettings,
       IsRunning
<1>6. CASE StopServer
  <2> DEFINE x == IF servers[current].stop = "no" THEN "asked" ELSE servers[current].stop
             r == [servers[current] EXCEPT !.running = FALSE, !.stop = x]
  <2>1. /\ servers' = [servers EXCEPT ![current] = r]
        /\ current' = 0 /\ current \in DOMAIN servers
        /\ UNCHANGED <<settings, starting, workers>>
    BY <1>0, <1>6 DEF StopServer
  <2>2. x \in {"no", "asked", "closed", "swept", "stopped"}
    BY <1>0, <2>1 DEF Server
  <2> HIDE DEF x
  <2>3. /\ r \in Server /\ r.config = servers[current].config /\ ~r.running
        /\ r.acceptor = servers[current].acceptor /\ r.accepted = servers[current].accepted
    BY <1>0, <2>1, <2>2 DEF Server
  <2> HIDE DEF r
  <2> QED
    BY <1>0, <2>1, <2>3, ServerChange DEF TransferTyped, TransferInv, Referring
<1> QED
  BY <1>1, <1>2, <1>3, <1>4, <1>5, <1>6

\* The steps of a Stop and of an accept thread.
LEMMA ServerStep ==
  ASSUME TransferInv, NEW s \in DOMAIN servers, StopStep(s) \/ AcceptStep(s)
  PROVE  TransferInv'
<1> USE DEF managerVars
<1>0. /\ TransferTyped /\ servers[s] \in Server /\ current' = current
      /\ settings' = settings /\ starting' \in BOOLEAN
      /\ workers \in Seq(Worker)
      /\ \A w \in DOMAIN workers : workers[w].server \in DOMAIN servers
  BY DEF TransferInv, TransferTyped, Referring, StopStep, CloseListeners, SweepSockets,
     JoinThreads, AcceptStep, Accept, Register, EndAccept
<1>1. \/ servers[s].acceptor = "holding" => servers[s].accepted \in Sockets
  BY DEF TransferInv, Referring
<1>2. CASE CloseListeners(s)
  <2> DEFINE r == [servers[s] EXCEPT !.listening = ListensAfterStop(s), !.stop = "closed"]
  <2>1. servers' = [servers EXCEPT ![s] = r] /\ workers' = workers
    BY <1>2 DEF CloseListeners
  <2>2. /\ r \in Server /\ r.config = servers[s].config /\ r.running = servers[s].running
        /\ r.acceptor = servers[s].acceptor /\ r.accepted = servers[s].accepted
    BY <1>0 DEF Server, ListensAfterStop
  <2> HIDE DEF r
  <2> QED
    BY <1>0, <1>1, <2>1, <2>2, ServerChange
<1>3. CASE SweepSockets(s)
  <2> DEFINE r == [servers[s] EXCEPT !.stop = "swept"]
  <2>1. servers' = [servers EXCEPT ![s] = r]
    BY <1>3 DEF SweepSockets
  <2>2. /\ r \in Server /\ r.config = servers[s].config /\ r.running = servers[s].running
        /\ r.acceptor = servers[s].acceptor /\ r.accepted = servers[s].accepted
    BY <1>0 DEF Server
  <2>3. /\ DOMAIN workers' = DOMAIN workers
        /\ \A w \in DOMAIN workers : workers'[w] =
             [workers[w] EXCEPT !.shut = @ \/ (/\ workers[w].open
                                               /\ workers[w].socket \in servers[s].active)]
        /\ workers' = [w \in DOMAIN workers |-> workers'[w]]
    BY <1>3 DEF SweepSockets
  <2>4. \A w \in DOMAIN workers : workers[w] \in Worker
    BY <1>0
  <2>5. \A w \in DOMAIN workers : workers'[w] \in Worker
                                  /\ workers'[w].server = workers[w].server
    BY <2>3, <2>4 DEF Worker
  <2>6. workers' \in Seq(Worker)
    <3>1. DOMAIN workers = 1 .. Len(workers) /\ Len(workers) \in Nat
      BY <1>0
    <3>2. workers' \in [1 .. Len(workers) -> Worker]
      BY <2>3, <2>5, <3>1
    <3> QED
      BY <3>1, <3>2, SeqDef
  <2> HIDE DEF r
  <2> QED
    BY <1>0, <1>1, <2>1, <2>2, <2>3, <2>5, <2>6, ServerChange
<1>4. CASE JoinThreads(s)
  <2> DEFINE r == [servers[s] EXCEPT !.stop = "stopped"]
  <2>1. servers' = [servers EXCEPT ![s] = r] /\ workers' = workers
    BY <1>4 DEF JoinThreads
  <2>2. /\ r \in Server /\ r.config = servers[s].config /\ r.running = servers[s].running
        /\ r.acceptor = servers[s].acceptor /\ r.accepted = servers[s].accepted
    BY <1>0 DEF Server
  <2> HIDE DEF r
  <2> QED
    BY <1>0, <1>1, <2>1, <2>2, ServerChange
<1>5. CASE Accept(s)
  <2> DEFINE lowest == CHOOSE f \in FreeSockets : \A g \in FreeSockets : f <= g
             r == [servers[s] EXCEPT !.acceptor = "holding", !.accepted = lowest]
  <2>1. servers' = [servers EXCEPT ![s] = r] /\ workers' = workers
    <3>1. servers' = [servers EXCEPT ![s].acceptor = "holding", ![s].accepted = lowest]
          /\ workers' = workers
      BY <1>5, Zenon DEF Accept
    <3> HIDE DEF lowest
    <3> QED
      BY <3>1
  <2>2. lowest \in Sockets
    BY <1>5, LowestIsFree DEF Accept
  <2> HIDE DEF lowest
  <2>3. /\ r \in Server /\ r.config = servers[s].config /\ r.running = servers[s].running
        /\ r.accepted \in Sockets
    BY <1>0, <2>2 DEF Server
  <2> HIDE DEF r
  <2> QED
    BY <1>0, <2>1, <2>3, ServerChange
<1>6. CASE Register(s)
  <2> DEFINE end == IF servers[s].running THEN "accepting" ELSE "ended"
             r == [servers[s] EXCEPT !.active = @ \cup {servers[s].accepted},
                     !.accepted = NoSocket, !.acceptor = end]
             x == [server |-> s, socket |-> servers[s].accepted, at |-> "handshake",
                   open |-> TRUE, shut |-> FALSE]
  <2>1. servers' = [servers EXCEPT ![s] = r] /\ workers' = Append(workers, x)
    BY <1>6 DEF Register
  <2>2. servers[s].accepted \in Sockets /\ s \in Nat
    BY <1>0, <1>1, <1>6 DEF Register, TransferTyped
  <2>3. end \in {"accepting", "ended"}
    OBVIOUS
  <2> HIDE DEF end
  <2>4. /\ r \in Server /\ r.config = servers[s].config /\ r.running = servers[s].running
        /\ r.acceptor # "holding"
    BY <1>0, <2>2, <2>3 DEF Server
  <2>5. x \in Worker /\ x.server = s
    BY <2>2 DEF Worker
  <2> HIDE DEF r, x
  <2>6. /\ workers' \in Seq(Worker)
        /\ \A w \in DOMAIN workers' : \/ w \in DOMAIN workers /\ workers'[w] = workers[w]
                                      \/ workers'[w] = x
    BY <1>0, <2>1, <2>5
  <2>7. \A w \in DOMAIN workers' : workers'[w].server \in DOMAIN servers
    BY <1>0, <2>5, <2>6
  <2> QED
    BY <1>0, <2>1, <2>4, <2>6, <2>7, ServerChange
<1>7. CASE EndAccept(s)
  <2> DEFINE r == [servers[s] EXCEPT !.acceptor = "ended"]
  <2>1. servers' = [servers EXCEPT ![s] = r] /\ workers' = workers
    BY <1>7 DEF EndAccept
  <2>2. /\ r \in Server /\ r.config = servers[s].config /\ r.running = servers[s].running
        /\ r.acceptor # "holding"
    BY <1>0 DEF Server
  <2> HIDE DEF r
  <2> QED
    BY <1>0, <2>1, <2>2, ServerChange
<1> QED
  BY <1>2, <1>3, <1>4, <1>5, <1>6, <1>7 DEF StopStep, AcceptStep

\* The steps of the thread of a connection.
LEMMA ConnectionStep ==
  ASSUME TransferInv, NEW w \in DOMAIN workers, WorkerStep(w)
  PROVE  TransferInv'
<1> USE DEF managerVars
<1>0. /\ TransferTyped /\ workers[w] \in Worker /\ workers[w].server \in DOMAIN servers
      /\ current' = current /\ settings' = settings /\ starting' \in BOOLEAN
  BY DEF TransferInv, TransferTyped, Referring, WorkerStep, Handshake, HandshakeFails,
     EndConnection, EraseSocket
<1>1. ASSUME NEW r \in Worker, workers' = [workers EXCEPT ![w] = r],
             r.server = workers[w].server
      PROVE  /\ workers' \in Seq(Worker)
             /\ \A x \in DOMAIN workers' : workers'[x].server \in DOMAIN servers
  <2>1. /\ workers' \in Seq(Worker) /\ DOMAIN workers' = DOMAIN workers
        /\ workers'[w] = r /\ \A x \in DOMAIN workers : x # w => workers'[x] = workers[x]
    BY <1>0, <1>1 DEF TransferTyped
  <2> QED
    BY <1>0, <1>1, <2>1 DEF TransferInv, Referring
<1>2. ASSUME NEW r \in Worker, workers' = [workers EXCEPT ![w] = r],
             r.server = workers[w].server, servers' = servers
      PROVE  TransferInv'
  <2>1. /\ workers' \in Seq(Worker)
        /\ \A x \in DOMAIN workers' : workers'[x].server \in DOMAIN servers
    BY <1>1, <1>2
  <2> QED
    BY <1>0, <1>2, <2>1 DEF TransferInv, TransferTyped, Referring, RunningUsesSettings,
       IsRunning
<1>3. CASE Handshake(w)
  <2> DEFINE r == [workers[w] EXCEPT !.at = "serving"]
  <2>1. r \in Worker /\ r.server = workers[w].server
    BY <1>0 DEF Worker
  <2>2. workers' = [workers EXCEPT ![w] = r] /\ servers' = servers
    BY <1>3 DEF Handshake
  <2> HIDE DEF r
  <2> QED
    BY <1>2, <2>1, <2>2
<1>4. CASE HandshakeFails(w)
  <2> DEFINE o == workers[w].socket \notin servers[workers[w].server].active
             r == [workers[w] EXCEPT !.at = "erasing", !.open = o]
  <2>1. r \in Worker /\ r.server = workers[w].server
    BY <1>0 DEF Worker
  <2>2. workers' = [workers EXCEPT ![w] = r] /\ servers' = servers
    BY <1>4 DEF HandshakeFails
  <2> HIDE DEF r
  <2> QED
    BY <1>2, <2>1, <2>2
<1>5. CASE EndConnection(w)
  <2> DEFINE r == [workers[w] EXCEPT !.at = "erasing", !.open = FALSE]
  <2>1. r \in Worker /\ r.server = workers[w].server
    BY <1>0 DEF Worker
  <2>2. workers' = [workers EXCEPT ![w] = r] /\ servers' = servers
    BY <1>5 DEF EndConnection
  <2> HIDE DEF r
  <2> QED
    BY <1>2, <2>1, <2>2
<1>6. CASE EraseSocket(w)
  <2> DEFINE v == [workers[w] EXCEPT !.at = "done"]
             s == workers[w].server
             r == [servers[s] EXCEPT !.active = @ \ {workers[w].socket}]
  <2>1. v \in Worker /\ v.server = workers[w].server
    BY <1>0 DEF Worker
  <2>2. workers' = [workers EXCEPT ![w] = v] /\ servers' = [servers EXCEPT ![s] = r]
    BY <1>6 DEF EraseSocket
  <2>3. servers[s] \in Server /\ s \in DOMAIN servers
        /\ (servers[s].acceptor = "holding" => servers[s].accepted \in Sockets)
    BY <1>0 DEF TransferTyped, TransferInv, Referring
  <2>4. /\ r \in Server /\ r.config = servers[s].config /\ r.running = servers[s].running
        /\ r.acceptor = servers[s].acceptor /\ r.accepted = servers[s].accepted
    BY <2>3 DEF Server
  <2> HIDE DEF v
  <2>5. /\ workers' \in Seq(Worker)
        /\ \A x \in DOMAIN workers' : workers'[x].server \in DOMAIN servers
    BY <1>1, <2>1, <2>2
  <2> HIDE DEF r, s
  <2> QED
    BY <1>0, <2>2, <2>3, <2>4, <2>5, ServerChange
<1> QED
  BY <1>3, <1>4, <1>5, <1>6 DEF WorkerStep

LEMMA TransferStep ==
  TransferInv /\ [TransferNext]_transferVars => TransferInv'
<1> SUFFICES ASSUME TransferInv, [TransferNext]_transferVars PROVE TransferInv'
  OBVIOUS
<1>1. CASE UNCHANGED transferVars
  BY <1>1 DEF transferVars, TransferInv, TransferTyped, Referring, RunningUsesSettings,
     IsRunning
<1> QED
  BY <1>1, ManagerStep, ServerStep, ConnectionStep DEF TransferNext

LEMMA TransferStart == TransferInit => TransferInv
<1> SUFFICES ASSUME TransferInit PROVE TransferInv
  OBVIOUS
<1>1. TransferTyped
  <2>1. /\ servers = <<>> /\ workers = <<>> /\ current = 0 /\ settings \in Settings
        /\ starting \in BOOLEAN
    BY DEF TransferInit
  <2>2. /\ <<>> \in Seq(Server) /\ <<>> \in Seq(Worker) /\ 0 \in 0 .. Len(<<>>)
    OBVIOUS
  <2> QED
    BY <2>1, <2>2 DEF TransferTyped
<1> QED
  BY <1>1 DEF TransferInit, TransferInv, Referring, RunningUsesSettings, IsRunning

LEMMA TransferPromise == TransferInv => TransferTypeOK
<1> SUFFICES ASSUME TransferInv PROVE TransferTypeOK
  OBVIOUS
<1>1. /\ \A s \in DOMAIN servers : servers[s] \in Server
      /\ \A w \in DOMAIN workers : workers[w] \in Worker
  BY DEF TransferInv, TransferTyped
<1> QED
  BY <1>1 DEF TransferInv, TransferTyped, Referring, Server, Worker, TransferTypeOK

-----------------------------------------------------------------------------
(* The three machines together *)

ThreadsInv == SerialInv /\ WorkerInv /\ TransferInv

\* The machines rest or take their own steps.
LEMMA ThreadsInductive == Spec => []ThreadsInv
<1>1. Init => ThreadsInv
  BY SerialStart, WorkerStart, TransferStart DEF Init, ThreadsInv
<1>2. ThreadsInv /\ [Next]_threadsVars => ThreadsInv'
  <2>1. [Next]_threadsVars =>
          [SerialNext]_serialVars /\ [WorkerNext]_workerThreadVars /\ [TransferNext]_transferVars
    BY DEF Next, threadsVars
  <2> QED
    BY <2>1, SerialStep, WorkerKeepsInv, TransferStep DEF ThreadsInv
<1> QED
  BY <1>1, <1>2, PTL DEF Spec

\* The variables of the serial ports, of the SSH worker and of the transfer
\* server have the values that the code's types allow: no handler refers to
\* a session that does not exist, no buffer holds more than was given to it.
THEOREM ThreadTypes == Spec => []TypeOK
<1>1. ThreadsInv => TypeOK
  BY SerialPromise, WorkerPromise, TransferPromise DEF ThreadsInv, TypeOK
<1> QED
  BY <1>1, ThreadsInductive, PTL

\* A serial port stays with the session its browsers were added to, each of
\* them has every piece once (Add, Answer and Run in serial_service.cpp), and
\* the transfer server runs with the settings that the manager shows.
THEOREM SharingPromise == Spec => []SharedIsSafe
<1>1. ThreadsInv => SharedIsSafe
  BY SerialPromise DEF ThreadsInv, TransferInv, SharedIsSafe
<1> QED
  BY <1>1, ThreadsInductive, PTL

\* What libssh2 could not write is written again with the same data, before
\* anything else is done on the channel (SshSession::Run).
THEOREM RetryPromise == Spec => RetriesTheSameWrite
<1>1. ThreadsInv /\ [Next]_threadsVars =>
        [call.op = "write" /\ ~call.done /\ call' # call
           => call'.op = "write" /\ call'.args = call.args]_workerThreadVars
  <2>1. [Next]_threadsVars => [WorkerNext]_workerThreadVars
    BY DEF Next, threadsVars
  <2> QED
    BY <2>1, SameWriteStep DEF ThreadsInv
<1> QED
  BY <1>1, ThreadsInductive, PTL DEF Spec, RetriesTheSameWrite

=============================================================================
