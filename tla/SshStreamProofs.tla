---------------------------- MODULE SshStreamProofs ----------------------------
(***************************************************************************)
(* Theorems about the output of an SSH terminal, for any number of         *)
(* connections, sessions and messages, any sizes and any limit: the stream *)
(* of a connection has no hole, a gap notice is true, and SshStream        *)
(* implements TerminalOutput.                                              *)
(***************************************************************************)
EXTENDS SshStream, Induction, FiniteSetTheorems, SequenceTheorems, TLAPS

-----------------------------------------------------------------------------
(* The bytes of messages *)

\* What the function that adds up the first n messages has to be.
AddsUp(g, w, n) ==
  /\ g \in [0 .. n -> Nat]
  /\ g[0] = 0
  /\ \A k \in 1 .. n : g[k] = g[k - 1] + w[k]

LEMMA SumsExist ==
  ASSUME NEW w \in Seq(Nat)
  PROVE  \E g : AddsUp(g, w, Len(w))
<1> DEFINE S == {n \in Nat : n <= Len(w) => \E g : AddsUp(g, w, n)}
<1>0. Len(w) \in Nat /\ \A k \in 1 .. Len(w) : w[k] \in Nat
  OBVIOUS
<1>1. 0 \in S
  <2>1. AddsUp([k \in 0 .. 0 |-> 0], w, 0)
    BY DEF AddsUp
  <2> QED
    BY <2>1
<1>2. ASSUME NEW n \in Nat, n \in S PROVE n + 1 \in S
  <2> SUFFICES ASSUME n + 1 <= Len(w) PROVE \E g : AddsUp(g, w, n + 1)
    OBVIOUS
  <2>1. PICK g : AddsUp(g, w, n)
    BY <1>0, <1>2
  <2> DEFINE h == [k \in 0 .. n + 1 |-> IF k = n + 1 THEN g[n] + w[n + 1] ELSE g[k]]
  <2>2. w[n + 1] \in Nat /\ \A k \in 0 .. n : g[k] \in Nat
    BY <1>0, <2>1 DEF AddsUp
  <2>3. h \in [0 .. n + 1 -> Nat]
    BY <2>2
  <2>4. h[n + 1] = g[n] + w[n + 1] /\ \A k \in 0 .. n : h[k] = g[k]
    OBVIOUS
  <2> HIDE DEF h
  <2>5. ASSUME NEW k \in 1 .. n + 1 PROVE h[k] = h[k - 1] + w[k]
    <3>1. CASE k = n + 1
      BY <2>4, <3>1
    <3>2. CASE k # n + 1
      <4>1. k \in 1 .. n /\ k \in 0 .. n /\ k - 1 \in 0 .. n
        BY <3>2
      <4> QED
        BY <2>1, <2>4, <4>1 DEF AddsUp
    <3> QED
      BY <3>1, <3>2
  <2>6. h[0] = 0
    BY <2>1, <2>4 DEF AddsUp
  <2>7. AddsUp(h, w, n + 1)
    BY <2>3, <2>5, <2>6 DEF AddsUp
  <2> QED
    BY <2>7
<1>3. Nat \subseteq S
  <2> HIDE DEF S
  <2> QED
    BY <1>1, <1>2, SetInduction
<1> QED
  BY <1>0, <1>3

LEMMA SumsAre ==
  ASSUME NEW w \in Seq(Nat)
  PROVE  AddsUp(BytesUpTo(w), w, Len(w))
<1> DEFINE Def(g) == g = [n \in 0 .. Len(w) |-> IF n = 0 THEN 0 ELSE g[n - 1] + w[n]]
<1>1. PICK g : AddsUp(g, w, Len(w))
  BY SumsExist
<1>2. Len(w) \in Nat
  OBVIOUS
<1>3. Def(g)
  <2>1. g = [n \in 0 .. Len(w) |-> g[n]]
    BY <1>1 DEF AddsUp
  <2>2. \A n \in 0 .. Len(w) : g[n] = IF n = 0 THEN 0 ELSE g[n - 1] + w[n]
    <3>1. ASSUME NEW n \in 0 .. Len(w), n # 0 PROVE n \in 1 .. Len(w)
      BY <1>2, <3>1
    <3> QED
      BY <1>1, <3>1 DEF AddsUp
  <2> QED
    BY <2>1, <2>2
<1>4. BytesUpTo(w) = CHOOSE f : Def(f)
  BY DEF BytesUpTo
<1> DEFINE h == BytesUpTo(w)
<1>5. Def(h)
  <2> HIDE DEF Def
  <2> QED
    BY <1>3, <1>4, Zenon
<1> HIDE DEF h
<1>6. h = g
  <2> DEFINE S == {n \in Nat : n <= Len(w) => h[n] = g[n]}
  <2>1. 0 \in S
    <3>1. 0 \in 0 .. Len(w)
      BY <1>2
    <3> QED
      BY <1>1, <1>5, <3>1 DEF AddsUp
  <2>2. ASSUME NEW n \in Nat, n \in S PROVE n + 1 \in S
    <3> SUFFICES ASSUME n + 1 <= Len(w) PROVE h[n + 1] = g[n + 1]
      OBVIOUS
    <3>1. n + 1 \in 0 .. Len(w) /\ n + 1 # 0 /\ n + 1 \in 1 .. Len(w) /\ (n + 1) - 1 = n
      BY <1>2
    <3>2. h[n + 1] = h[n] + w[n + 1]
      BY <1>5, <3>1
    <3>3. g[n + 1] = g[n] + w[n + 1]
      BY <1>1, <3>1 DEF AddsUp
    <3> QED
      BY <1>2, <2>2, <3>2, <3>3
  <2>3. Nat \subseteq S
    <3> HIDE DEF S
    <3> QED
      BY <2>1, <2>2, SetInduction
  <2>4. \A n \in 0 .. Len(w) : h[n] = g[n]
    BY <1>2, <2>3
  <2>5. h = [n \in 0 .. Len(w) |-> h[n]] /\ g = [n \in 0 .. Len(w) |-> g[n]]
    BY <1>1, <1>5 DEF AddsUp
  <2> QED
    BY <2>4, <2>5
<1> QED
  BY <1>1, <1>6 DEF h

LEMMA SizesAreNumbers ==
  ASSUME NEW w \in Seq(Sizes)
  PROVE  w \in Seq(Nat) /\ Len(w) \in Nat
<1>1. Len(w) \in Nat /\ w \in [1 .. Len(w) -> Sizes]
  BY LenProperties
<1>2. Sizes \subseteq Nat
  BY BoundsAssumption
<1>3. w \in [1 .. Len(w) -> Nat]
  BY <1>1, <1>2
<1> QED
  BY <1>1, <1>3

\* A new message adds its bytes to those from any message on.
LEMMA BytesOfMore ==
  ASSUME NEW w \in Seq(Nat), NEW n \in Nat, NEW i \in 1 .. Len(w) + 1
  PROVE  Bytes(Append(w, n), i) = Bytes(w, i) + n
<1> DEFINE v == Append(w, n)
           g == BytesUpTo(w)
           h == BytesUpTo(v)
<1>1. /\ Len(w) \in Nat /\ v \in Seq(Nat) /\ Len(v) = Len(w) + 1
      /\ v[Len(w) + 1] = n /\ \A k \in 1 .. Len(w) : v[k] = w[k]
  OBVIOUS
<1>2. AddsUp(g, w, Len(w)) /\ AddsUp(h, v, Len(w) + 1)
  BY <1>1, SumsAre
<1> HIDE DEF v, g, h
<1> DEFINE S == {k \in Nat : k <= Len(w) => h[k] = g[k]}
<1>3. 0 \in S
  BY <1>2 DEF AddsUp
<1>4. ASSUME NEW k \in Nat, k \in S PROVE k + 1 \in S
  <2> SUFFICES ASSUME k + 1 <= Len(w) PROVE h[k + 1] = g[k + 1]
    OBVIOUS
  <2>1. k + 1 \in 1 .. Len(w) /\ k + 1 \in 1 .. Len(w) + 1 /\ (k + 1) - 1 = k
    BY <1>1
  <2> QED
    BY <1>1, <1>2, <1>4, <2>1 DEF AddsUp
<1>5. Nat \subseteq S
  <2> HIDE DEF S
  <2> QED
    BY <1>3, <1>4, SetInduction
<1>6. h[Len(w)] = g[Len(w)] /\ h[i - 1] = g[i - 1]
  <2>1. i - 1 \in Nat /\ i - 1 <= Len(w)
    BY <1>1
  <2> QED
    BY <1>1, <1>5, <2>1
<1>7. h[Len(w) + 1] = h[Len(w)] + n
  <2>1. Len(w) + 1 \in 1 .. Len(w) + 1 /\ (Len(w) + 1) - 1 = Len(w)
    BY <1>1
  <2> QED
    BY <1>1, <1>2, <2>1 DEF AddsUp
<1>8. g[Len(w)] \in Nat /\ g[i - 1] \in Nat
  <2>1. Len(w) \in 0 .. Len(w) /\ i - 1 \in 0 .. Len(w)
    BY <1>1
  <2> QED
    BY <1>2, <2>1 DEF AddsUp
<1> QED
  BY <1>1, <1>6, <1>7, <1>8 DEF Bytes, v, g, h

\* Fewer messages, fewer bytes.
LEMMA BytesOfFewer ==
  ASSUME NEW w \in Seq(Nat), NEW i \in 1 .. Len(w) + 1, NEW j \in i .. Len(w) + 1
  PROVE  Bytes(w, j) <= Bytes(w, i) /\ Bytes(w, i) \in Int /\ Bytes(w, j) \in Int
<1> DEFINE g == BytesUpTo(w)
<1>1. Len(w) \in Nat /\ AddsUp(g, w, Len(w)) /\ \A k \in 1 .. Len(w) : w[k] \in Nat
  BY SumsAre
<1> HIDE DEF g
<1> DEFINE S == {k \in Nat : k >= i - 1 /\ k <= Len(w) => g[i - 1] <= g[k]}
<1>2. i - 1 \in 0 .. Len(w) /\ j - 1 \in i - 1 .. Len(w) /\ j - 1 \in 0 .. Len(w)
  BY <1>1
<1>3. \A k \in 0 .. Len(w) : g[k] \in Nat
  BY <1>1 DEF AddsUp
<1>4. 0 \in S
  BY <1>2, <1>3
<1>5. ASSUME NEW k \in Nat, k \in S PROVE k + 1 \in S
  <2> SUFFICES ASSUME k + 1 >= i - 1, k + 1 <= Len(w) PROVE g[i - 1] <= g[k + 1]
    OBVIOUS
  <2>1. CASE k + 1 = i - 1
    BY <1>2, <1>3, <2>1
  <2>2. CASE k + 1 # i - 1
    <3>1. k + 1 \in 1 .. Len(w) /\ (k + 1) - 1 = k /\ k >= i - 1 /\ k <= Len(w) /\ k \in 0 .. Len(w)
      BY <1>1, <1>2, <2>2
    <3>2. g[k + 1] = g[k] + w[k + 1] /\ w[k + 1] \in Nat /\ g[k] \in Nat /\ g[i - 1] \in Nat
      BY <1>1, <1>2, <1>3, <3>1 DEF AddsUp
    <3>3. g[i - 1] <= g[k]
      BY <1>5, <3>1
    <3> QED
      BY <3>2, <3>3
  <2> QED
    BY <2>1, <2>2
<1>6. Nat \subseteq S
  <2> HIDE DEF S
  <2> QED
    BY <1>4, <1>5, SetInduction
<1>7. g[i - 1] <= g[j - 1]
  BY <1>1, <1>2, <1>6
<1>8. g[i - 1] \in Nat /\ g[j - 1] \in Nat /\ g[Len(w)] \in Nat
  BY <1>1, <1>2, <1>3
<1> QED
  BY <1>7, <1>8 DEF Bytes, g

\* The least of a set of numbers.
LEMMA MinIs ==
  ASSUME NEW T \in SUBSET Nat, T # {}
  PROVE  Min(T) \in T /\ \A y \in T : Min(T) <= y
<1>1. \E x \in T : \A y \in T : x <= y
  BY LeastNat
<1> QED
  BY <1>1, Zenon DEF Min

\* StoreBufferedMessage drops messages only as long as there are too many
\* bytes, and never the last one.
LEMMA TrimmedIs ==
  ASSUME NEW w \in Seq(Nat), NEW f \in 1 .. Len(w)
  PROVE  /\ Trimmed(w, f) \in f .. Len(w)
         /\ Trimmed(w, f) = f \/ Bytes(w, Trimmed(w, f) - 1) > BufferLimit
<1> DEFINE T == {g \in f .. Len(w) : Bytes(w, g) <= BufferLimit \/ g = Len(w)}
           t == Trimmed(w, f)
<1>1. Len(w) \in Nat /\ f \in Nat /\ f <= Len(w) /\ BufferLimit \in Nat
  BY BoundsAssumption
<1>2. T \in SUBSET Nat /\ Len(w) \in T
  BY <1>1
<1>3. t \in T /\ \A y \in T : t <= y
  <2>1. t = Min(T)
    BY DEF Trimmed
  <2> HIDE DEF T, t
  <2> QED
    BY <1>2, <2>1, MinIs
<1> HIDE DEF t
<1>4. t \in f .. Len(w)
  BY <1>3
<1>5. ASSUME t # f PROVE Bytes(w, t - 1) > BufferLimit
  <2>1. t - 1 \in f .. Len(w) /\ t - 1 \notin T /\ t - 1 \in 1 .. Len(w) + 1
    BY <1>1, <1>3, <1>4, <1>5
  <2>2. Bytes(w, t - 1) \in Int
    BY <2>1, BytesOfFewer
  <2> QED
    BY <1>1, <2>1, <2>2
<1> QED
  BY <1>4, <1>5 DEF t

-----------------------------------------------------------------------------
(* The invariant *)

\* Messages to the tab and requests of it.
ToTab ==
  [type : {"ready", "resume-failed", "resume-gap"}]
  \cup [type : {"resumed"}, token : Nat \ {0}]
  \cup [type : {"session"}, token : Nat \ {0}, session : Sessions]
  \cup [type : {"output", "closed"}, seq : Nat \ {0}]
ToServer ==
  [type : {"connect", "terminate"}] \cup [type : {"resume"}, token : Nat \ {0}, last : Nat]

StreamTyped ==
  /\ written \in [Sessions -> Seq(Sizes)]
  /\ front \in [Sessions -> Nat \ {0}]
  /\ attached \in [Sessions -> 0..conns]
  /\ token \in [Sessions -> 0..drawn]
  /\ exited \in [Sessions -> BOOLEAN]
  /\ created \in 0..MaxSessions
  /\ drawn \in Nat
  /\ stage \in [Conns -> {"idle", "attach", "gap"}]
  /\ bound \in [Conns -> 0..created]
  /\ own \in [Conns -> 0..drawn]
  /\ position \in [Conns -> Nat]
  /\ gone \in [Conns -> BOOLEAN]
  /\ up \in [Conns -> Seq(ToServer)]
  /\ down \in [Conns -> Seq(ToTab)]
  /\ broken \in [Conns -> BOOLEAN]
  /\ conns \in 0..MaxConns
  /\ status \in {"waiting", "live", "ended"}
  /\ resume \in 0..drawn
  /\ showing \in 0..created
  /\ seen \in Nat
  /\ missed \in BOOLEAN

\* The buffer is a part of what was written; a session that is not there yet
\* has written nothing.
Buffers ==
  \A s \in Sessions :
    /\ front[s] <= Len(written[s]) + 1
    /\ Len(written[s]) <= MaxOutput + (IF exited[s] THEN 1 ELSE 0)
    /\ s > created => written[s] = <<>> /\ token[s] = None

\* Connections whose one "resume" is still to be handled: every token is for
\* a session or for a connection.
Resuming ==
  {c \in 1..conns : \/ down[c] # <<>> /\ down[c][1].type = "ready"
                    \/ up[c] # <<>> /\ up[c][1].type = "resume"}
TokensCounted == drawn + Cardinality(Resuming) <= created + conns

\* A connection that no session was ever found for.
Unserved(c) == bound[c] = None /\ stage[c] = "idle"

ConnectionFits(c) ==
  /\ c < conns => broken[c]
  /\ c > conns => Unserved(c) /\ up[c] = <<>> /\ ~broken[c]
  /\ c # conns \/ broken[c] => down[c] = <<>>
  /\ stage[c] # "idle" => bound[c] # None
  /\ stage[c] = "attach" => \A s \in Sessions : attached[s] # c
  /\ \A i \in 1..Len(up[c]) : up[c][i].type # "terminate" =>
       Len(up[c]) = 1 /\ Unserved(c) /\ down[c] = <<>>

Connections ==
  /\ \A c \in Conns : ConnectionFits(c)
  /\ \A s \in Sessions : attached[s] # None => bound[attached[s]] = s

\* The session the terminal shows, or is about to: its message "session" is on
\* the way.
Coming == conns # 0 /\ down[conns] # <<>> /\ down[conns][1].type = "session"
Shown == IF showing # None THEN showing
         ELSE IF Coming THEN down[conns][1].session ELSE None

\* A token the tab knows, or is told, is one of the session it shows.
TokenOf(t, s) == t \in 1..drawn /\ \A x \in Sessions : token[x] = t => x = s

Skippable(s, n) == n <= seen + 1 \/ Bytes(written[s], n - 1) > BufferLimit

\* No acknowledgement is ahead of the terminal: what a buffer has dropped was
\* shown, or too much was waiting.
ResumeFits == resume # None => showing # None /\ TokenOf(resume, showing)
RequestFits(c) ==
  up[c] # <<>> /\ up[c][1].type = "resume" =>
    /\ up[c][1].token <= drawn
    /\ \A s \in Sessions : token[s] = up[c][1].token /\ s = Shown => up[c][1].last <= seen
AttachFits(c) == stage[c] = "attach" /\ bound[c] = Shown => position[c] <= seen
DroppedFits ==
  Shown # None =>
    \/ front[Shown] <= seen + 1
    \/ front[Shown] <= Len(written[Shown]) /\ Bytes(written[Shown], front[Shown] - 1) > BufferLimit

Acknowledged ==
  /\ ResumeFits
  /\ \A c \in Conns : RequestFits(c) /\ AttachFits(c)
  /\ DroppedFits

\* What the connection the tab listens to carries, control messages first.
Current(c) == c = conns /\ ~broken[c]

HeadFits(c) ==
  LET m == down[c][1] IN
  /\ m.type \in {"ready", "resume-failed"} => Len(down[c]) = 1 /\ Unserved(c) /\ up[c] = <<>>
  /\ m.type = "ready" /\ resume = None => showing = None /\ seen = 0
  /\ m.type = "session" => showing = None /\ resume = None /\ seen = 0 /\ TokenOf(m.token, m.session)
                           /\ m.session <= created
  /\ m.type = "resumed" => showing # None /\ TokenOf(m.token, showing)

ControlFits(c) ==
  /\ down[c] # <<>> => HeadFits(c)
  /\ \A i \in 2..Len(down[c]) : down[c][i].type \in {"output", "closed", "resume-gap"}
  /\ up[c] # <<>> /\ up[c][1].type = "resume" =>
       resume # None /\ up[c][1].token = resume /\ up[c][1].last = seen
  /\ up[c] # <<>> /\ up[c][1].type = "connect" => resume = None /\ showing = None /\ seen = 0
  /\ bound[c] # None => Shown = bound[c]
  /\ stage[c] = "attach" =>
       position[c] = seen /\ \A i \in 1..Len(down[c]) : down[c][i].type = "resumed"

First(c, i) == i \in Stream(c) /\ \A k \in Stream(c) : i <= k
Last(c, i) == i \in Stream(c) /\ \A k \in Stream(c) : k <= i

\* The numbered messages in it follow one another, begin where the terminal
\* goes on, and end with the last message of a session that is attached.
StreamFits(c) ==
  /\ \A i \in Stream(c) : Shown # None /\ down[c][i].seq <= Len(written[Shown])
  /\ \A i, j \in Stream(c) : Follows(c, i, j) => down[c][j].seq = down[c][i].seq + 1
  /\ \A i \in Stream(c) : First(c, i) => Skippable(Shown, down[c][i].seq)
  /\ \A s \in Sessions : attached[s] = c =>
       /\ Stream(c) = {} => Len(written[s]) <= seen
       /\ \A i \in Stream(c) : Last(c, i) => down[c][i].seq = Len(written[s])

\* Output is missing already, or the next output tells.
Lacks(c, n) == missed \/ \E i \in Stream(c) : First(c, i) /\ i < n /\ down[c][i].seq > seen + 1

GapFits(c) ==
  /\ stage[c] = "gap" => Lacks(c, Len(down[c]) + 1)
  /\ \A i \in 1..Len(down[c]) : down[c][i].type = "resume-gap" =>
       /\ stage[c] # "gap" /\ Lacks(c, i)
       /\ \A k \in 1..Len(down[c]) : down[c][k].type = "resume-gap" => k = i

StreamInv ==
  /\ StreamTyped /\ Buffers /\ TokensCounted /\ Connections /\ Acknowledged
  /\ \A c \in Conns : Current(c) => ControlFits(c) /\ StreamFits(c) /\ GapFits(c)

-----------------------------------------------------------------------------
(* What sending and receiving make of a stream *)

\* What is sent reaches the connection the tab listens to, and no other.
LEMMA SendReaches ==
  ASSUME StreamInv, NEW c \in Conns, c <= conns, NEW msgs \in Seq(ToTab), Send(c, msgs)
  PROVE  /\ down' \in [Conns -> Seq(ToTab)]
         /\ \A e \in Conns : ~(e = c /\ Current(c)) => down'[e] = down[e]
         /\ Current(c) =>
              /\ down'[c] = down[c] \o msgs
              /\ Len(down'[c]) = Len(down[c]) + Len(msgs)
              /\ \A i \in 1 .. Len(down[c]) : down'[c][i] = down[c][i]
              /\ \A i \in 1 .. Len(msgs) : down'[c][Len(down[c]) + i] = msgs[i]
<1>1. /\ down \in [Conns -> Seq(ToTab)] /\ conns \in 0 .. MaxConns /\ MaxConns \in Nat /\ None \notin Conns
      /\ broken \in [Conns -> BOOLEAN] /\ \A e \in Conns : e < conns => broken[e]
  <2>1. down \in [Conns -> Seq(ToTab)] /\ conns \in 0 .. MaxConns /\ broken \in [Conns -> BOOLEAN]
    BY DEF StreamInv, StreamTyped
  <2>2. MaxConns \in Nat /\ None \notin Conns
    BY BoundsAssumption DEF Conns, None
  <2>3. \A e \in Conns : e < conns => broken[e]
    BY DEF ConnectionFits, StreamInv, Connections
  <2> QED
    BY <2>1, <2>2, <2>3
<1>2. CASE ~Current(c)
  <2>1. broken[c]
    BY <1>1, <1>2 DEF Current, Conns
  <2>2. down' = down
    BY <2>1 DEF Send
  <2> QED
    BY <1>1, <1>2, <2>2
<1>3. CASE Current(c)
  <2>1. down' = [down EXCEPT ![c] = @ \o msgs]
    BY <1>1, <1>3 DEF Send, Current
  <2>2. down[c] \in Seq(ToTab)
    BY <1>1
  <2>3. /\ down[c] \o msgs \in Seq(ToTab) /\ Len(down[c] \o msgs) = Len(down[c]) + Len(msgs)
        /\ \A i \in 1 .. Len(down[c]) + Len(msgs) :
             (down[c] \o msgs)[i] = IF i <= Len(down[c]) THEN down[c][i] ELSE msgs[i - Len(down[c])]
    BY <2>2, ConcatProperties
  <2>4. Len(down[c]) \in Nat /\ Len(msgs) \in Nat
    BY <2>2
  <2> DEFINE q == down[c] \o msgs
  <2> HIDE DEF q
  <2>5. \A i \in 1 .. Len(down[c]) : q[i] = down[c][i]
    BY <2>3, <2>4 DEF q
  <2>6. \A i \in 1 .. Len(msgs) : q[Len(down[c]) + i] = msgs[i]
    <3>1. ASSUME NEW i \in 1 .. Len(msgs) PROVE q[Len(down[c]) + i] = msgs[i]
      <4>1. /\ Len(down[c]) + i \in 1 .. Len(down[c]) + Len(msgs) /\ ~(Len(down[c]) + i <= Len(down[c]))
            /\ (Len(down[c]) + i) - Len(down[c]) = i
        BY <2>4
      <4> QED
        BY <2>3, <4>1 DEF q
    <3> QED
      BY <3>1
  <2>7. down'[c] = q /\ \A e \in Conns : e # c => down'[e] = down[e]
    BY <1>1, <2>1 DEF q
  <2>8. down' \in [Conns -> Seq(ToTab)]
    BY <1>1, <2>1, <2>3
  <2>9. Len(q) = Len(down[c]) + Len(msgs)
    BY <2>3 DEF q
  <2>10. \A e \in Conns : ~(e = c /\ Current(c)) => down'[e] = down[e]
    BY <1>3, <2>7
  <2>11. down'[c] = down[c] \o msgs
    BY <2>7 DEF q
  <2> QED
    BY <1>3, <2>5, <2>6, <2>7, <2>8, <2>9, <2>10, <2>11
<1> QED
  BY <1>2, <1>3

\* A session that is detached, or attached to a broken connection, sends
\* nothing.
LEMMA SendNowhere ==
  ASSUME NEW c, NEW msgs, Send(c, msgs), c = None
  PROVE  down' = down
BY DEF Send

\* What the stream of the current connection holds then.
LEMMA StreamGrows ==
  ASSUME StreamInv, NEW c \in Conns, Current(c), NEW msgs \in Seq(ToTab), Send(c, msgs)
  PROVE  Stream(c)' = Stream(c) \cup {Len(down[c]) + i : i \in {k \in 1 .. Len(msgs) : Numbered(msgs[k])}}
<1>1. /\ Len(down'[c]) = Len(down[c]) + Len(msgs)
      /\ \A i \in 1 .. Len(down[c]) : down'[c][i] = down[c][i]
      /\ \A i \in 1 .. Len(msgs) : down'[c][Len(down[c]) + i] = msgs[i]
  <2>1. c <= conns
    BY BoundsAssumption DEF Current, Conns
  <2> QED
    BY <2>1, SendReaches
<1>2. Len(down[c]) \in Nat /\ Len(msgs) \in Nat
  BY DEF StreamInv, StreamTyped
<1>3. ASSUME NEW i \in Stream(c)'
      PROVE  i \in Stream(c) \cup {Len(down[c]) + k : k \in {n \in 1 .. Len(msgs) : Numbered(msgs[n])}}
  <2>1. i \in 1 .. Len(down'[c]) /\ Numbered(down'[c][i])
    BY DEF Stream, Numbered
  <2>2. CASE i <= Len(down[c])
    <3>1. i \in 1 .. Len(down[c])
      BY <1>2, <2>1, <2>2
    <3> QED
      BY <1>1, <2>1, <3>1 DEF Stream
  <2>3. CASE i > Len(down[c])
    <3>1. i - Len(down[c]) \in 1 .. Len(msgs) /\ Len(down[c]) + (i - Len(down[c])) = i
      BY <1>1, <1>2, <2>1, <2>3
    <3>2. Numbered(msgs[i - Len(down[c])])
      BY <1>1, <2>1, <3>1
    <3> QED
      BY <3>1, <3>2
  <2> QED
    BY <1>1, <1>2, <2>1, <2>2, <2>3
<1>4. ASSUME NEW i \in Stream(c) PROVE i \in Stream(c)'
  <2>1. i \in 1 .. Len(down[c]) /\ Numbered(down[c][i]) /\ i \in 1 .. Len(down'[c])
    BY <1>1, <1>2 DEF Stream
  <2> QED
    BY <1>1, <2>1 DEF Stream, Numbered
<1>5. ASSUME NEW k \in 1 .. Len(msgs), Numbered(msgs[k]) PROVE Len(down[c]) + k \in Stream(c)'
  <2>1. Len(down[c]) + k \in 1 .. Len(down'[c])
    BY <1>1, <1>2
  <2> QED
    BY <1>1, <1>5, <2>1 DEF Stream, Numbered
<1> QED
  BY <1>3, <1>4, <1>5

\* The tab takes the first message of the current connection.
LEMMA ReceiveTakes ==
  ASSUME StreamInv, NEW c, c = conns, NEW type, Receives(type)
  PROVE  /\ c \in Conns /\ Current(c) /\ down[c] # <<>> /\ Msg = down[c][1] /\ Msg \in ToTab
         /\ Msg.type = type
         /\ down' \in [Conns -> Seq(ToTab)]
         /\ \A e \in Conns : e # c => down'[e] = down[e]
         /\ Len(down[c]) \in Nat /\ Len(down[c]) >= 1
         /\ Len(down'[c]) = Len(down[c]) - 1
         /\ \A i \in 1 .. Len(down'[c]) : down'[c][i] = down[c][i + 1]
         /\ \A i : i \in 1 .. Len(down'[c]) => i \in Nat /\ i + 1 \in 2 .. Len(down[c])
<1>1. /\ down \in [Conns -> Seq(ToTab)] /\ c \in Conns /\ ~broken[c] /\ down[c] # <<>>
      /\ down' = [down EXCEPT ![c] = Tail(@)] /\ Head(down[c]).type = type
  BY BoundsAssumption DEF StreamInv, StreamTyped, Receives, Conns
<1> DEFINE q == down[c]
<1>2. q \in Seq(ToTab) /\ q # <<>>
  BY <1>1
<1>3. down'[c] = Tail(q) /\ \A e \in Conns : e # c => down'[e] = down[e]
  BY <1>1
<1>4. Msg = Head(q)
  BY DEF Msg
<1>5. Head(q).type = type
  BY <1>1
<1>6. down' = [down EXCEPT ![c] = Tail(q)]
  BY <1>1
<1> HIDE DEF q
<1>7. /\ Tail(q) \in Seq(ToTab) /\ Len(q) \in Nat /\ Len(q) >= 1 /\ Len(Tail(q)) = Len(q) - 1
      /\ \A i \in 1 .. Len(Tail(q)) : Tail(q)[i] = q[i + 1]
      /\ Head(q) = q[1] /\ Head(q) \in ToTab
  BY <1>2, HeadTailProperties
<1>8. down' \in [Conns -> Seq(ToTab)]
  BY <1>1, <1>6, <1>7
<1>9. \A i : i \in 1 .. Len(Tail(q)) => i \in Nat /\ i + 1 \in 2 .. Len(q)
  BY <1>7
<1> QED
  BY <1>1, <1>3, <1>4, <1>5, <1>7, <1>8, <1>9 DEF q, Current

\* Places in the stream move up by one.
LEMMA StreamShrinks ==
  ASSUME StreamInv, NEW c, c = conns, NEW type, Receives(type)
  PROVE  /\ \A i \in Stream(c)' : i \in 1 .. Len(down'[c]) /\ i \in Nat /\ i + 1 \in Stream(c)
         /\ \A i \in Stream(c) : i \in Nat /\ (i = 1 \/ i - 1 \in Stream(c)')
<1>1. /\ Len(down[c]) \in Nat /\ Len(down'[c]) = Len(down[c]) - 1
      /\ \A i \in 1 .. Len(down'[c]) : down'[c][i] = down[c][i + 1]
      /\ \A i : i \in 1 .. Len(down'[c]) => i \in Nat /\ i + 1 \in 2 .. Len(down[c])
  BY ReceiveTakes
<1>2. ASSUME NEW i \in Stream(c)' PROVE i \in 1 .. Len(down'[c]) /\ i \in Nat /\ i + 1 \in Stream(c)
  <2>1. i \in 1 .. Len(down'[c]) /\ Numbered(down'[c][i])
    BY DEF Stream, Numbered
  <2>2. i + 1 \in 1 .. Len(down[c]) /\ Numbered(down[c][i + 1])
    BY <1>1, <2>1
  <2> QED
    BY <1>1, <2>1, <2>2 DEF Stream
<1>3. ASSUME NEW i \in Stream(c), i # 1 PROVE i - 1 \in Stream(c)'
  <2>1. i \in 1 .. Len(down[c]) /\ Numbered(down[c][i])
    BY DEF Stream
  <2>2. i - 1 \in 1 .. Len(down'[c]) /\ (i - 1) + 1 = i
    BY <1>1, <1>3, <2>1
  <2>3. Numbered(down'[c][i - 1])
    BY <1>1, <2>1, <2>2
  <2> QED
    BY <2>2, <2>3 DEF Stream, Numbered
<1>4. \A i \in Stream(c) : i \in Nat
  BY <1>1 DEF Stream
<1> QED
  BY <1>2, <1>3, <1>4

-----------------------------------------------------------------------------
(* What a step leaves as it was *)

\* Tokens are drawn anew, or forgotten, never taken over.
OldTokens == drawn' >= drawn /\ \A x \in Sessions, t \in 1 .. drawn : token'[x] = t => token[x] = t

\* No new request, at most old ones handled.
UpKept(c) ==
  /\ up[c] = <<>> => up'[c] = <<>>
  /\ \A i \in 1 .. Len(up'[c]) : up'[c][i].type # "terminate" => up'[c] = up[c]

LEMMA TokenStays ==
  ASSUME StreamInv, OldTokens, NEW t, NEW x, TokenOf(t, x), drawn' \in Nat
  PROVE  TokenOf(t, x)'
<1>1. drawn \in Nat /\ t \in 1 .. drawn /\ t \in 1 .. drawn'
  BY DEF StreamInv, StreamTyped, TokenOf, OldTokens
<1> QED
  BY <1>1 DEF TokenOf, OldTokens

\* The current connection, when others are served.
LEMMA SpectatorKept ==
  ASSUME StreamInv, NEW e \in Conns, Current(e), UNCHANGED <<written, showing, resume, seen, missed, conns>>,
         down'[e] = down[e], UpKept(e), bound'[e] = bound[e] \/ bound'[e] = None,
         stage'[e] = stage[e], position'[e] = position[e],
         created' \in Nat, created' >= created, drawn' \in Nat, OldTokens,
         up'[e] \in Seq(ToServer),
         \A s \in Sessions : attached'[s] = e => attached[s] = e
  PROVE  ControlFits(e)' /\ StreamFits(e)' /\ GapFits(e)' /\ Shown' = Shown
<1>1. Stream(e)' = Stream(e)
  BY DEF Stream, Numbered
<1>2. e = conns /\ conns' = e
  BY DEF Current
<1>3. Shown' = Shown
  BY <1>2 DEF Shown, Coming
<1>4. ControlFits(e) /\ StreamFits(e) /\ GapFits(e) /\ up[e] \in Seq(ToServer)
  BY DEF StreamInv, StreamTyped
<1>5. down[e] # <<>> => HeadFits(e)'
  <2> SUFFICES ASSUME down[e] # <<>> PROVE HeadFits(e)'
    OBVIOUS
  <2>1. HeadFits(e)
    BY <1>4 DEF ControlFits
  <2> DEFINE m == down[e][1]
  <2>2. m.type \in {"ready", "resume-failed"} => Len(down'[e]) = 1 /\ Unserved(e)' /\ up'[e] = <<>>
    BY <2>1 DEF HeadFits, Unserved, UpKept
  <2>3. m.type = "session" => TokenOf(m.token, m.session)' /\ m.session <= created'
    <3>1. m.type = "session" => TokenOf(m.token, m.session) /\ m.session <= created /\ m.session \in Nat
      <4>1. m \in ToTab
        BY DEF StreamInv, StreamTyped
      <4>2. m.type = "session" => m.session \in Sessions
        BY <4>1 DEF ToTab
      <4> QED
        BY <2>1, <4>2, BoundsAssumption DEF HeadFits, Sessions
    <3>2. created \in Nat
      BY BoundsAssumption DEF StreamInv, StreamTyped
    <3> QED
      BY <3>1, <3>2, TokenStays
  <2>4. m.type = "resumed" => TokenOf(m.token, showing)'
    <3>1. m.type = "resumed" => TokenOf(down[e][1].token, showing)
      BY <2>1 DEF HeadFits
    <3>2. drawn \in Nat
      BY DEF StreamInv, StreamTyped
    <3> QED
      BY <3>1, <3>2 DEF TokenOf, OldTokens
  <2> QED
    BY <2>1, <2>2, <2>3, <2>4 DEF HeadFits
<1>6. up'[e] # <<>> /\ up'[e][1].type \in {"resume", "connect"} => up'[e] = up[e]
  <2>1. up'[e] # <<>> => Len(up'[e]) \in Nat /\ 1 \in 1 .. Len(up'[e])
    OBVIOUS
  <2> QED
    BY <2>1 DEF UpKept
<1>7. ControlFits(e)'
  BY <1>3, <1>4, <1>5, <1>6 DEF ControlFits
<1>8. StreamFits(e)'
  BY <1>1, <1>3, <1>4 DEF StreamFits, Follows, First, Last, Skippable
<1>9. GapFits(e)'
  BY <1>1, <1>4 DEF GapFits, Lacks, First
<1> QED
  BY <1>3, <1>7, <1>8, <1>9

-----------------------------------------------------------------------------
(* The parts of a step *)

LEMMA StreamInit == Init => StreamInv
<1> SUFFICES ASSUME Init PROVE StreamInv
  OBVIOUS
<1>1. /\ MaxConns \in Nat \ {0} /\ MaxSessions \in Nat \ {0} /\ MaxOutput \in Nat
      /\ Sizes \subseteq Nat \ {0} /\ BufferLimit \in Nat \ {0}
  BY BoundsAssumption
<1>2. \A c \in Conns : c \in Nat /\ c > 0
  BY <1>1 DEF Conns
<1>3. StreamTyped
  <2>1. <<>> \in Seq(Sizes) /\ <<>> \in Seq(ToServer) /\ <<>> \in Seq(ToTab)
    OBVIOUS
  <2>2. /\ written \in [Sessions -> Seq(Sizes)]
        /\ up \in [Conns -> Seq(ToServer)]
        /\ down \in [Conns -> Seq(ToTab)]
    BY <2>1 DEF Init
  <2>3. /\ front \in [Sessions -> Nat \ {0}]
        /\ attached \in [Sessions -> 0..conns]
        /\ token \in [Sessions -> 0..drawn]
        /\ exited \in [Sessions -> BOOLEAN]
        /\ created \in 0..MaxSessions
        /\ drawn \in Nat
    BY <1>1 DEF Init, None
  <2>4. /\ stage \in [Conns -> {"idle", "attach", "gap"}]
        /\ bound \in [Conns -> 0..created]
        /\ own \in [Conns -> 0..drawn]
        /\ position \in [Conns -> Nat]
        /\ gone \in [Conns -> BOOLEAN]
        /\ broken \in [Conns -> BOOLEAN]
    BY <1>1 DEF Init, None
  <2>5. /\ conns \in 0..MaxConns
        /\ status \in {"waiting", "live", "ended"}
        /\ resume \in 0..drawn
        /\ showing \in 0..created
        /\ seen \in Nat
    BY <1>1 DEF Init, None
  <2>6. missed \in BOOLEAN
    BY DEF Init
  <2> QED
    BY <2>2, <2>3, <2>4, <2>5, <2>6 DEF StreamTyped
<1>4. Buffers
  <2>1. \A s \in Sessions : written[s] = <<>> /\ front[s] = 1 /\ ~exited[s] /\ token[s] = None
    BY DEF Init
  <2> QED
    BY <1>1, <2>1 DEF Buffers
<1>5. TokensCounted
  <2>1. Resuming = {}
    BY DEF Resuming, Init
  <2> QED
    BY <2>1, FS_EmptySet DEF TokensCounted, Init
<1>6. Connections
  <2>1. /\ \A c \in Conns : /\ Unserved(c) /\ up[c] = <<>> /\ ~broken[c] /\ down[c] = <<>>
                            /\ c > conns /\ ~(c < conns) /\ stage[c] = "idle"
        /\ \A s \in Sessions : attached[s] = None
    BY <1>2 DEF Init, Unserved, None
  <2>2. \A c \in Conns : \A i \in 1 .. Len(up[c]) : FALSE
    BY <2>1
  <2> QED
    BY <2>1, <2>2 DEF ConnectionFits, Connections
<1>7. Acknowledged
  BY DEF Init, Acknowledged, ResumeFits, RequestFits, AttachFits, DroppedFits, Shown, Coming, None
<1>8. \A c \in Conns : ~Current(c)
  BY <1>2 DEF Init, Current
<1> QED
  BY <1>3, <1>4, <1>5, <1>6, <1>7, <1>8 DEF StreamInv

\* The server takes the next request of a connection.
LEMMA RequestTakes ==
  ASSUME StreamInv, NEW c \in Conns, NEW type, Request(c, type)
  PROVE  /\ c \in 1 .. conns /\ conns \in Nat /\ ~gone[c] /\ stage[c] = "idle"
         /\ up[c] # <<>> /\ Head(up[c]) = up[c][1] /\ up[c][1] \in ToServer /\ up[c][1].type = type
         /\ up' \in [Conns -> Seq(ToServer)]
         /\ \A e \in Conns : e # c => up'[e] = up[e]
         /\ \A i \in 1 .. Len(up'[c]) : up'[c][i].type = "terminate"
         /\ type # "terminate" => up'[c] = <<>> /\ Unserved(c) /\ down[c] = <<>>
         /\ \A e \in Conns : UpKept(e)
<1>1. /\ up \in [Conns -> Seq(ToServer)] /\ ~gone[c] /\ stage[c] = "idle" /\ up[c] # <<>>
      /\ Head(up[c]).type = type /\ up' = [up EXCEPT ![c] = Tail(@)]
  BY DEF StreamInv, StreamTyped, Request
<1>2. conns \in Nat /\ c \in 1 .. conns
  <2>1. conns \in Nat /\ c \in Nat /\ c > 0
    BY BoundsAssumption DEF StreamInv, StreamTyped, Conns
  <2>2. ~(c > conns)
    BY <1>1 DEF ConnectionFits, StreamInv, Connections
  <2> QED
    BY <2>1, <2>2
<1> DEFINE q == up[c]
<1>3. q \in Seq(ToServer) /\ q # <<>> /\ up' = [up EXCEPT ![c] = Tail(q)] /\ Head(q).type = type
  BY <1>1
<1>4. up'[c] = Tail(q) /\ \A e \in Conns : e # c => up'[e] = up[e]
  BY <1>1
<1>5. \A i \in 1 .. Len(q) : q[i].type # "terminate" => Len(q) = 1 /\ Unserved(c) /\ down[c] = <<>>
  BY DEF ConnectionFits, StreamInv, Connections
<1>6. up[c] = q
  OBVIOUS
<1> HIDE DEF q
<1>7. /\ Tail(q) \in Seq(ToServer) /\ Len(q) \in Nat /\ Len(q) >= 1 /\ Len(Tail(q)) = Len(q) - 1
      /\ \A i \in 1 .. Len(Tail(q)) : Tail(q)[i] = q[i + 1]
      /\ Head(q) = q[1] /\ Head(q) \in ToServer
  BY <1>3, HeadTailProperties
<1>8. up' \in [Conns -> Seq(ToServer)]
  BY <1>1, <1>3, <1>7
<1>9. \A i \in 1 .. Len(Tail(q)) : Tail(q)[i].type = "terminate"
  <2>1. ASSUME NEW i \in 1 .. Len(Tail(q)), Tail(q)[i].type # "terminate" PROVE FALSE
    <3>1. i + 1 \in 1 .. Len(q) /\ Len(q) # 1
      BY <1>7
    <3> QED
      BY <1>5, <1>7, <2>1, <3>1
  <2> QED
    BY <2>1
<1>10. type # "terminate" => Tail(q) = <<>> /\ Unserved(c) /\ down[c] = <<>>
  <2> SUFFICES ASSUME type # "terminate" PROVE Tail(q) = <<>> /\ Unserved(c) /\ down[c] = <<>>
    OBVIOUS
  <2>1. 1 \in 1 .. Len(q) /\ q[1].type # "terminate"
    BY <1>3, <1>7
  <2>2. Len(q) = 1 /\ Unserved(c) /\ down[c] = <<>>
    BY <1>5, <2>1
  <2>3. Tail(q) = <<>>
    <3>1. Len(Tail(q)) = 0
      BY <1>7, <2>2
    <3> QED
      BY <1>7, <3>1, EmptySeq
  <2> QED
    BY <2>2, <2>3
<1>11. ASSUME NEW e \in Conns PROVE UpKept(e)
  <2>1. CASE e = c
    BY <1>3, <1>4, <1>6, <1>9, <2>1 DEF UpKept
  <2>2. CASE e # c
    BY <1>4, <2>2 DEF UpKept
  <2> QED
    BY <2>1, <2>2
<1> QED
  BY <1>1, <1>2, <1>3, <1>4, <1>6, <1>7, <1>8, <1>9, <1>10, <1>11

\* What was acknowledged stays so, as long as no session or token is renewed
\* for the tab and no connection resumes.
LEMMA RequestStays ==
  ASSUME StreamInv, NEW c \in Conns, UpKept(c), up'[c] \in Seq(ToServer), Shown' = Shown,
         seen' \in Nat, seen' >= seen, OldTokens, drawn' \in Nat
  PROVE  RequestFits(c)'
<1> SUFFICES ASSUME up'[c] # <<>>, up'[c][1].type = "resume" PROVE RequestFits(c)'
  BY DEF RequestFits
<1>1. up'[c] = up[c]
  <2>1. 1 \in 1 .. Len(up'[c])
    OBVIOUS
  <2> QED
    BY <2>1 DEF UpKept
<1>2. RequestFits(c) /\ up[c][1] \in ToServer /\ drawn \in Nat /\ seen \in Nat
  <2>1. up[c] \in Seq(ToServer) /\ up[c] # <<>>
    BY <1>1 DEF StreamInv, StreamTyped
  <2>2. 1 \in 1 .. Len(up[c])
    BY <2>1
  <2> QED
    BY <2>1, <2>2 DEF StreamInv, StreamTyped, Acknowledged
<1> DEFINE m == up[c][1]
<1>3. m.token \in Nat \ {0} /\ m.last \in Nat /\ m.token <= drawn
  BY <1>1, <1>2 DEF ToServer, RequestFits
<1>4. m.token \in 1 .. drawn /\ m.token <= drawn'
  BY <1>2, <1>3 DEF OldTokens
<1>5. \A s \in Sessions : token'[s] = m.token /\ s = Shown => m.last <= seen'
  <2>1. ASSUME NEW s \in Sessions, token'[s] = m.token, s = Shown PROVE m.last <= seen'
    <3>1. token[s] = m.token
      BY <1>4, <2>1 DEF OldTokens
    <3>2. m.last <= seen
      BY <1>1, <1>2, <2>1, <3>1 DEF RequestFits
    <3> QED
      BY <1>2, <1>3, <3>2
  <2> QED
    BY <2>1
<1> QED
  BY <1>1, <1>4, <1>5 DEF RequestFits

LEMMA AttachStays ==
  ASSUME StreamInv, NEW c \in Conns, Shown' = Shown, seen' \in Nat, seen' >= seen,
         stage'[c] = "attach" => stage[c] = "attach" /\ bound'[c] = bound[c] /\ position'[c] = position[c]
  PROVE  AttachFits(c)'
<1>1. AttachFits(c) /\ seen \in Nat /\ position[c] \in Nat
  BY DEF StreamInv, StreamTyped, Acknowledged
<1> QED
  BY <1>1 DEF AttachFits

LEMMA ResumeStays ==
  ASSUME StreamInv, UNCHANGED <<showing, resume>>, OldTokens, drawn' \in Nat
  PROVE  ResumeFits'
<1>1. ResumeFits
  BY DEF StreamInv, Acknowledged
<1> QED
  BY <1>1, TokenStays DEF ResumeFits

LEMMA ShownIs ==
  ASSUME StreamInv, Shown # None
  PROVE  Shown \in Sessions /\ front[Shown] \in Nat \ {0} /\ written[Shown] \in Seq(Sizes)
<1>1. showing \in 0 .. created /\ created \in 0 .. MaxSessions /\ MaxSessions \in Nat
  BY BoundsAssumption DEF StreamInv, StreamTyped
<1>2. Coming => down[conns][1].session \in Sessions
  <2> SUFFICES ASSUME Coming PROVE down[conns][1].session \in Sessions
    OBVIOUS
  <2>1. conns \in Conns /\ down[conns] \in Seq(ToTab) /\ down[conns] # <<>>
    BY BoundsAssumption DEF Coming, StreamInv, StreamTyped, Conns
  <2>2. down[conns][1] \in ToTab
    BY <2>1
  <2> QED
    BY <2>2 DEF ToTab, Coming
<1>3. Shown \in Sessions
  BY <1>1, <1>2 DEF Shown, None, Sessions
<1> QED
  BY <1>3 DEF StreamInv, StreamTyped

LEMMA DroppedStays ==
  ASSUME StreamInv, UNCHANGED <<written, front>>, Shown' = Shown, seen' \in Nat, seen' >= seen
  PROVE  DroppedFits'
<1>1. DroppedFits /\ seen \in Nat
  BY DEF StreamInv, StreamTyped, Acknowledged
<1>2. Shown # None => front[Shown] \in Nat
  BY ShownIs
<1> QED
  BY <1>1, <1>2 DEF DroppedFits

\* The tokens drawn, when no connection begins to resume.
LEMMA CountStays ==
  ASSUME StreamInv, conns' = conns, Resuming' \subseteq Resuming, drawn \in Nat,
         drawn' \in Nat, created' \in Nat, drawn' + created <= drawn + created'
  PROVE  TokensCounted'
<1>1. conns \in Nat /\ created \in Nat
  BY BoundsAssumption DEF StreamInv, StreamTyped
<1>2. IsFiniteSet(Resuming)
  <2>1. IsFiniteSet(1 .. conns)
    BY <1>1, FS_Interval
  <2> QED
    BY <2>1, FS_Subset DEF Resuming
<1>3. Cardinality(Resuming') <= Cardinality(Resuming) /\ Cardinality(Resuming) \in Nat /\ Cardinality(Resuming') \in Nat
  <2>1. IsFiniteSet(Resuming')
    BY <1>2, FS_Subset
  <2> QED
    BY <1>2, <2>1, FS_Subset, FS_CardinalityType
<1>4. drawn + Cardinality(Resuming) <= created + conns
  BY DEF StreamInv, TokensCounted
<1>5. drawn' + Cardinality(Resuming') <= created' + conns'
  <2> DEFINE m == Cardinality(Resuming)
             n == Cardinality(Resuming')
  <2>1. /\ drawn + m <= created + conns /\ n <= m /\ m \in Nat /\ n \in Nat
        /\ drawn' + created <= drawn + created' /\ conns' = conns
    BY <1>3, <1>4
  <2> HIDE DEF m, n
  <2>2. \A a, b, d, e, f, g, h \in Nat :
           a + d <= e + f /\ g <= d /\ b + e <= a + h => b + g <= h + f
    OBVIOUS
  <2>3. drawn' + n <= created' + conns
    BY <1>1, <2>1, <2>2
  <2> QED
    BY <2>1, <2>3 DEF n
<1> QED
  BY <1>5 DEF TokensCounted

\* Nothing new comes first on a connection.
LEMMA ResumingStays ==
  ASSUME StreamInv, conns' = conns, NEW c \in Resuming',
         up[c] = <<>> => up'[c] = <<>>,
         up'[c] # <<>> => up'[c][1].type # "resume" \/ up'[c] = up[c],
         down'[c] # <<>> => down'[c][1].type # "ready" \/ (down[c] # <<>> /\ down[c][1].type = "ready")
  PROVE  c \in Resuming
BY DEF Resuming

LEMMA Basics ==
  ASSUME StreamInv
  PROVE  /\ conns \in Nat /\ conns <= MaxConns /\ created \in Nat /\ created <= MaxSessions
         /\ drawn \in Nat /\ seen \in Nat /\ MaxConns \in Nat /\ MaxSessions \in Nat
         /\ token \in [Sessions -> 0..drawn] /\ None = 0
         /\ \A c \in Conns : c \in Nat /\ c # None /\ c >= 1 /\ c <= MaxConns
         /\ \A c \in 1 .. conns : c \in Conns
         /\ \A s \in Sessions : s \in Nat /\ s # None /\ s >= 1
         /\ \A s \in Sessions : attached[s] # None => attached[s] \in Conns /\ attached[s] <= conns
         /\ \A c \in Conns : bound[c] # None => bound[c] \in Sessions /\ bound[c] <= created
<1>1. /\ conns \in Nat /\ conns <= MaxConns /\ created \in Nat /\ created <= MaxSessions
      /\ drawn \in Nat /\ seen \in Nat /\ MaxConns \in Nat /\ MaxSessions \in Nat
      /\ token \in [Sessions -> 0..drawn] /\ None = 0
  BY BoundsAssumption DEF StreamInv, StreamTyped, None
<1>2. \A c \in Conns : c \in Nat /\ c # None /\ c >= 1 /\ c <= MaxConns
  BY <1>1 DEF Conns
<1>3. \A c \in 1 .. conns : c \in Conns
  BY <1>1 DEF Conns
<1>4. \A s \in Sessions : s \in Nat /\ s # None /\ s >= 1
  BY <1>1 DEF Sessions
<1>5. \A s \in Sessions : attached[s] \in 0 .. conns
  BY DEF StreamInv, StreamTyped
<1>6. \A c \in Conns : bound[c] \in 0 .. created
  BY DEF StreamInv, StreamTyped
<1>7. \A s \in Sessions : attached[s] # None => attached[s] \in Conns /\ attached[s] <= conns
  BY <1>1, <1>5 DEF Conns
<1>8. \A c \in Conns : bound[c] # None => bound[c] \in Sessions /\ bound[c] <= created
  BY <1>1, <1>6 DEF Sessions
<1> QED
  BY <1>1, <1>2, <1>3, <1>4, <1>7, <1>8

LEMMA AcknowledgedStays ==
  ASSUME StreamInv, UNCHANGED <<written, front, showing, resume, seen>>, Shown' = Shown,
         OldTokens, drawn' \in Nat, up' \in [Conns -> Seq(ToServer)], \A c \in Conns : UpKept(c),
         \A c \in Conns :
           stage'[c] = "attach" => stage[c] = "attach" /\ bound'[c] = bound[c] /\ position'[c] = position[c]
  PROVE  Acknowledged'
<1>1. seen \in Nat /\ seen' = seen /\ seen' >= seen
  BY DEF StreamInv, StreamTyped
<1>2. ResumeFits'
  BY ResumeStays
<1>3. ASSUME NEW c \in Conns PROVE RequestFits(c)'
  BY <1>1, RequestStays
<1>4. ASSUME NEW c \in Conns PROVE AttachFits(c)'
  BY <1>1, AttachStays
<1>5. DroppedFits'
  BY <1>1, DroppedStays
<1> QED
  BY <1>2, <1>3, <1>4, <1>5 DEF Acknowledged

-----------------------------------------------------------------------------
(* Steps of the server that send nothing *)

LEMMA ExpireKeeps ==
  ASSUME StreamInv, NEW s \in Sessions, Expire(s)
  PROVE  StreamInv'
<1>1. /\ token' = [token EXCEPT ![s] = None]
      /\ UNCHANGED <<sessionVars, attached, drawn, serverVars, netVars, tabVars>>
  BY DEF Expire
<1>2. /\ UNCHANGED <<written, front, exited, created, attached, drawn, stage, bound, own, position, gone>>
      /\ UNCHANGED <<up, down, broken, conns, status, resume, showing, seen, missed>>
  BY <1>1 DEF sessionVars, serverVars, netVars, tabVars
<1>3. StreamTyped
  BY DEF StreamInv
<1>4. drawn \in Nat /\ created \in Nat /\ token \in [Sessions -> 0..drawn]
  BY <1>3, BoundsAssumption DEF StreamTyped
<1>5. OldTokens /\ \A c \in Conns : UpKept(c)
  <2>1. \A x \in Sessions : token'[x] = token[x] \/ token'[x] = 0
    BY <1>1, <1>4 DEF None
  <2> QED
    BY <1>2, <1>4, <2>1 DEF OldTokens, UpKept
<1>6. Shown' = Shown /\ Resuming' = Resuming
  BY <1>2 DEF Shown, Coming, Resuming
<1>7. StreamTyped'
  BY <1>1, <1>2, <1>3, <1>4 DEF StreamTyped, None
<1>8. Buffers'
  BY <1>1, <1>2, <1>4 DEF StreamInv, Buffers, None
<1>9. TokensCounted'
  BY <1>2, <1>6 DEF StreamInv, TokensCounted
<1>10. Connections'
  BY <1>2 DEF ConnectionFits, StreamInv, Connections, Unserved
<1>11. Acknowledged'
  BY <1>2, <1>4, <1>5, <1>6, <1>7, AcknowledgedStays DEF StreamTyped
<1>12. ASSUME NEW e \in Conns, Current(e)' PROVE ControlFits(e)' /\ StreamFits(e)' /\ GapFits(e)'
  <2>1. Current(e) /\ up'[e] \in Seq(ToServer)
    BY <1>2, <1>3, <1>12 DEF Current, StreamTyped
  <2> QED
    BY <1>2, <1>4, <1>5, <2>1, SpectatorKept
<1> QED
  BY <1>7, <1>8, <1>9, <1>10, <1>11, <1>12 DEF StreamInv

LEMMA ServerTerminateKeeps ==
  ASSUME StreamInv, NEW c \in Conns, ServerTerminate(c)
  PROVE  StreamInv'
<1>1. /\ Request(c, "terminate") /\ bound[c] # None
      /\ token' = [token EXCEPT ![bound[c]] = IF @ = own[c] THEN None ELSE @]
      /\ attached' = DetachFrom(bound[c], c)
      /\ bound' = [bound EXCEPT ![c] = None]
      /\ own' = [own EXCEPT ![c] = None]
  BY DEF ServerTerminate
<1>2. /\ UNCHANGED <<written, front, exited, created, drawn, stage, position, gone>>
      /\ UNCHANGED <<down, broken, conns, status, resume, showing, seen, missed>>
  BY DEF ServerTerminate, sessionVars, tabVars
<1>3. StreamTyped /\ Buffers /\ Connections
  BY DEF StreamInv
<1>4. /\ drawn \in Nat /\ created \in Nat /\ token \in [Sessions -> 0..drawn] /\ bound[c] \in Sessions
      /\ attached \in [Sessions -> 0..conns] /\ conns \in Nat
  <2>1. attached \in [Sessions -> 0..conns]
    BY <1>3 DEF StreamTyped
  <2> QED
    BY <1>1, <2>1, Basics
<1>5. /\ up' \in [Conns -> Seq(ToServer)] /\ \A e \in Conns : UpKept(e) /\ (e # c => up'[e] = up[e])
      /\ \A i \in 1 .. Len(up'[c]) : up'[c][i].type = "terminate"
      /\ stage[c] = "idle" /\ c \in 1 .. conns
  BY <1>1, RequestTakes
<1>6. \A x \in Sessions : token'[x] = token[x] \/ token'[x] = 0
  BY <1>1, <1>4 DEF None
<1>7. OldTokens
  BY <1>2, <1>4, <1>6 DEF OldTokens
<1>8. Shown' = Shown
  BY <1>2 DEF Shown, Coming
<1>9. /\ attached' \in [Sessions -> 0..conns]
      /\ \A x \in Sessions : attached'[x] = None \/ (attached'[x] = attached[x] /\ (attached[x] = c => x # bound[c]))
  BY <1>1, <1>4 DEF DetachFrom, None
<1>10. StreamTyped'
  <2>1. token' \in [Sessions -> 0..drawn]
    BY <1>1, <1>4 DEF None
  <2>2. bound' \in [Conns -> 0..created] /\ own' \in [Conns -> 0..drawn]
    BY <1>1, <1>3, <1>4 DEF StreamTyped, None
  <2> QED
    BY <1>2, <1>3, <1>5, <1>9, <2>1, <2>2 DEF StreamTyped
<1>11. Buffers'
  BY <1>2, <1>3, <1>6 DEF Buffers, None
<1>12. TokensCounted'
  <2>1. \A e \in Resuming' : e \in Conns /\ e \in Resuming
    <3>1. ASSUME NEW e \in Resuming' PROVE e \in Conns /\ e \in Resuming
      <4>1. e \in Conns
        BY <1>2, <1>3, BoundsAssumption DEF Resuming, StreamTyped, Conns
      <4>2. up'[e] # <<>> => 1 \in 1 .. Len(up'[e])
        BY <1>5, <4>1
      <4> QED
        BY <1>2, <1>5, <4>1, <4>2 DEF Resuming
    <3> QED
      BY <3>1
  <2> QED
    BY <1>2, <1>4, <2>1, CountStays
<1>13. Connections'
  <2>1. ASSUME NEW e \in Conns PROVE ConnectionFits(e)'
    <3>1. e = c \/ bound'[e] = bound[e]
      BY <1>1, <1>3 DEF StreamTyped
    <3>2. CASE e = c
      <4>1. c \in Nat /\ c <= conns /\ stage[e] = "idle" /\ conns \in Nat
        BY <1>4, <1>5, <3>2
      <4> QED
        BY <1>2, <1>3, <1>5, <3>2, <4>1 DEF ConnectionFits, Connections
    <3>3. CASE e # c
      <4>1. bound'[e] = bound[e] /\ up'[e] = up[e] /\ stage'[e] = stage[e]
        BY <1>2, <1>5, <3>1, <3>3
      <4>2. e \in Nat /\ e # None
        BY BoundsAssumption DEF Conns, None
      <4> QED
        BY <1>2, <1>3, <1>9, <4>1, <4>2 DEF ConnectionFits, Connections, Unserved
    <3> QED
      BY <3>2, <3>3
  <2>2. ASSUME NEW x \in Sessions, attached'[x] # None PROVE bound'[attached'[x]] = x
    <3>1. attached'[x] = attached[x] /\ (attached[x] = c => x # bound[c]) /\ bound[attached[x]] = x
      BY <1>3, <1>9, <2>2 DEF ConnectionFits, Connections
    <3>2. attached'[x] # c
      BY <3>1
    <3>3. attached[x] \in Conns
      BY <2>2, <3>1, Basics
    <3> QED
      BY <1>1, <1>3, <3>1, <3>2, <3>3 DEF StreamTyped
  <2> QED
    BY <1>2, <2>1, <2>2 DEF ConnectionFits, Connections
<1>14. Acknowledged'
  <2>1. \A e \in Conns : stage'[e] = "attach" => stage[e] = "attach" /\ bound'[e] = bound[e] /\ position'[e] = position[e]
    BY <1>1, <1>2, <1>3, <1>5 DEF StreamTyped
  <2> QED
    BY <1>2, <1>4, <1>5, <1>7, <1>8, <2>1, AcknowledgedStays
<1>15. ASSUME NEW e \in Conns, Current(e)' PROVE ControlFits(e)' /\ StreamFits(e)' /\ GapFits(e)'
  <2>1. Current(e) /\ up'[e] \in Seq(ToServer)
    BY <1>2, <1>5, <1>15 DEF Current
  <2>2. bound'[e] = bound[e] \/ bound'[e] = None
    BY <1>1, <1>3 DEF StreamTyped
  <2>3. \A x \in Sessions : attached'[x] = e => attached[x] = e
    <3>1. e # None
      BY BoundsAssumption DEF Conns, None
    <3> QED
      BY <1>9, <3>1
  <2> QED
    BY <1>2, <1>4, <1>5, <1>7, <2>1, <2>2, <2>3, SpectatorKept
<1> QED
  BY <1>10, <1>11, <1>12, <1>13, <1>14, <1>15 DEF StreamInv

LEMMA ServerClosedKeeps ==
  ASSUME StreamInv, NEW c \in Conns, ServerClosed(c)
  PROVE  StreamInv'
<1>1. /\ broken[c] /\ stage[c] = "idle"
      /\ gone' = [gone EXCEPT ![c] = TRUE]
      /\ up' = [up EXCEPT ![c] = <<>>]
      /\ attached' = IF bound[c] = None THEN attached ELSE DetachFrom(bound[c], c)
  BY DEF ServerClosed
<1>2. /\ UNCHANGED <<written, front, exited, created, token, drawn, stage, bound, own, position>>
      /\ UNCHANGED <<down, broken, conns, status, resume, showing, seen, missed>>
  BY DEF ServerClosed, sessionVars, tabVars
<1>3. StreamTyped /\ Buffers /\ Connections
  BY DEF StreamInv
<1>4. up' \in [Conns -> Seq(ToServer)] /\ up'[c] = <<>> /\ \A e \in Conns : e # c => up'[e] = up[e]
  BY <1>1, <1>3 DEF StreamTyped
<1>5. \A e \in Conns : UpKept(e)
  <2>1. \A i \in 1 .. Len(<<>>) : FALSE
    OBVIOUS
  <2> QED
    BY <1>4, <2>1 DEF UpKept
<1>6. /\ attached' \in [Sessions -> 0..conns]
      /\ \A x \in Sessions : attached'[x] = None \/ attached'[x] = attached[x]
  <2>1. attached \in [Sessions -> 0..conns] /\ 0 \in 0..conns
    BY <1>3, Basics DEF StreamTyped
  <2> QED
    BY <1>1, <2>1 DEF DetachFrom, None
<1>7. OldTokens /\ drawn' \in Nat
  BY <1>2, Basics DEF OldTokens
<1>8. Shown' = Shown
  BY <1>2 DEF Shown, Coming
<1>9. StreamTyped'
  BY <1>1, <1>2, <1>3, <1>4, <1>6 DEF StreamTyped
<1>10. Buffers'
  BY <1>2, <1>3 DEF Buffers
<1>11. TokensCounted'
  <2>1. ASSUME NEW e \in Resuming' PROVE e \in Resuming
    <3>1. e \in Conns
      BY <1>2, Basics DEF Resuming
    <3> QED
      BY <1>2, <1>4, <3>1 DEF Resuming
  <2> QED
    BY <1>2, <2>1, Basics, CountStays
<1>12. Connections'
  <2>1. ASSUME NEW e \in Conns PROVE ConnectionFits(e)'
    <3>1. ConnectionFits(e)
      BY <1>3 DEF Connections
    <3>2. up'[e] = up[e] \/ (up'[e] = <<>> /\ \A i \in 1 .. Len(up'[e]) : FALSE)
      BY <1>4
    <3> QED
      BY <1>2, <1>6, <3>1, <3>2, Basics DEF ConnectionFits, Unserved
  <2>2. ASSUME NEW x \in Sessions, attached'[x] # None PROVE bound'[attached'[x]] = x
    BY <1>2, <1>3, <1>6, <2>2 DEF Connections
  <2> QED
    BY <2>1, <2>2 DEF Connections
<1>13. Acknowledged'
  BY <1>2, <1>4, <1>5, <1>7, <1>8, AcknowledgedStays
<1>14. ASSUME NEW e \in Conns, Current(e)' PROVE ControlFits(e)' /\ StreamFits(e)' /\ GapFits(e)'
  <2>1. Current(e) /\ up'[e] \in Seq(ToServer)
    BY <1>2, <1>4, <1>14 DEF Current
  <2>2. \A x \in Sessions : attached'[x] = e => attached[x] = e
    BY <1>6, Basics
  <2> QED
    BY <1>2, <1>5, <1>7, <2>1, <2>2, Basics, SpectatorKept
<1> QED
  BY <1>9, <1>10, <1>11, <1>12, <1>13, <1>14 DEF StreamInv

-----------------------------------------------------------------------------
(* Steps of the server that answer *)

LEMMA ServerRefuseKeeps ==
  ASSUME StreamInv, NEW c \in Conns, ServerRefuse(c)
  PROVE  StreamInv'
<1> DEFINE msgs == <<[type |-> "resume-failed"]>>
<1>1. Request(c, "resume") /\ Send(c, msgs)
  BY DEF ServerRefuse
<1>2. /\ UNCHANGED <<written, front, exited, created, attached, token, drawn, stage, bound, own, position, gone>>
      /\ UNCHANGED <<broken, conns, status, resume, showing, seen, missed>>
  BY DEF ServerRefuse, sessionVars, tableVars, tabVars
<1>3. StreamTyped /\ Buffers /\ Connections
  BY DEF StreamInv
<1>4. /\ c \in 1 .. conns /\ stage[c] = "idle" /\ up' \in [Conns -> Seq(ToServer)] /\ up'[c] = <<>>
      /\ Unserved(c) /\ down[c] = <<>> /\ \A e \in Conns : UpKept(e) /\ (e # c => up'[e] = up[e])
  BY <1>1, RequestTakes
<1>5. msgs \in Seq(ToTab) /\ Len(msgs) = 1 /\ msgs[1].type = "resume-failed"
  <2>1. [type |-> "resume-failed"] \in ToTab
    BY DEF ToTab
  <2> QED
    BY <2>1
<1>6. c <= conns
  BY <1>4, Basics
<1> HIDE DEF msgs
<1>7. /\ down' \in [Conns -> Seq(ToTab)]
      /\ \A e \in Conns : ~(e = c /\ Current(c)) => down'[e] = down[e]
      /\ Current(c) => Len(down'[c]) = 1 /\ down'[c][1] = msgs[1]
  <2>1. Len(down[c]) = 0 /\ 1 \in 1 .. Len(msgs) /\ 0 + 1 = 1
    BY <1>4, <1>5
  <2>2. Current(c) => Len(down'[c]) = 0 + 1 /\ down'[c][0 + 1] = msgs[1]
    BY <1>1, <1>5, <1>6, <2>1, SendReaches
  <2>3. down' \in [Conns -> Seq(ToTab)] /\ \A e \in Conns : ~(e = c /\ Current(c)) => down'[e] = down[e]
    BY <1>1, <1>5, <1>6, SendReaches
  <2> QED
    BY <2>1, <2>2, <2>3
<1>8. OldTokens /\ drawn' \in Nat
  BY <1>2, Basics DEF OldTokens
<1>9. Shown' = Shown
  <2>1. conns # 0 => conns \in Conns
    BY Basics
  <2>2. Coming' = Coming
    BY <1>2, <1>4, <1>5, <1>7, <2>1 DEF Coming
  <2>3. Coming => down'[conns] = down[conns]
    BY <1>4, <1>7, <2>1 DEF Coming
  <2> QED
    BY <1>2, <2>2, <2>3 DEF Shown
<1>10. StreamTyped'
  <2>1. gone \in [Conns -> BOOLEAN]
    BY <1>3 DEF StreamTyped
  <2> QED
    BY <1>2, <1>3, <1>4, <1>7, <2>1 DEF StreamTyped
<1>11. Buffers'
  BY <1>2, <1>3 DEF Buffers
<1>12. TokensCounted'
  <2>1. ASSUME NEW e \in Resuming' PROVE e \in Resuming
    <3>1. e \in Conns
      BY <1>2, Basics DEF Resuming
    <3> QED
      BY <1>2, <1>4, <1>5, <1>7, <3>1 DEF Resuming
  <2> QED
    BY <1>2, <2>1, Basics, CountStays
<1>13. Connections'
  <2>1. ASSUME NEW e \in Conns PROVE ConnectionFits(e)'
    <3>1. ConnectionFits(e) /\ ConnectionFits(c)
      BY <1>3 DEF Connections
    <3>2. CASE e = c
      <4>1. ~(e > conns) /\ \A i \in 1 .. Len(up'[e]) : FALSE
        BY <1>4, <3>2, Basics
      <4>2. e # conns \/ broken[e] => down'[e] = <<>>
        BY <1>4, <1>7, <3>2 DEF Current
      <4> QED
        BY <1>2, <1>4, <3>1, <3>2, <4>1, <4>2 DEF ConnectionFits, Unserved
    <3>3. CASE e # c
      <4>1. up'[e] = up[e] /\ down'[e] = down[e]
        BY <1>4, <1>7, <3>3
      <4> QED
        BY <1>2, <3>1, <4>1 DEF ConnectionFits, Unserved
    <3> QED
      BY <3>2, <3>3
  <2> QED
    BY <1>2, <1>3, <2>1 DEF Connections
<1>14. Acknowledged'
  BY <1>2, <1>4, <1>8, <1>9, AcknowledgedStays
<1>15. ASSUME NEW e \in Conns, Current(e)' PROVE ControlFits(e)' /\ StreamFits(e)' /\ GapFits(e)'
  <2>1. Current(e) /\ up'[e] \in Seq(ToServer)
    BY <1>2, <1>4, <1>15 DEF Current
  <2>2. CASE e # c
    <3>1. down'[e] = down[e]
      BY <1>7, <2>2
    <3>2. /\ UNCHANGED <<written, showing, resume, seen, missed, conns>>
          /\ bound'[e] = bound[e] /\ stage'[e] = stage[e] /\ position'[e] = position[e]
          /\ created' \in Nat /\ created' >= created /\ UpKept(e)
          /\ \A s \in Sessions : attached'[s] = e => attached[s] = e
      BY <1>2, <1>4, Basics
    <3> QED
      BY <1>8, <2>1, <3>1, <3>2, SpectatorKept
  <2>3. CASE e = c
    <3>1. Len(down'[e]) = 1 /\ down'[e][1].type = "resume-failed" /\ up'[e] = <<>> /\ Unserved(e)'
      BY <1>2, <1>4, <1>5, <1>7, <2>1, <2>3 DEF Unserved
    <3>2. HeadFits(e)'
      BY <3>1 DEF HeadFits
    <3>3. 2 .. Len(down'[e]) = {} /\ 1 .. Len(down'[e]) = {1}
      BY <3>1
    <3>4. ControlFits(e)'
      BY <3>1, <3>2, <3>3 DEF ControlFits, Unserved
    <3>5. Stream(e)' = {}
      BY <3>1, <3>3 DEF Stream, Numbered
    <3>6. \A x \in Sessions : attached'[x] # e
      <4>1. ASSUME NEW x \in Sessions, attached'[x] = e PROVE FALSE
        BY <1>2, <1>3, <1>4, <2>3, <4>1, Basics DEF Connections, Unserved
      <4> QED
        BY <4>1
    <3> QED
      BY <3>1, <3>3, <3>4, <3>5, <3>6 DEF StreamFits, GapFits, Unserved
  <2> QED
    BY <2>2, <2>3
<1> QED
  BY <1>10, <1>11, <1>12, <1>13, <1>14, <1>15 DEF StreamInv

LEMMA ServerConnectKeeps ==
  ASSUME StreamInv, NEW c \in Conns, ServerConnect(c)
  PROVE  StreamInv'
<1> DEFINE s == created + 1
           msgs == <<[type |-> "session", token |-> drawn + 1, session |-> created + 1]>>
<1>1. /\ Request(c, "connect") /\ created < MaxSessions /\ created' = s /\ drawn' = drawn + 1
      /\ token' = [token EXCEPT ![s] = drawn + 1]
      /\ attached' = [attached EXCEPT ![s] = c]
      /\ bound' = [bound EXCEPT ![c] = s]
      /\ own' = [own EXCEPT ![c] = drawn + 1]
      /\ Send(c, msgs)
  BY DEF ServerConnect
<1>2. /\ UNCHANGED <<written, front, exited, stage, position, gone>>
      /\ UNCHANGED <<broken, conns, status, resume, showing, seen, missed>>
  BY DEF ServerConnect, tabVars
<1>3. StreamTyped /\ Buffers /\ Connections
  BY DEF StreamInv
<1>4. /\ c \in 1 .. conns /\ stage[c] = "idle" /\ up' \in [Conns -> Seq(ToServer)] /\ up'[c] = <<>>
      /\ Unserved(c) /\ down[c] = <<>> /\ \A e \in Conns : UpKept(e) /\ (e # c => up'[e] = up[e])
      /\ up[c] # <<>> /\ up[c][1].type = "connect"
  BY <1>1, RequestTakes
<1>5. /\ s \in Sessions /\ s > created /\ s \in Nat /\ drawn + 1 \in Nat \ {0} /\ s # None
      /\ created \in Nat /\ drawn \in Nat
  BY <1>1, Basics DEF Sessions
<1>6. msgs \in Seq(ToTab) /\ Len(msgs) = 1
      /\ msgs[1].type = "session" /\ msgs[1].token = drawn + 1 /\ msgs[1].session = s
  <2>1. [type |-> "session", token |-> drawn + 1, session |-> created + 1] \in ToTab
    BY <1>5 DEF ToTab
  <2> QED
    BY <2>1
<1> HIDE DEF msgs, s
<1>7. /\ down' \in [Conns -> Seq(ToTab)]
      /\ \A e \in Conns : ~(e = c /\ Current(c)) => down'[e] = down[e]
      /\ Current(c) => Len(down'[c]) = 1 /\ down'[c][1] = msgs[1]
  <2>1. Len(down[c]) = 0 /\ 1 \in 1 .. Len(msgs) /\ 0 + 1 = 1
    BY <1>4, <1>6
  <2>2. c <= conns
    BY <1>4, Basics
  <2>3. Current(c) => Len(down'[c]) = 0 + 1 /\ down'[c][0 + 1] = msgs[1]
    BY <1>1, <1>6, <2>1, <2>2, SendReaches
  <2>4. down' \in [Conns -> Seq(ToTab)] /\ \A e \in Conns : ~(e = c /\ Current(c)) => down'[e] = down[e]
    BY <1>1, <1>6, <2>2, SendReaches
  <2> QED
    BY <2>1, <2>3, <2>4
<1>8. /\ token' \in [Sessions -> 0..drawn'] /\ token'[s] = drawn + 1
      /\ \A x \in Sessions : x # s => token'[x] = token[x]
      /\ \A x \in Sessions : token[x] \in 0..drawn
  <2>1. token \in [Sessions -> 0..drawn]
    BY Basics
  <2>2. token \in [Sessions -> 0..drawn'] /\ drawn + 1 \in 0..drawn'
    BY <1>1, <1>5, <2>1
  <2> QED
    BY <1>1, <1>5, <2>1, <2>2
<1>9. OldTokens /\ drawn' \in Nat
  BY <1>1, <1>5, <1>8 DEF OldTokens
<1>10. /\ attached' \in [Sessions -> 0..conns] /\ attached'[s] = c
       /\ \A x \in Sessions : x # s => attached'[x] = attached[x]
       /\ bound' \in [Conns -> 0..created'] /\ bound'[c] = s
       /\ \A e \in Conns : e # c => bound'[e] = bound[e]
       /\ own' \in [Conns -> 0..drawn']
  <2>1. /\ attached \in [Sessions -> 0..conns] /\ c \in 0..conns
        /\ bound \in [Conns -> 0..created] /\ own \in [Conns -> 0..drawn]
    BY <1>3, <1>4 DEF StreamTyped
  <2>2. bound \in [Conns -> 0..created'] /\ s \in 0..created' /\ own \in [Conns -> 0..drawn'] /\ drawn + 1 \in 0..drawn'
    BY <1>1, <1>5, <2>1
  <2>3. attached' \in [Sessions -> 0..conns] /\ bound' \in [Conns -> 0..created'] /\ own' \in [Conns -> 0..drawn']
    BY <1>1, <2>1, <2>2
  <2> QED
    BY <1>1, <1>5, <2>1, <2>3
<1>11. StreamTyped'
  <2>1. created' \in 0..MaxSessions /\ drawn' \in Nat
    BY <1>1, <1>5, Basics DEF s
  <2>2. resume \in 0..drawn /\ showing \in 0..created /\ gone \in [Conns -> BOOLEAN]
    BY <1>3 DEF StreamTyped
  <2>3. resume \in 0..drawn' /\ showing \in 0..created'
    BY <1>1, <1>5, <2>2
  <2> QED
    BY <1>2, <1>3, <1>4, <1>7, <1>8, <1>10, <2>1, <2>2, <2>3 DEF StreamTyped
<1>12. Buffers'
  <2>1. ASSUME NEW x \in Sessions
        PROVE  /\ front'[x] <= Len(written'[x]) + 1
               /\ Len(written'[x]) <= MaxOutput + (IF exited'[x] THEN 1 ELSE 0)
               /\ x > created' => written'[x] = <<>> /\ token'[x] = None
    <3>1. x \in Nat
      BY Basics
    <3>2. x > created' => x > created /\ x # s
      BY <1>1, <1>5, <3>1 DEF s
    <3> QED
      BY <1>2, <1>3, <1>8, <3>2 DEF Buffers
  <2> QED
    BY <2>1 DEF Buffers
<1>13. TokensCounted'
  <2>1. ASSUME NEW e \in Resuming' PROVE e \in Resuming
    <3>1. e \in Conns
      BY <1>2, Basics DEF Resuming
    <3> QED
      BY <1>2, <1>4, <1>6, <1>7, <3>1 DEF Resuming
  <2>2. drawn' + created <= drawn + created' /\ created' \in Nat
    BY <1>1, <1>5 DEF s
  <2> QED
    BY <1>2, <1>5, <1>9, <2>1, <2>2, CountStays
<1>14. Connections'
  <2>1. ASSUME NEW e \in Conns PROVE ConnectionFits(e)'
    <3>1. ConnectionFits(e)
      BY <1>3 DEF Connections
    <3>2. CASE e = c
      <4>1. ~(e > conns) /\ \A i \in 1 .. Len(up'[e]) : FALSE
        BY <1>4, <3>2, Basics
      <4>2. e # conns \/ broken[e] => down'[e] = <<>>
        BY <1>4, <1>7, <3>2 DEF Current
      <4> QED
        BY <1>2, <1>4, <3>1, <3>2, <4>1, <4>2 DEF ConnectionFits
    <3>3. CASE e # c
      <4>1. up'[e] = up[e] /\ down'[e] = down[e] /\ bound'[e] = bound[e]
        BY <1>4, <1>7, <1>10, <3>3
      <4>2. \A x \in Sessions : attached'[x] = e => attached[x] = e
        BY <1>10, <3>3
      <4> QED
        BY <1>2, <3>1, <4>1, <4>2 DEF ConnectionFits, Unserved
    <3> QED
      BY <3>2, <3>3
  <2>2. ASSUME NEW x \in Sessions, attached'[x] # None PROVE bound'[attached'[x]] = x
    <3>1. CASE x = s
      BY <1>10, <3>1
    <3>2. CASE x # s
      <4>1. attached'[x] = attached[x] /\ bound[attached[x]] = x /\ attached[x] \in Conns /\ x # None
        BY <1>3, <1>10, <2>2, <3>2, Basics DEF Connections
      <4>2. attached[x] # c
        BY <1>4, <4>1 DEF Unserved
      <4> QED
        BY <1>10, <4>1, <4>2
    <3> QED
      BY <3>1, <3>2
  <2> QED
    BY <2>1, <2>2 DEF Connections
<1>15. Current(c) => resume = None /\ showing = None /\ seen = 0 /\ Shown = None /\ Shown' = s
  <2> SUFFICES ASSUME Current(c) PROVE resume = None /\ showing = None /\ seen = 0 /\ Shown = None /\ Shown' = s
    OBVIOUS
  <2>1. resume = None /\ showing = None /\ seen = 0
    BY <1>4 DEF StreamInv, ControlFits
  <2>2. c = conns /\ ~Coming
    BY <1>4 DEF Current, Coming
  <2>3. down'[c][1] = msgs[1] /\ down'[c] # <<>>
    <3>1. Len(<<>>) = 0
      OBVIOUS
    <3>2. Len(down'[c]) = 1 /\ down'[c][1] = msgs[1]
      BY <1>7, Zenon
    <3> QED
      BY <3>1, <3>2
  <2>4. Shown' = msgs[1].session
    BY <1>2, <1>4, <1>6, <2>1, <2>2, <2>3, Basics DEF Shown, Coming
  <2> QED
    BY <1>6, <2>1, <2>2, <2>4 DEF Shown
<1>16. ~Current(c) => Shown' = Shown
  <2> SUFFICES ASSUME ~Current(c) PROVE Shown' = Shown
    OBVIOUS
  <2>1. conns # 0 => down'[conns] = down[conns]
    BY <1>7, Basics
  <2> QED
    BY <1>2, <2>1 DEF Shown, Coming
<1>17. Acknowledged'
  <2>1. ASSUME NEW e \in Conns, stage'[e] = "attach" PROVE stage[e] = "attach" /\ bound'[e] = bound[e] /\ position'[e] = position[e] /\ bound[e] # s
    <3>1. stage[e] = "attach" /\ e # c
      BY <1>2, <1>4, <2>1
    <3>2. bound[e] \in 0..created
      BY <1>3 DEF StreamTyped
    <3> QED
      BY <1>2, <1>5, <1>10, <3>1, <3>2
  <2>2. CASE ~Current(c)
    BY <1>2, <1>4, <1>9, <1>16, <2>1, <2>2, AcknowledgedStays
  <2>3. CASE Current(c)
    <3>1. ResumeFits'
      BY <1>2, <1>15, <2>3 DEF ResumeFits
    <3>2. ASSUME NEW e \in Conns PROVE RequestFits(e)' /\ AttachFits(e)'
      <4>1. AttachFits(e)'
        BY <1>15, <2>1, <2>3 DEF AttachFits
      <4>2. RequestFits(e)'
        <5> SUFFICES ASSUME up'[e] # <<>>, up'[e][1].type = "resume" PROVE RequestFits(e)'
          BY DEF RequestFits
        <5>1. up'[e] = up[e]
          BY <1>4
        <5>2. RequestFits(e)
          BY DEF StreamInv, Acknowledged
        <5>3. up[e][1].token <= drawn /\ up[e][1].token \in Nat
          <6>1. up[e] \in Seq(ToServer) /\ up[e] # <<>>
            BY <1>3, <5>1 DEF StreamTyped
          <6>2. up[e][1] \in ToServer
            BY <6>1
          <6> QED
            BY <5>1, <5>2, <6>1, <6>2 DEF RequestFits, ToServer
        <5>4. up[e][1].token <= drawn' /\ up[e][1].token # drawn + 1
          BY <1>1, <1>5, <5>3
        <5> QED
          BY <1>8, <1>15, <2>3, <5>1, <5>4 DEF RequestFits
      <4> QED
        BY <4>1, <4>2
    <3>3. DroppedFits'
      <4>1. written[s] = <<>> /\ front[s] <= Len(written[s]) + 1 /\ front[s] \in Nat
        BY <1>3, <1>5 DEF Buffers, StreamTyped
      <4>2. front[s] <= seen + 1
        BY <1>15, <2>3, <4>1
      <4> QED
        BY <1>2, <1>15, <2>3, <4>2 DEF DroppedFits
    <3> QED
      BY <3>1, <3>2, <3>3 DEF Acknowledged
  <2> QED
    BY <2>2, <2>3
<1>18. ASSUME NEW e \in Conns, Current(e)' PROVE ControlFits(e)' /\ StreamFits(e)' /\ GapFits(e)'
  <2>1. Current(e) /\ up'[e] \in Seq(ToServer)
    BY <1>2, <1>4, <1>18 DEF Current
  <2>2. CASE e # c
    <3>1. down'[e] = down[e]
      BY <1>7, <2>2
    <3>2. /\ UNCHANGED <<written, showing, resume, seen, missed, conns>>
          /\ bound'[e] = bound[e] /\ stage'[e] = stage[e] /\ position'[e] = position[e]
          /\ UpKept(e)
      BY <1>2, <1>4, <1>10, <2>2
    <3>3. \A x \in Sessions : attached'[x] = e => attached[x] = e
      BY <1>10, <2>2
    <3>4. created' \in Nat /\ created' >= created
      BY <1>1, <1>5
    <3> QED
      BY <1>9, <2>1, <3>1, <3>2, <3>3, <3>4, SpectatorKept
  <2>3. CASE e = c
    <3>1. Len(down'[e]) = 1 /\ down'[e][1] = msgs[1] /\ up'[e] = <<>>
      BY <1>4, <1>7, <2>1, <2>3
    <3>2. HeadFits(e)'
      <4>1. drawn + 1 \in 1 .. drawn' /\ \A x \in Sessions : token'[x] = drawn + 1 => x = s
        <5>1. drawn + 1 \in 1 .. drawn'
          BY <1>1, <1>5
        <5>2. \A x \in Sessions : token'[x] = drawn + 1 => x = s
          BY <1>5, <1>8
        <5> QED
          BY <5>1, <5>2
      <4>2. s <= created'
        BY <1>1, <1>5
      <4> QED
        BY <1>1, <1>2, <1>6, <1>15, <2>1, <2>3, <3>1, <4>1, <4>2 DEF HeadFits, TokenOf
    <3>3. 2 .. Len(down'[e]) = {} /\ 1 .. Len(down'[e]) = {1}
      BY <3>1
    <3>4. ControlFits(e)'
      BY <1>2, <1>4, <1>10, <1>15, <2>1, <2>3, <3>1, <3>2, <3>3 DEF ControlFits
    <3>5. Stream(e)' = {}
      BY <1>6, <3>1, <3>3 DEF Stream, Numbered
    <3>6. ASSUME NEW x \in Sessions, attached'[x] = e PROVE Len(written'[x]) <= seen'
      <4>1. x = s
        <5>1. e # None
          BY Basics
        <5>2. bound'[e] = x
          BY <1>14, <3>6, <5>1 DEF Connections
        <5> QED
          BY <1>10, <2>3, <5>2
      <4>2. written[s] = <<>>
        BY <1>3, <1>5 DEF Buffers
      <4> QED
        BY <1>2, <1>15, <2>1, <2>3, <4>1, <4>2
    <3>7. StreamFits(e)'
      BY <3>5, <3>6 DEF StreamFits
    <3>8. GapFits(e)'
      BY <1>2, <1>4, <1>6, <2>3, <3>1, <3>3 DEF GapFits
    <3> QED
      BY <3>4, <3>7, <3>8
  <2> QED
    BY <2>2, <2>3
<1> QED
  BY <1>11, <1>12, <1>13, <1>14, <1>17, <1>18 DEF StreamInv

LEMMA ServerResumeKeeps ==
  ASSUME StreamInv, NEW c \in Conns, ServerResume(c)
  PROVE  StreamInv'
<1> DEFINE msgs == <<[type |-> "resumed", token |-> drawn + 1]>>
           m == up[c][1]
<1>0. Request(c, "resume")
  BY DEF ServerResume
<1>4. /\ c \in 1 .. conns /\ stage[c] = "idle" /\ up' \in [Conns -> Seq(ToServer)] /\ up'[c] = <<>>
      /\ Unserved(c) /\ down[c] = <<>> /\ \A e \in Conns : UpKept(e) /\ (e # c => up'[e] = up[e])
      /\ up[c] # <<>> /\ m.type = "resume" /\ m \in ToServer /\ Head(up[c]) = m
  BY <1>0, RequestTakes
<1>1. PICK s \in Sessions : /\ token[s] = m.token
                            /\ token' = [token EXCEPT ![s] = drawn + 1]
                            /\ bound' = [bound EXCEPT ![c] = s]
  BY <1>4 DEF ServerResume
<1>2. /\ UNCHANGED <<written, front, exited, created, attached, gone>>
      /\ UNCHANGED <<broken, conns, status, resume, showing, seen, missed>>
      /\ own' = [own EXCEPT ![c] = drawn + 1] /\ drawn' = drawn + 1
      /\ position' = [position EXCEPT ![c] = m.last]
      /\ stage' = [stage EXCEPT ![c] = "attach"]
      /\ Send(c, msgs)
  BY <1>4 DEF ServerResume, sessionVars, tabVars
<1>3. StreamTyped /\ Buffers /\ Connections
  BY DEF StreamInv
<1>5. m.token \in Nat \ {0} /\ m.last \in Nat /\ s # None /\ created \in Nat /\ drawn \in Nat /\ drawn + 1 \in Nat \ {0}
      /\ s \in Nat
  <2>1. m.token \in Nat \ {0} /\ m.last \in Nat
    BY <1>4 DEF ToServer
  <2> QED
    BY <2>1, Basics
<1>6. msgs \in Seq(ToTab) /\ Len(msgs) = 1 /\ msgs[1].type = "resumed" /\ msgs[1].token = drawn + 1
  <2>1. [type |-> "resumed", token |-> drawn + 1] \in ToTab
    BY <1>5 DEF ToTab
  <2> QED
    BY <2>1
<1> HIDE DEF msgs, m
<1>7. /\ down' \in [Conns -> Seq(ToTab)]
      /\ \A e \in Conns : ~(e = c /\ Current(c)) => down'[e] = down[e]
      /\ Current(c) => Len(down'[c]) = 1 /\ down'[c][1] = msgs[1]
  <2>1. Len(down[c]) = 0 /\ 1 \in 1 .. Len(msgs) /\ 0 + 1 = 1
    BY <1>4, <1>6
  <2>2. c <= conns
    BY <1>4, Basics
  <2>3. Current(c) => Len(down'[c]) = 0 + 1 /\ down'[c][0 + 1] = msgs[1]
    BY <1>2, <1>6, <2>1, <2>2, SendReaches
  <2>4. down' \in [Conns -> Seq(ToTab)] /\ \A e \in Conns : ~(e = c /\ Current(c)) => down'[e] = down[e]
    BY <1>2, <1>6, <2>2, SendReaches
  <2> QED
    BY <2>1, <2>3, <2>4
<1>8. /\ token' \in [Sessions -> 0..drawn'] /\ token'[s] = drawn + 1
      /\ \A x \in Sessions : x # s => token'[x] = token[x]
      /\ \A x \in Sessions : token[x] \in 0..drawn
  <2>1. token \in [Sessions -> 0..drawn]
    BY Basics
  <2>2. token \in [Sessions -> 0..drawn'] /\ drawn + 1 \in 0..drawn'
    BY <1>2, <1>5, <2>1
  <2> QED
    BY <1>1, <2>1, <2>2
<1>9. OldTokens /\ drawn' \in Nat
  BY <1>2, <1>5, <1>8 DEF OldTokens
<1>10. s <= created
  <2>1. ~(s > created)
    BY <1>1, <1>3, <1>5 DEF Buffers, None
  <2> QED
    BY <1>5, <2>1
<1>11. /\ bound' \in [Conns -> 0..created] /\ bound'[c] = s
       /\ \A e \in Conns : e # c => bound'[e] = bound[e] /\ stage'[e] = stage[e] /\ position'[e] = position[e]
       /\ own' \in [Conns -> 0..drawn']
       /\ position' \in [Conns -> Nat] /\ position'[c] = m.last
       /\ stage' \in [Conns -> {"idle", "attach", "gap"}] /\ stage'[c] = "attach"
  <2>1. /\ bound \in [Conns -> 0..created] /\ own \in [Conns -> 0..drawn]
        /\ position \in [Conns -> Nat] /\ stage \in [Conns -> {"idle", "attach", "gap"}]
    BY <1>3 DEF StreamTyped
  <2>2. s \in 0..created /\ own \in [Conns -> 0..drawn'] /\ drawn + 1 \in 0..drawn'
    BY <1>2, <1>5, <1>10, <2>1
  <2>3. bound' \in [Conns -> 0..created] /\ own' \in [Conns -> 0..drawn']
    BY <1>1, <1>2, <2>1, <2>2
  <2>4. position' \in [Conns -> Nat] /\ stage' \in [Conns -> {"idle", "attach", "gap"}]
    BY <1>2, <1>5, <2>1
  <2> QED
    BY <1>1, <1>2, <2>1, <2>3, <2>4
<1>12. StreamTyped'
  <2>1. drawn' \in Nat /\ resume \in 0..drawn' /\ gone \in [Conns -> BOOLEAN]
    BY <1>2, <1>3, <1>5 DEF StreamTyped
  <2> QED
    BY <1>2, <1>3, <1>4, <1>7, <1>8, <1>11, <2>1 DEF StreamTyped
<1>13. Buffers'
  <2>1. \A x \in Sessions : x > created => token'[x] = token[x]
    BY <1>5, <1>8, <1>10
  <2> QED
    BY <1>2, <1>3, <2>1 DEF Buffers
<1>14. TokensCounted'
  <2>1. c \in Resuming
    BY <1>4 DEF Resuming, m
  <2>2. Resuming' = Resuming \ {c}
    <3>1. ASSUME NEW e \in Resuming' PROVE e \in Resuming \ {c}
      <4>1. e \in Conns
        BY <1>2, Basics DEF Resuming
      <4>2. e # c
        BY <1>4, <1>6, <1>7 DEF Resuming
      <4> QED
        BY <1>2, <1>4, <1>7, <4>1, <4>2 DEF Resuming
    <3>2. ASSUME NEW e \in Resuming \ {c} PROVE e \in Resuming'
      <4>1. e \in Conns
        BY Basics DEF Resuming
      <4> QED
        BY <1>2, <1>4, <1>7, <3>2, <4>1 DEF Resuming
    <3> QED
      BY <3>1, <3>2
  <2>3. IsFiniteSet(Resuming)
    <3>1. IsFiniteSet(1 .. conns)
      BY Basics, FS_Interval
    <3> QED
      BY <3>1, FS_Subset DEF Resuming
  <2>4. Cardinality(Resuming') = Cardinality(Resuming) - 1 /\ Cardinality(Resuming) \in Nat
    BY <2>1, <2>2, <2>3, FS_RemoveElement, FS_CardinalityType
  <2>5. drawn + Cardinality(Resuming) <= created + conns
    BY DEF StreamInv, TokensCounted
  <2>6. (drawn + 1) + Cardinality(Resuming') <= created + conns
    BY <1>5, <2>4, <2>5, Basics
  <2> QED
    BY <1>2, <2>6 DEF TokensCounted
<1>15. Connections'
  <2>1. ASSUME NEW e \in Conns PROVE ConnectionFits(e)'
    <3>1. ConnectionFits(e)
      BY <1>3 DEF Connections
    <3>2. CASE e = c
      <4>1. ~(e > conns) /\ \A i \in 1 .. Len(up'[e]) : FALSE
        BY <1>4, <3>2, Basics
      <4>2. e # conns \/ broken[e] => down'[e] = <<>>
        BY <1>4, <1>7, <3>2 DEF Current
      <4>3. ASSUME NEW x \in Sessions, attached[x] = e PROVE FALSE
        BY <1>3, <1>4, <3>2, <4>3, Basics DEF Connections, Unserved
      <4> QED
        BY <1>2, <1>5, <1>11, <3>1, <3>2, <4>1, <4>2, <4>3 DEF ConnectionFits
    <3>3. CASE e # c
      <4>1. up'[e] = up[e] /\ down'[e] = down[e] /\ bound'[e] = bound[e] /\ stage'[e] = stage[e]
        BY <1>4, <1>7, <1>11, <3>3
      <4> QED
        BY <1>2, <3>1, <4>1 DEF ConnectionFits, Unserved
    <3> QED
      BY <3>2, <3>3
  <2>2. ASSUME NEW x \in Sessions, attached[x] # None PROVE bound'[attached[x]] = x
    <3>1. bound[attached[x]] = x /\ attached[x] \in Conns /\ x # None
      BY <1>3, <2>2, Basics DEF Connections
    <3>2. attached[x] # c
      BY <1>4, <3>1 DEF Unserved
    <3> QED
      BY <1>11, <3>1, <3>2
  <2> QED
    BY <1>2, <2>1, <2>2 DEF Connections
<1>16. Shown' = Shown
  <2>1. conns # 0 => conns \in Conns
    BY Basics
  <2>2. Coming' = Coming
    BY <1>2, <1>4, <1>6, <1>7, <2>1 DEF Coming
  <2>3. Coming => down'[conns] = down[conns]
    BY <1>4, <1>7, <2>1 DEF Coming
  <2> QED
    BY <1>2, <2>2, <2>3 DEF Shown
<1>17. seen \in Nat /\ seen' = seen /\ seen' >= seen
  BY <1>2, Basics
<1>18. Acknowledged'
  <2>1. ResumeFits'
    BY <1>2, <1>9, ResumeStays
  <2>2. DroppedFits'
    BY <1>2, <1>16, <1>17, DroppedStays
  <2>3. ASSUME NEW e \in Conns PROVE RequestFits(e)' /\ AttachFits(e)'
    <3>1. RequestFits(e)'
      BY <1>4, <1>9, <1>16, <1>17, RequestStays
    <3>2. CASE e # c
      BY <1>11, <1>16, <1>17, <3>1, <3>2, AttachStays
    <3>3. CASE e = c
      <4>1. RequestFits(c)
        BY DEF StreamInv, Acknowledged
      <4>2. s = Shown => m.last <= seen
        BY <1>1, <1>4, <4>1 DEF RequestFits, m
      <4> QED
        BY <1>11, <1>16, <1>17, <3>1, <3>3, <4>2 DEF AttachFits
    <3> QED
      BY <3>2, <3>3
  <2> QED
    BY <2>1, <2>2, <2>3 DEF Acknowledged
<1>19. ASSUME NEW e \in Conns, Current(e)' PROVE ControlFits(e)' /\ StreamFits(e)' /\ GapFits(e)'
  <2>1. Current(e) /\ up'[e] \in Seq(ToServer)
    BY <1>2, <1>4, <1>19 DEF Current
  <2>2. CASE e # c
    <3>1. down'[e] = down[e]
      BY <1>7, <2>2
    <3>2. /\ UNCHANGED <<written, showing, resume, seen, missed, conns>>
          /\ bound'[e] = bound[e] /\ stage'[e] = stage[e] /\ position'[e] = position[e]
          /\ UpKept(e) /\ \A x \in Sessions : attached'[x] = e => attached[x] = e
      BY <1>2, <1>4, <1>11, <2>2
    <3>3. created' \in Nat /\ created' >= created
      BY <1>2, <1>5
    <3> QED
      BY <1>9, <2>1, <3>1, <3>2, <3>3, SpectatorKept
  <2>3. CASE e = c
    <3>1. Len(down'[e]) = 1 /\ down'[e][1] = msgs[1] /\ up'[e] = <<>>
      BY <1>4, <1>7, <2>1, <2>3
    <3>2. resume # None /\ m.token = resume /\ m.last = seen
      BY <1>4, <2>1, <2>3 DEF StreamInv, ControlFits, m
    <3>3. showing # None /\ s = showing
      <4>1. ResumeFits
        BY DEF StreamInv, Acknowledged
      <4> QED
        BY <1>1, <3>2, <4>1 DEF ResumeFits, TokenOf
    <3>4. drawn + 1 \in 1 .. drawn' /\ \A x \in Sessions : token'[x] = drawn + 1 => x = s
      <4>1. drawn + 1 \in 1 .. drawn'
        BY <1>2, <1>5
      <4>2. \A x \in Sessions : token'[x] = drawn + 1 => x = s
        BY <1>5, <1>8
      <4> QED
        BY <4>1, <4>2
    <3>5. HeadFits(e)'
      BY <1>2, <1>6, <3>1, <3>3, <3>4 DEF HeadFits, TokenOf
    <3>6. 2 .. Len(down'[e]) = {} /\ 1 .. Len(down'[e]) = {1}
      BY <3>1
    <3>7. Shown' = s
      BY <1>16, <3>3 DEF Shown
    <3>8. ControlFits(e)'
      BY <1>2, <1>6, <1>11, <2>3, <3>1, <3>2, <3>5, <3>6, <3>7 DEF ControlFits
    <3>9. Stream(e)' = {}
      BY <1>6, <3>1, <3>6 DEF Stream, Numbered
    <3>10. ASSUME NEW x \in Sessions, attached'[x] = e PROVE FALSE
      BY <1>2, <1>3, <1>4, <2>3, <3>10, Basics DEF Connections, Unserved
    <3>11. StreamFits(e)'
      BY <3>9, <3>10 DEF StreamFits
    <3>12. GapFits(e)'
      BY <1>6, <1>11, <2>3, <3>1, <3>6 DEF GapFits
    <3> QED
      BY <3>8, <3>11, <3>12
  <2> QED
    BY <2>2, <2>3
<1> QED
  BY <1>12, <1>13, <1>14, <1>15, <1>18, <1>19 DEF StreamInv

LEMMA ServerGapKeeps ==
  ASSUME StreamInv, NEW c \in Conns, ServerGap(c)
  PROVE  StreamInv'
<1> DEFINE msgs == <<[type |-> "resume-gap"]>>
           d == Len(down[c])
<1>1. stage[c] = "gap" /\ stage' = [stage EXCEPT ![c] = "idle"] /\ Send(c, msgs)
  BY DEF ServerGap
<1>2. /\ UNCHANGED <<written, front, exited, created, attached, token, drawn, bound, own, position, gone, up>>
      /\ UNCHANGED <<broken, conns, status, resume, showing, seen, missed>>
  BY DEF ServerGap, sessionVars, tableVars, tabVars
<1>3. StreamTyped /\ Buffers /\ Connections
  BY DEF StreamInv
<1>4. bound[c] # None /\ c <= conns /\ c \in Nat /\ conns \in Nat
  <2>1. bound[c] # None /\ ~(c > conns)
    BY <1>1, <1>3 DEF Connections, ConnectionFits, Unserved
  <2> QED
    BY <2>1, Basics
<1>5. msgs \in Seq(ToTab) /\ Len(msgs) = 1 /\ msgs[1].type = "resume-gap"
  <2>1. [type |-> "resume-gap"] \in ToTab
    BY DEF ToTab
  <2> QED
    BY <2>1
<1>6. d \in Nat
  BY <1>3 DEF StreamTyped
<1> HIDE DEF msgs, d
<1>7. /\ down' \in [Conns -> Seq(ToTab)]
      /\ \A e \in Conns : ~(e = c /\ Current(c)) => down'[e] = down[e]
      /\ Current(c) => /\ Len(down'[c]) = d + 1
                       /\ \A i \in 1 .. d : down'[c][i] = down[c][i]
                       /\ down'[c][d + 1] = msgs[1]
  <2>1. 1 \in 1 .. Len(msgs)
    BY <1>5
  <2>2. down' \in [Conns -> Seq(ToTab)] /\ \A e \in Conns : ~(e = c /\ Current(c)) => down'[e] = down[e]
    BY <1>1, <1>4, <1>5, SendReaches
  <2>3. Current(c) => /\ Len(down'[c]) = d + Len(msgs)
                      /\ \A i \in 1 .. d : down'[c][i] = down[c][i]
                      /\ \A i \in 1 .. Len(msgs) : down'[c][d + i] = msgs[i]
    BY <1>1, <1>4, <1>5, SendReaches DEF d
  <2> QED
    BY <1>5, <2>1, <2>2, <2>3
<1>8. OldTokens /\ drawn' \in Nat /\ \A e \in Conns : UpKept(e)
  BY <1>2, Basics DEF OldTokens, UpKept
<1>9. stage' \in [Conns -> {"idle", "attach", "gap"}] /\ stage'[c] = "idle" /\ \A e \in Conns : e # c => stage'[e] = stage[e]
  BY <1>1, <1>3 DEF StreamTyped
<1>10. Current(c) => down'[c] # <<>> /\ down'[c][1] = IF down[c] = <<>> THEN msgs[1] ELSE down[c][1]
  <2> SUFFICES ASSUME Current(c)
               PROVE  down'[c] # <<>> /\ down'[c][1] = IF down[c] = <<>> THEN msgs[1] ELSE down[c][1]
    OBVIOUS
  <2>1. down'[c] \in Seq(ToTab) /\ down[c] \in Seq(ToTab) /\ Len(down'[c]) = d + 1
    BY <1>3, <1>7 DEF StreamTyped
  <2>2. down'[c] # <<>>
    BY <1>6, <2>1
  <2>3. CASE down[c] = <<>>
    <3>1. d = 0 /\ d + 1 = 1
      BY <2>3 DEF d
    <3> QED
      BY <1>7, <2>2, <2>3, <3>1
  <2>4. CASE down[c] # <<>>
    <3>1. 1 \in 1 .. d
      BY <2>1, <2>4 DEF d
    <3> QED
      BY <1>7, <2>2, <2>4, <3>1
  <2> QED
    BY <2>3, <2>4
<1>11. Shown' = Shown /\ Resuming' \subseteq Resuming
  <2>1. conns # 0 => conns \in Conns
    BY Basics
  <2>2. /\ Coming' = Coming
        /\ Coming => down'[conns][1] = down[conns][1]
    BY <1>2, <1>5, <1>7, <1>10, <2>1 DEF Coming
  <2>3. ASSUME NEW e \in Resuming' PROVE e \in Resuming
    <3>1. e \in Conns
      BY <1>2, Basics DEF Resuming
    <3> QED
      BY <1>2, <1>5, <1>7, <1>10, <3>1 DEF Resuming
  <2> QED
    BY <1>2, <2>2, <2>3 DEF Shown
<1>12. StreamTyped'
  <2>1. gone \in [Conns -> BOOLEAN]
    BY <1>3 DEF StreamTyped
  <2> QED
    BY <1>2, <1>3, <1>7, <1>9, <2>1 DEF StreamTyped
<1>13. Buffers'
  BY <1>2, <1>3 DEF Buffers
<1>14. TokensCounted'
  BY <1>2, <1>11, Basics, CountStays
<1>15. Connections'
  <2>1. ASSUME NEW e \in Conns PROVE ConnectionFits(e)'
    <3>1. ConnectionFits(e)
      BY <1>3 DEF Connections
    <3>2. CASE e = c
      <4>1. ~(e > conns)
        BY <1>4, <3>2
      <4>2. e # conns \/ broken[e] => down'[e] = <<>>
        BY <1>7, <3>1, <3>2 DEF Current, ConnectionFits
      <4>3. \A i \in 1 .. Len(up'[e]) : up'[e][i].type = "terminate"
        BY <1>2, <1>4, <3>1, <3>2 DEF ConnectionFits, Unserved
      <4> QED
        BY <1>2, <1>9, <3>1, <3>2, <4>1, <4>2, <4>3 DEF ConnectionFits
    <3>3. CASE e # c
      <4>1. down'[e] = down[e] /\ stage'[e] = stage[e]
        BY <1>7, <1>9, <3>3
      <4> QED
        BY <1>2, <3>1, <4>1 DEF ConnectionFits, Unserved
    <3> QED
      BY <3>2, <3>3
  <2> QED
    BY <1>2, <1>3, <2>1 DEF Connections
<1>16. Acknowledged'
  <2>1. \A e \in Conns : stage'[e] = "attach" => stage[e] = "attach" /\ bound'[e] = bound[e] /\ position'[e] = position[e]
    BY <1>2, <1>9
  <2>2. up' \in [Conns -> Seq(ToServer)]
    BY <1>2, <1>3 DEF StreamTyped
  <2> QED
    BY <1>2, <1>8, <1>11, <2>1, <2>2, AcknowledgedStays
<1>17. ASSUME NEW e \in Conns, Current(e)' PROVE ControlFits(e)' /\ StreamFits(e)' /\ GapFits(e)'
  <2>1. Current(e) /\ up'[e] \in Seq(ToServer)
    BY <1>2, <1>3, <1>17 DEF Current, StreamTyped
  <2>2. CASE e # c
    <3>1. down'[e] = down[e]
      BY <1>7, <2>2
    <3>2. /\ UNCHANGED <<written, showing, resume, seen, missed, conns>>
          /\ bound'[e] = bound[e] /\ stage'[e] = stage[e] /\ position'[e] = position[e]
          /\ UpKept(e) /\ \A x \in Sessions : attached'[x] = e => attached[x] = e
      BY <1>2, <1>8, <1>9, <2>2
    <3>3. created' \in Nat /\ created' >= created
      BY <1>2, Basics
    <3> QED
      BY <1>8, <2>1, <3>1, <3>2, <3>3, SpectatorKept
  <2>3. CASE e = c
    <3>0. Current(c) /\ ControlFits(c) /\ StreamFits(c) /\ GapFits(c)
      BY <2>1, <2>3 DEF StreamInv
    <3>1. HeadFits(c)'
      <4>1. CASE down[c] = <<>>
        BY <1>5, <1>10, <3>0, <4>1 DEF HeadFits
      <4>2. CASE down[c] # <<>>
        <5>1. HeadFits(c) /\ down'[c][1] = down[c][1]
          BY <1>10, <3>0, <4>2 DEF ControlFits
        <5>2. down[c][1].type \notin {"ready", "resume-failed"}
          BY <1>4, <5>1 DEF HeadFits, Unserved
        <5> QED
          BY <1>2, <5>1, <5>2 DEF HeadFits, TokenOf
      <4> QED
        BY <4>1, <4>2
    <3>2. ASSUME NEW i \in 2 .. Len(down'[c]) PROVE down'[c][i].type \in {"output", "closed", "resume-gap"}
      <4>1. CASE i = d + 1
        BY <1>5, <1>7, <3>0, <4>1
      <4>2. CASE i # d + 1
        <5>1. i \in 1 .. d /\ i \in 2 .. Len(down[c])
          BY <1>6, <1>7, <3>0, <4>2 DEF d
        <5> QED
          BY <1>7, <3>0, <5>1 DEF ControlFits
      <4> QED
        BY <4>1, <4>2
    <3>3. ControlFits(c)'
      BY <1>2, <1>9, <1>11, <3>0, <3>1, <3>2 DEF ControlFits
    <3>4. Stream(c)' = Stream(c)
      <4>1. Stream(c)' = Stream(c) \cup {Len(down[c]) + i : i \in {k \in 1 .. Len(msgs) : Numbered(msgs[k])}}
        BY <1>1, <1>5, <3>0, StreamGrows
      <4>2. \A k \in 1 .. Len(msgs) : ~Numbered(msgs[k])
        BY <1>5 DEF Numbered
      <4> QED
        BY <4>1, <4>2
    <3>5. \A i \in Stream(c) : i \in 1 .. d /\ down'[c][i] = down[c][i]
      BY <1>7, <3>0 DEF Stream, d
    <3>6. StreamFits(c)'
      BY <1>2, <1>11, <3>0, <3>4, <3>5 DEF StreamFits, Follows, First, Last, Skippable
    <3>7. Lacks(c, d + 1)
      BY <1>1, <3>0 DEF GapFits, d
    <3>8. \A i \in 1 .. d : down[c][i].type # "resume-gap"
      BY <1>1, <3>0 DEF GapFits, d
    <3>9. \A i \in 1 .. Len(down'[c]) : down'[c][i].type = "resume-gap" => i = d + 1
      <4>1. ASSUME NEW i \in 1 .. Len(down'[c]), i # d + 1 PROVE down'[c][i].type # "resume-gap"
        <5>1. i \in 1 .. d
          BY <1>6, <1>7, <3>0, <4>1
        <5> QED
          BY <1>7, <3>0, <3>8, <5>1
      <4> QED
        BY <4>1
    <3>10. missed' \/ \E i \in Stream(c)' : First(c, i)' /\ i < d + 1 /\ down'[c][i].seq > seen' + 1
      BY <1>2, <3>4, <3>5, <3>7 DEF Lacks, First
    <3>11. GapFits(c)'
      <4>1. stage'[c] # "gap"
        BY <1>9
      <4> QED
        BY <3>9, <3>10, <4>1 DEF GapFits, Lacks, First
    <3> QED
      BY <2>3, <3>3, <3>6, <3>11
  <2> QED
    BY <2>2, <2>3
<1> QED
  BY <1>12, <1>13, <1>14, <1>15, <1>16, <1>17 DEF StreamInv

\* What Attach keeps of the buffer and what it replays.
LEMMA FirstKeptIs ==
  ASSUME StreamInv, NEW s \in Sessions, NEW last \in Nat
  PROVE  /\ FirstKept(s, last) \in Nat \ {0}
         /\ FirstKept(s, last) <= Len(written[s]) + 1
         /\ FirstKept(s, last) # front[s] => front[s] <= last /\ FirstKept(s, last) <= last + 1
         /\ front[s] > last => FirstKept(s, last) = front[s]
<1>1. front[s] \in Nat \ {0} /\ Len(written[s]) \in Nat /\ front[s] <= Len(written[s]) + 1
  BY DEF StreamInv, StreamTyped, Buffers
<1> DEFINE T == {last, Len(written[s])}
<1>2. T \in SUBSET Nat /\ T # {} /\ last \in T /\ Len(written[s]) \in T
  BY <1>1
<1>3. Min(T) \in T /\ \A y \in T : Min(T) <= y
  BY <1>2, MinIs
<1>4. Min(T) \in Nat /\ Min(T) <= last /\ Min(T) <= Len(written[s])
  BY <1>2, <1>3
<1>5. FirstKept(s, last) = IF front[s] <= last THEN Min(T) + 1 ELSE front[s]
  BY DEF FirstKept
<1> HIDE DEF T
<1> QED
  BY <1>1, <1>4, <1>5

Replay(s, f) == [i \in 1..Cardinality(Replayed(s, f)) |-> Output(s, f + i - 1)]

LEMMA ReplayIs ==
  ASSUME StreamInv, NEW s \in Sessions, NEW f \in Nat \ {0}, f <= Len(written[s]) + 1
  PROVE  /\ Replay(s, f) \in Seq(ToTab) /\ Len(Replay(s, f)) = Len(written[s]) + 1 - f
         /\ \A i \in 1 .. Len(Replay(s, f)) :
              Numbered(Replay(s, f)[i]) /\ Replay(s, f)[i].seq = f + i - 1
<1> DEFINE msgs == Replay(s, f)
           w == Len(written[s])
           n == w + 1 - f
<1>1. w \in Nat /\ n \in Nat
  BY DEF StreamInv, StreamTyped
<1>2. Cardinality(Replayed(s, f)) = n
  <2>1. Cardinality(f .. w) = IF f > w THEN 0 ELSE w - f + 1
    <3>1. f \in Int /\ w \in Int
      BY <1>1
    <3> HIDE DEF w
    <3> QED
      BY <3>1, FS_Interval
  <2> QED
    BY <1>1, <2>1 DEF Replayed
<1>3. \A i \in 1 .. n : f + i - 1 \in Nat \ {0}
  BY <1>1
<1>4. \A i \in 1 .. n : Output(s, f + i - 1) \in ToTab /\ Numbered(Output(s, f + i - 1)) /\ Output(s, f + i - 1).seq = f + i - 1
  BY <1>3 DEF Output, ToTab, Numbered
<1>5. msgs = [i \in 1 .. n |-> Output(s, f + i - 1)]
  BY <1>2 DEF Replay
<1> HIDE DEF n, msgs
<1>6. msgs \in [1 .. n -> ToTab]
  BY <1>4, <1>5
<1>7. msgs \in Seq(ToTab) /\ Len(msgs) = n
  <2>1. n \in Nat
    BY <1>1 DEF n
  <2>2. msgs \in UNION {[1 .. k -> ToTab] : k \in Nat} /\ DOMAIN msgs = 1 .. n
    BY <1>6, <2>1
  <2>3. msgs \in Seq(ToTab)
    BY <2>2, SeqDef
  <2> QED
    BY <2>1, <2>2, <2>3, LenProperties
<1>8. \A i \in 1 .. n : msgs[i] = Output(s, f + i - 1)
  BY <1>5
<1> QED
  BY <1>4, <1>7, <1>8 DEF n, msgs

LEMMA ServerAttachKeeps ==
  ASSUME StreamInv, NEW c \in Conns, ServerAttach(c)
  PROVE  StreamInv'
<1> DEFINE s == bound[c]
           p == position[c]
           f == FirstKept(s, p)
           msgs == Replay(s, f)
           d == Len(down[c])
           n == Len(msgs)
           w == Len(written[s])
<1>1. /\ stage[c] = "attach"
      /\ front' = [front EXCEPT ![s] = f]
      /\ attached' = [attached EXCEPT ![s] = c]
      /\ Send(c, msgs)
      /\ stage' = [stage EXCEPT ![c] = IF Gap(s, p) THEN "gap" ELSE "idle"]
  BY DEF ServerAttach, Replay
<1>2. /\ UNCHANGED <<written, exited, created, token, drawn, bound, own, position, gone, up>>
      /\ UNCHANGED <<broken, conns, status, resume, showing, seen, missed>>
  BY DEF ServerAttach, tabVars
<1>3. StreamTyped /\ Buffers /\ Connections
  BY DEF StreamInv
<1>4. s \in Sessions /\ s # None /\ c <= conns /\ c \in Nat /\ conns \in Nat /\ p \in Nat
  <2>1. bound[c] # None /\ ~(c > conns) /\ position[c] \in Nat
    BY <1>1, <1>3 DEF Connections, ConnectionFits, Unserved, StreamTyped
  <2> QED
    BY <2>1, Basics
<1>5. w \in Nat /\ front[s] \in Nat \ {0} /\ d \in Nat
  BY <1>3, <1>4 DEF StreamTyped
<1>6. /\ f \in Nat \ {0} /\ f <= w + 1 /\ (f # front[s] => front[s] <= p /\ f <= p + 1)
      /\ front[s] > p => f = front[s]
  BY <1>4, FirstKeptIs
<1>7. /\ msgs \in Seq(ToTab) /\ n = w + 1 - f
      /\ \A i \in 1 .. n : Numbered(msgs[i]) /\ msgs[i].seq = f + i - 1
  <2>1. f \in Nat \ {0} /\ f <= Len(written[s]) + 1 /\ s \in Sessions
    BY <1>4, <1>6
  <2> HIDE DEF f, s
  <2> QED
    BY <2>1, ReplayIs
<1> HIDE DEF msgs, d, f, p, w, s
<1>8. n \in Nat
  BY <1>5, <1>6, <1>7
<1> HIDE DEF n
<1>9. /\ down' \in [Conns -> Seq(ToTab)]
      /\ \A e \in Conns : ~(e = c /\ Current(c)) => down'[e] = down[e]
      /\ Current(c) => /\ Len(down'[c]) = d + n
                       /\ \A i \in 1 .. d : down'[c][i] = down[c][i]
                       /\ \A i \in 1 .. n : down'[c][d + i] = msgs[i]
  BY <1>1, <1>4, <1>7, SendReaches DEF d, n
<1>10. /\ stage' \in [Conns -> {"idle", "attach", "gap"}] /\ stage'[c] = IF Gap(s, p) THEN "gap" ELSE "idle"
       /\ \A e \in Conns : e # c => stage'[e] = stage[e]
       /\ attached' \in [Sessions -> 0..conns] /\ attached'[s] = c
       /\ \A x \in Sessions : x # s => attached'[x] = attached[x]
       /\ front' \in [Sessions -> Nat \ {0}] /\ front'[s] = f /\ \A x \in Sessions : x # s => front'[x] = front[x]
  <2>1. stage \in [Conns -> {"idle", "attach", "gap"}] /\ attached \in [Sessions -> 0..conns] /\ front \in [Sessions -> Nat \ {0}]
    BY <1>3 DEF StreamTyped
  <2>2. c \in 0..conns
    BY <1>4
  <2>3. stage' \in [Conns -> {"idle", "attach", "gap"}] /\ stage'[c] = IF Gap(s, p) THEN "gap" ELSE "idle"
    BY <1>1, <2>1
  <2>4. attached' \in [Sessions -> 0..conns] /\ attached'[s] = c
    BY <1>1, <1>4, <2>1, <2>2
  <2>5. front' \in [Sessions -> Nat \ {0}] /\ front'[s] = f
    BY <1>1, <1>4, <1>6, <2>1
  <2> QED
    BY <1>1, <2>1, <2>3, <2>4, <2>5
<1>11. OldTokens /\ drawn' \in Nat /\ \A e \in Conns : UpKept(e)
  BY <1>2, Basics DEF OldTokens, UpKept
<1>12. Current(c) /\ down'[c] # <<>> => (down'[c][1] = down[c][1] /\ down[c] # <<>>) \/ Numbered(down'[c][1])
  <2> SUFFICES ASSUME Current(c), down'[c] # <<>>
               PROVE  (down'[c][1] = down[c][1] /\ down[c] # <<>>) \/ Numbered(down'[c][1])
    OBVIOUS
  <2>1. down'[c] \in Seq(ToTab) /\ down[c] \in Seq(ToTab) /\ Len(down'[c]) = d + n
    BY <1>3, <1>9 DEF StreamTyped
  <2>2. CASE d = 0
    <3>1. n # 0 /\ 1 \in 1 .. n /\ 0 + 1 = 1
      BY <1>8, <2>1, <2>2
    <3>2. down'[c][0 + 1] = msgs[1]
      BY <1>9, <2>2, <3>1
    <3> QED
      BY <1>7, <3>1, <3>2
  <2>3. CASE d # 0
    <3>1. 1 \in 1 .. d /\ down[c] # <<>>
      BY <1>5, <2>1, <2>3 DEF d
    <3> QED
      BY <1>9, <3>1
  <2> QED
    BY <2>2, <2>3
<1>13. Current(c) /\ down[c] # <<>> => down'[c] # <<>> /\ down'[c][1] = down[c][1]
  <2> SUFFICES ASSUME Current(c), down[c] # <<>> PROVE down'[c] # <<>> /\ down'[c][1] = down[c][1]
    OBVIOUS
  <2>1. down'[c] \in Seq(ToTab) /\ down[c] \in Seq(ToTab) /\ Len(down'[c]) = d + n
    BY <1>3, <1>9 DEF StreamTyped
  <2>2. 1 \in 1 .. d /\ d + n # 0
    BY <1>5, <1>8, <2>1 DEF d
  <2> QED
    BY <1>9, <2>1, <2>2
<1>14. Shown' = Shown /\ Resuming' \subseteq Resuming
  <2>1. conns # 0 => conns \in Conns
    BY Basics
  <2>2. /\ Coming' = Coming
        /\ Coming => down'[conns][1] = down[conns][1]
    BY <1>2, <1>9, <1>12, <1>13, <2>1 DEF Coming, Numbered
  <2>3. ASSUME NEW e \in Resuming' PROVE e \in Resuming
    <3>1. e \in Conns
      BY <1>2, Basics DEF Resuming
    <3> QED
      BY <1>2, <1>9, <1>12, <3>1 DEF Resuming, Numbered
  <2> QED
    BY <1>2, <2>2, <2>3 DEF Shown
<1>15. StreamTyped'
  <2>1. gone \in [Conns -> BOOLEAN]
    BY <1>3 DEF StreamTyped
  <2> QED
    BY <1>2, <1>3, <1>9, <1>10, <2>1 DEF StreamTyped
<1>16. Buffers'
  <2>1. ASSUME NEW x \in Sessions PROVE front'[x] <= Len(written'[x]) + 1
    BY <1>2, <1>3, <1>6, <1>10 DEF Buffers, w
  <2> QED
    BY <1>2, <1>3, <2>1 DEF Buffers
<1>17. TokensCounted'
  BY <1>2, <1>14, Basics, CountStays
<1>18. Connections'
  <2>1. ASSUME NEW e \in Conns PROVE ConnectionFits(e)'
    <3>1. ConnectionFits(e)
      BY <1>3 DEF Connections
    <3>2. CASE e = c
      <4>1. ~(e > conns)
        BY <1>4, <3>2
      <4>2. e # conns \/ broken[e] => down'[e] = <<>>
        BY <1>9, <3>1, <3>2 DEF Current, ConnectionFits
      <4>3. \A i \in 1 .. Len(up'[e]) : up'[e][i].type = "terminate"
        BY <1>2, <1>4, <3>1, <3>2 DEF ConnectionFits, Unserved, s
      <4>4. stage'[e] # "attach" /\ bound'[e] # None
        BY <1>2, <1>4, <1>10, <3>2 DEF s
      <4> QED
        BY <1>2, <3>1, <3>2, <4>1, <4>2, <4>3, <4>4 DEF ConnectionFits
    <3>3. CASE e # c
      <4>1. down'[e] = down[e] /\ stage'[e] = stage[e]
        BY <1>9, <1>10, <3>3
      <4>2. \A x \in Sessions : attached'[x] = e => attached[x] = e
        BY <1>10, <3>3
      <4> QED
        BY <1>2, <3>1, <4>1, <4>2 DEF ConnectionFits, Unserved
    <3> QED
      BY <3>2, <3>3
  <2>2. ASSUME NEW x \in Sessions, attached'[x] # None PROVE bound'[attached'[x]] = x
    BY <1>2, <1>3, <1>10, <2>2 DEF Connections, s
  <2> QED
    BY <2>1, <2>2 DEF Connections
<1>19. seen \in Nat /\ seen' = seen /\ seen' >= seen
  BY <1>2, Basics
<1>20. DroppedFits'
  <2>1. DroppedFits
    BY DEF StreamInv, Acknowledged
  <2>2. CASE Shown = s /\ f # front[s]
    <3>1. AttachFits(c)
      BY DEF StreamInv, Acknowledged
    <3>2. p <= seen
      BY <1>1, <2>2, <3>1 DEF AttachFits, s, p
    <3>3. f <= seen + 1
      BY <1>4, <1>6, <1>19, <2>2, <3>2
    <3> QED
      BY <1>2, <1>10, <1>14, <2>2, <3>3 DEF DroppedFits
  <2>3. CASE ~(Shown = s /\ f # front[s])
    <3>1. Shown # None => front'[Shown] = front[Shown]
      BY <1>10, <2>3, ShownIs
    <3> QED
      BY <1>2, <1>14, <2>1, <3>1 DEF DroppedFits
  <2> QED
    BY <2>2, <2>3
<1>21. Acknowledged'
  <2>1. ResumeFits'
    BY <1>2, <1>11, ResumeStays
  <2>2. ASSUME NEW e \in Conns PROVE RequestFits(e)' /\ AttachFits(e)'
    <3>1. up'[e] \in Seq(ToServer)
      BY <1>2, <1>3 DEF StreamTyped
    <3>2. stage'[e] = "attach" => stage[e] = "attach" /\ bound'[e] = bound[e] /\ position'[e] = position[e]
      BY <1>2, <1>10
    <3> QED
      BY <1>11, <1>14, <1>19, <3>1, <3>2, RequestStays, AttachStays
  <2> QED
    BY <1>20, <2>1, <2>2 DEF Acknowledged
<1>22. ASSUME NEW e \in Conns, Current(e)' PROVE ControlFits(e)' /\ StreamFits(e)' /\ GapFits(e)'
  <2>1. Current(e) /\ up'[e] \in Seq(ToServer)
    BY <1>2, <1>3, <1>22 DEF Current, StreamTyped
  <2>2. CASE e # c
    <3>1. down'[e] = down[e]
      BY <1>9, <2>2
    <3>2. /\ UNCHANGED <<written, showing, resume, seen, missed, conns>>
          /\ bound'[e] = bound[e] /\ stage'[e] = stage[e] /\ position'[e] = position[e]
          /\ UpKept(e) /\ \A x \in Sessions : attached'[x] = e => attached[x] = e
      BY <1>2, <1>10, <1>11, <2>2
    <3>3. created' \in Nat /\ created' >= created
      BY <1>2, Basics
    <3> QED
      BY <1>11, <2>1, <3>1, <3>2, <3>3, SpectatorKept
  <2>3. CASE e = c
    <3>0. Current(c) /\ ControlFits(c)
      BY <2>1, <2>3 DEF StreamInv
    <3>1. Shown = s /\ p = seen /\ \A i \in 1 .. d : down[c][i].type = "resumed"
      BY <1>1, <1>4, <3>0 DEF ControlFits, s, p, d
    <3>2. \A i \in 1 .. d : down'[c][i].type = "resumed"
      BY <1>9, <3>0, <3>1
    <3>3. \A i \in 1 .. Len(down'[c]) : i \in 1 .. d \/ (i - d \in 1 .. n /\ d + (i - d) = i /\ i \in Nat)
      BY <1>5, <1>8, <1>9, <3>0
    <3>4. \A i \in 1 .. n : Numbered(down'[c][d + i]) /\ down'[c][d + i].seq = f + i - 1
      BY <1>7, <1>9, <3>0
    <3>5. down'[c] # <<>> => HeadFits(c)'
      <4> SUFFICES ASSUME down'[c] # <<>> PROVE HeadFits(c)'
        OBVIOUS
      <4>1. CASE Numbered(down'[c][1])
        BY <4>1 DEF HeadFits, Numbered
      <4>2. CASE ~Numbered(down'[c][1])
        <5>1. down[c] # <<>> /\ down'[c][1] = down[c][1] /\ HeadFits(c)
          BY <1>12, <3>0, <4>2 DEF ControlFits
        <5>2. 1 \in 1 .. d
          BY <1>3, <5>1 DEF StreamTyped, d
        <5>3. down[c][1].type = "resumed"
          BY <3>1, <5>2
        <5> QED
          BY <1>2, <5>1, <5>3 DEF HeadFits, TokenOf
      <4> QED
        BY <4>1, <4>2
    <3>6. ASSUME NEW i \in 2 .. Len(down'[c]) PROVE down'[c][i].type \in {"output", "closed", "resume-gap"}
      <4>1. i \in 1 .. Len(down'[c])
        BY <1>5, <1>8, <1>9, <3>0
      <4>2. CASE i \in 1 .. d
        <5>1. i \in 2 .. Len(down[c])
          BY <1>5, <4>2 DEF d
        <5> QED
          BY <1>9, <3>0, <4>2, <5>1 DEF ControlFits
      <4>3. CASE i - d \in 1 .. n /\ d + (i - d) = i
        BY <3>4, <4>3 DEF Numbered
      <4> QED
        BY <3>3, <4>1, <4>2, <4>3
    <3>7. ControlFits(c)'
      <4>1. stage'[c] # "attach"
        BY <1>10
      <4> QED
        BY <1>2, <1>14, <3>0, <3>5, <3>6, <4>1 DEF ControlFits
    <3>8. \A i : i \in Stream(c)' <=> i \in Nat /\ i - d \in 1 .. n
      <4>1. ASSUME NEW i \in Stream(c)' PROVE i \in Nat /\ i - d \in 1 .. n
        <5>1. i \in 1 .. Len(down'[c]) /\ Numbered(down'[c][i])
          BY DEF Stream, Numbered
        <5>2. i \notin 1 .. d
          BY <3>2, <5>1 DEF Numbered
        <5> QED
          BY <3>3, <5>1, <5>2
      <4>2. ASSUME NEW i, i \in Nat, i - d \in 1 .. n PROVE i \in Stream(c)'
        <5>1. i \in 1 .. Len(down'[c]) /\ d + (i - d) = i
          BY <1>5, <1>8, <1>9, <3>0, <4>2
        <5>2. Numbered(down'[c][i])
          BY <3>4, <4>2, <5>1
        <5> QED
          BY <5>1, <5>2 DEF Stream, Numbered
      <4> QED
        BY <4>1, <4>2
    <3>9. \A i \in Stream(c)' : i \in Nat /\ i - d \in 1 .. n /\ down'[c][i].seq = f + (i - d) - 1
      <4>1. ASSUME NEW i \in Stream(c)' PROVE i \in Nat /\ i - d \in 1 .. n /\ down'[c][i].seq = f + (i - d) - 1
        <5>1. i \in Nat /\ i - d \in 1 .. n
          BY <3>8
        <5>2. d + (i - d) = i
          BY <1>5, <5>1
        <5> QED
          BY <3>4, <5>1, <5>2
      <4> QED
        BY <4>1
    <3>10. f <= w => d + 1 \in Stream(c)' /\ d + n \in Stream(c)'
      <4>1. f <= w => d + 1 \in Nat /\ d + n \in Nat /\ (d + 1) - d \in 1 .. n /\ (d + n) - d \in 1 .. n
        BY <1>5, <1>6, <1>7, <1>8
      <4> QED
        BY <3>8, <4>1
    <3>11. f <= seen + 1 \/ (f <= w /\ Bytes(written[s], f - 1) > BufferLimit)
      BY <1>2, <1>4, <1>10, <1>14, <1>20, <3>1 DEF DroppedFits, w
    <3>12. ASSUME NEW i \in Stream(c)', First(c, i)' PROVE i = d + 1 /\ down'[c][i].seq = f
      <4>1. i \in Nat /\ i - d \in 1 .. n /\ down'[c][i].seq = f + (i - d) - 1 /\ f <= w
        BY <1>5, <1>6, <1>7, <1>8, <3>9
      <4>2. i <= d + 1
        BY <3>10, <3>12, <4>1 DEF First
      <4>3. i = d + 1
        BY <1>5, <1>8, <4>1, <4>2
      <4>4. (d + 1) - d = 1 /\ f + 1 - 1 = f
        BY <1>5, <1>6
      <4> QED
        BY <4>1, <4>3, <4>4
    <3>13. StreamFits(c)'
      <4>1. ASSUME NEW i \in Stream(c)' PROVE Shown' # None /\ down'[c][i].seq <= w
        <5>1. Shown' # None
          BY <1>4, <1>14, <3>1
        <5>2. i - d \in 1 .. n /\ down'[c][i].seq = f + (i - d) - 1 /\ n = w + 1 - f /\ i \in Nat
          BY <1>7, <3>9
        <5>3. down'[c][i].seq <= w
          BY <1>5, <1>6, <5>2
        <5> QED
          BY <5>1, <5>3
      <4>2. ASSUME NEW i \in Stream(c)', NEW j \in Stream(c)', Follows(c, i, j)'
            PROVE  down'[c][j].seq = down'[c][i].seq + 1
        <5>1. /\ i \in Nat /\ i - d \in 1 .. n /\ down'[c][i].seq = f + (i - d) - 1
              /\ j \in Nat /\ j - d \in 1 .. n /\ down'[c][j].seq = f + (j - d) - 1
          BY <3>9
        <5>2. i < j /\ \A k \in Stream(c)' : k <= i \/ k >= j
          BY <4>2 DEF Follows
        <5>3. i + 1 \in Nat /\ (i + 1) - d \in 1 .. n
          BY <1>5, <1>8, <5>1, <5>2
        <5>4. i + 1 \in Stream(c)'
          BY <3>8, <5>3
        <5>5. j = i + 1
          BY <5>1, <5>2, <5>4
        <5> QED
          BY <1>5, <1>6, <5>1, <5>5
      <4>3. ASSUME NEW i \in Stream(c)', First(c, i)' PROVE Skippable(Shown, down[c][i].seq)'
        BY <1>2, <1>14, <3>1, <3>11, <3>12, <4>3 DEF Skippable
      <4>4. ASSUME NEW x \in Sessions, attached'[x] = c
            PROVE  /\ Stream(c)' = {} => Len(written'[x]) <= seen'
                   /\ \A i \in Stream(c)' : Last(c, i)' => down'[c][i].seq = Len(written'[x])
        <5>1. x = s
          <6>1. c # None
            BY Basics
          <6>2. bound'[c] = x
            BY <1>18, <4>4, <6>1 DEF Connections
          <6> QED
            BY <1>2, <6>2 DEF s
        <5>2. Stream(c)' = {} => w <= seen'
          BY <1>5, <1>6, <1>19, <3>10, <3>11
        <5>3. ASSUME NEW i \in Stream(c)', Last(c, i)' PROVE down'[c][i].seq = w
          <6>1. i \in Nat /\ i - d \in 1 .. n /\ down'[c][i].seq = f + (i - d) - 1 /\ f <= w
            BY <1>5, <1>6, <1>7, <1>8, <3>9
          <6>2. d + n <= i
            BY <3>10, <5>3, <6>1 DEF Last
          <6>3. i - d = n
            BY <1>5, <1>8, <6>1, <6>2
          <6> QED
            BY <1>5, <1>6, <1>7, <6>1, <6>3
        <5> QED
          BY <1>2, <5>1, <5>2, <5>3 DEF w
      <4> QED
        BY <1>2, <1>14, <3>1, <4>1, <4>2, <4>3, <4>4 DEF StreamFits, w
    <3>14. GapFits(c)'
      <4>1. \A i \in 1 .. Len(down'[c]) : down'[c][i].type # "resume-gap"
        <5>1. ASSUME NEW i \in 1 .. Len(down'[c]) PROVE down'[c][i].type # "resume-gap"
          <6>1. CASE i \in 1 .. d
            BY <3>2, <6>1
          <6>2. CASE i - d \in 1 .. n /\ d + (i - d) = i
            BY <3>4, <6>2 DEF Numbered
          <6> QED
            BY <3>3, <6>1, <6>2
        <5> QED
          BY <5>1
      <4>2. ASSUME stage'[c] = "gap" PROVE Lacks(c, Len(down[c]) + 1)'
        <5>1. p < w /\ p + 1 < front[s]
          BY <1>10, <4>2 DEF Gap, w
        <5>2. f = front[s] /\ f > seen + 1 /\ f <= w
          BY <1>4, <1>5, <1>6, <1>19, <3>1, <3>11, <5>1
        <5>3. d + 1 \in Stream(c)'
          BY <3>10, <5>2
        <5>4. \A k \in Stream(c)' : d + 1 <= k
          BY <1>5, <1>8, <3>9
        <5>5. PICK i \in Stream(c)' : i = d + 1
          BY <5>3
        <5>6. First(c, i)' /\ down'[c][i].seq > seen' + 1
          <6>1. First(c, i)'
            BY <5>4, <5>5 DEF First
          <6> QED
            BY <1>19, <3>12, <5>2, <6>1
        <5>7. i < Len(down'[c]) + 1
          BY <1>5, <1>8, <1>9, <3>0, <3>9, <5>5
        <5> QED
          BY <5>6, <5>7 DEF Lacks
      <4> QED
        BY <4>1, <4>2 DEF GapFits
    <3> QED
      BY <2>3, <3>7, <3>13, <3>14
  <2> QED
    BY <2>2, <2>3
<1> QED
  BY <1>15, <1>16, <1>17, <1>18, <1>21, <1>22 DEF StreamInv

-----------------------------------------------------------------------------
(* The sessions write *)

\* What may be skipped may be skipped when more was written.
LEMMA MoreToSkip ==
  ASSUME StreamInv, NEW s \in Sessions, NEW n \in Sizes,
         written' = [written EXCEPT ![s] = Append(written[s], n)], seen' = seen,
         NEW x \in Sessions, NEW k \in Nat \ {0}, k <= Len(written[x]) + 1
  PROVE  /\ k > 1 /\ Bytes(written[x], k - 1) > BufferLimit => Bytes(written'[x], k - 1) > BufferLimit
         /\ Skippable(x, k) => k <= seen + 1 \/ Bytes(written'[x], k - 1) > BufferLimit
<1>1. /\ written \in [Sessions -> Seq(Sizes)] /\ written[x] \in Seq(Nat) /\ n \in Nat /\ Len(written[x]) \in Nat
      /\ BufferLimit \in Nat /\ seen \in Nat
  <2>1. Sizes \subseteq Nat /\ BufferLimit \in Nat
    BY BoundsAssumption
  <2>2. written \in [Sessions -> Seq(Sizes)] /\ seen \in Nat
    BY DEF StreamInv, StreamTyped
  <2>3. written[x] \in Seq(Sizes)
    BY <2>2
  <2>4. written[x] \in Seq(Nat) /\ Len(written[x]) \in Nat
    BY <2>3, SizesAreNumbers
  <2> QED
    BY <2>1, <2>2, <2>4
<1>2. k > 1 => k - 1 \in 1 .. Len(written[x]) + 1
  BY <1>1
<1>3. CASE x # s
  BY <1>1, <1>3 DEF Skippable
<1>4. CASE x = s
  <2>1. written'[x] = Append(written[x], n)
    BY <1>1, <1>4
  <2>2. k > 1 => Bytes(written[x], k - 1) \in Int /\ Bytes(Append(written[x], n), k - 1) = Bytes(written[x], k - 1) + n
    <3> SUFFICES ASSUME k > 1
                 PROVE  /\ Bytes(written[x], k - 1) \in Int
                        /\ Bytes(Append(written[x], n), k - 1) = Bytes(written[x], k - 1) + n
      OBVIOUS
    <3>1. k - 1 \in 1 .. Len(written[x]) + 1 /\ Len(written[x]) + 1 \in k - 1 .. Len(written[x]) + 1
      BY <1>1, <1>2
    <3> QED
      BY <1>1, <3>1, BytesOfMore, BytesOfFewer
  <2>3. k > 1 /\ Bytes(written[x], k - 1) > BufferLimit => Bytes(written'[x], k - 1) > BufferLimit
    BY <1>1, <2>1, <2>2
  <2>4. ~(k > 1) => k <= seen + 1
    BY <1>1
  <2> QED
    BY <2>3, <2>4 DEF Skippable
<1> QED
  BY <1>3, <1>4

LEMMA EmitKeeps ==
  ASSUME StreamInv, NEW s \in Sessions, NEW last \in BOOLEAN, Emit(s, last),
         ~last => Len(written[s]) < MaxOutput
  PROVE  StreamInv'
<1> DEFINE c == attached[s]
           l == Len(written[s])
           m == [type |-> IF last THEN "closed" ELSE "output", seq |-> l + 1]
           d == Len(down[c])
<1>1. token[s] # None /\ ~exited[s] /\ exited' = [exited EXCEPT ![s] = last]
  BY DEF Emit
<1>2. PICK n \in Sizes :
        /\ written' = [written EXCEPT ![s] = Append(written[s], n)]
        /\ front' = [front EXCEPT ![s] = Trimmed(Append(written[s], n), front[s])]
        /\ Send(c, <<[type |-> IF last THEN "closed" ELSE "output", seq |-> Len(Append(written[s], n))]>>)
  BY DEF Emit
<1>3. /\ UNCHANGED <<created, attached, token, drawn, stage, bound, own, position, gone, up>>
      /\ UNCHANGED <<broken, conns, status, resume, showing, seen, missed>>
  BY DEF Emit, tableVars, serverVars, tabVars
<1>4. StreamTyped /\ Buffers /\ Connections
  BY DEF StreamInv
<1>5. /\ Sizes \subseteq Nat /\ written[s] \in Seq(Sizes) /\ written[s] \in Seq(Nat) /\ l \in Nat /\ n \in Nat
      /\ MaxOutput \in Nat /\ BufferLimit \in Nat /\ front[s] \in Nat \ {0} /\ front[s] <= l + 1
  <2>1. Sizes \subseteq Nat /\ MaxOutput \in Nat /\ BufferLimit \in Nat
    BY BoundsAssumption
  <2>2. written[s] \in Seq(Sizes) /\ front[s] \in Nat \ {0} /\ front[s] <= l + 1
    BY <1>4 DEF StreamTyped, Buffers
  <2>3. written[s] \in Seq(Nat) /\ l \in Nat
    BY <2>2, SizesAreNumbers
  <2>4. n \in Nat
    BY <2>1
  <2> QED
    BY <2>1, <2>2, <2>3, <2>4
<1>6. /\ Append(written[s], n) \in Seq(Sizes) /\ Append(written[s], n) \in Seq(Nat)
      /\ Len(Append(written[s], n)) = l + 1
  BY <1>5
<1>7. /\ written' \in [Sessions -> Seq(Sizes)] /\ written'[s] = Append(written[s], n) /\ Len(written'[s]) = l + 1
      /\ \A x \in Sessions : x # s => written'[x] = written[x]
  <2>1. written \in [Sessions -> Seq(Sizes)]
    BY <1>4 DEF StreamTyped
  <2> QED
    BY <1>2, <1>6, <2>1
<1>8. /\ Trimmed(Append(written[s], n), front[s]) \in front[s] .. l + 1
      /\ \/ Trimmed(Append(written[s], n), front[s]) = front[s]
         \/ Bytes(Append(written[s], n), Trimmed(Append(written[s], n), front[s]) - 1) > BufferLimit
  <2>1. front[s] \in 1 .. Len(Append(written[s], n))
    BY <1>5, <1>6
  <2> QED
    BY <1>6, <2>1, TrimmedIs
<1>9. /\ front' \in [Sessions -> Nat \ {0}] /\ front'[s] \in front[s] .. l + 1
      /\ front'[s] = front[s] \/ Bytes(written'[s], front'[s] - 1) > BufferLimit
      /\ \A x \in Sessions : x # s => front'[x] = front[x]
  <2>1. front \in [Sessions -> Nat \ {0}]
    BY <1>4 DEF StreamTyped
  <2>2. Trimmed(Append(written[s], n), front[s]) \in Nat \ {0}
    BY <1>5, <1>8
  <2> QED
    BY <1>2, <1>7, <1>8, <2>1, <2>2
<1>10. m \in ToTab /\ Numbered(m) /\ m.seq = l + 1 /\ <<m>> \in Seq(ToTab) /\ Len(<<m>>) = 1 /\ <<m>>[1] = m
  <2>1. l + 1 \in Nat \ {0}
    BY <1>5
  <2>2. m \in ToTab /\ Numbered(m) /\ m.seq = l + 1
    BY <2>1 DEF ToTab, Numbered
  <2> HIDE DEF m
  <2> QED
    BY <2>2
<1>11. Send(c, <<m>>)
  BY <1>2, <1>6
<1> HIDE DEF m
<1>12. \A x \in Sessions : Len(written[x]) \in Nat /\ Len(written'[x]) \in Nat /\ Len(written[x]) <= Len(written'[x])
  <2>1. \A x \in Sessions : Len(written[x]) \in Nat
    BY <1>4 DEF StreamTyped
  <2> QED
    BY <1>5, <1>7, <2>1
<1>13. c # None => c \in Conns /\ c <= conns /\ bound[c] = s /\ d \in Nat
  <2>1. c # None => c \in Conns /\ c <= conns /\ bound[c] = s
    BY <1>4, Basics DEF Connections
  <2>2. c \in Conns => Len(down[c]) \in Nat
    BY <1>4 DEF StreamTyped
  <2> QED
    BY <2>1, <2>2
<1> HIDE DEF c, l, d
<1>14. /\ down' \in [Conns -> Seq(ToTab)]
       /\ \A e \in Conns : ~(e = c /\ Current(e)) => down'[e] = down[e]
       /\ c # None /\ Current(c) => /\ Len(down'[c]) = d + 1
                                    /\ \A i \in 1 .. d : down'[c][i] = down[c][i]
                                    /\ down'[c][d + 1] = m
  <2>1. CASE c = None
    <3>1. down' = down
      BY <1>11, <2>1, SendNowhere
    <3> QED
      BY <1>4, <2>1, <3>1 DEF StreamTyped
  <2>2. CASE c # None
    <3>1. 1 \in 1 .. Len(<<m>>) /\ Len(<<m>>) = 1 /\ <<m>>[1] = m /\ <<m>> \in Seq(ToTab)
      BY <1>10
    <3>2. down' \in [Conns -> Seq(ToTab)] /\ \A e \in Conns : ~(e = c /\ Current(c)) => down'[e] = down[e]
      BY <1>11, <1>13, <2>2, <3>1, SendReaches
    <3>3. Current(c) => /\ Len(down'[c]) = d + Len(<<m>>)
                        /\ \A i \in 1 .. d : down'[c][i] = down[c][i]
                        /\ \A i \in 1 .. Len(<<m>>) : down'[c][d + i] = <<m>>[i]
      BY <1>11, <1>13, <2>2, <3>1, SendReaches DEF d
    <3>4. ASSUME NEW e \in Conns, ~(e = c /\ Current(e)) PROVE down'[e] = down[e]
      BY <3>2, <3>4
    <3> QED
      BY <3>1, <3>2, <3>3, <3>4
  <2> QED
    BY <2>1, <2>2
<1>15. OldTokens /\ drawn' \in Nat /\ \A e \in Conns : UpKept(e)
  BY <1>3, Basics DEF OldTokens, UpKept
<1>16. c # None /\ Current(c) =>
         /\ down'[c] # <<>>
         /\ down[c] # <<>> => down'[c][1] = down[c][1]
         /\ down[c] = <<>> => down'[c][1] = m
  <2> SUFFICES ASSUME c # None, Current(c)
               PROVE  /\ down'[c] # <<>>
                      /\ down[c] # <<>> => down'[c][1] = down[c][1]
                      /\ down[c] = <<>> => down'[c][1] = m
    OBVIOUS
  <2>1. down'[c] \in Seq(ToTab) /\ down[c] \in Seq(ToTab) /\ Len(down'[c]) = d + 1 /\ d \in Nat /\ d = Len(down[c])
    BY <1>4, <1>13, <1>14 DEF StreamTyped, d
  <2>2. down'[c] # <<>>
    BY <2>1
  <2>3. down[c] # <<>> => 1 \in 1 .. d
    BY <2>1
  <2>4. down[c] = <<>> => d = 0 /\ d + 1 = 1
    BY <2>1
  <2> QED
    BY <1>14, <2>2, <2>3, <2>4
<1>17. Shown' = Shown /\ Resuming' \subseteq Resuming
  <2>1. conns # 0 => conns \in Conns
    BY Basics
  <2>2. /\ Coming' = Coming
        /\ Coming => down'[conns][1] = down[conns][1]
    <3>1. CASE conns = c /\ c # None /\ Current(c)
      BY <1>3, <1>10, <1>16, <3>1 DEF Coming, Numbered
    <3>2. CASE ~(conns = c /\ c # None /\ Current(c))
      <4>1. conns # 0 => down'[conns] = down[conns]
        BY <1>14, <2>1, <3>2 DEF None
      <4> QED
        BY <1>3, <4>1 DEF Coming
    <3> QED
      BY <3>1, <3>2
  <2>3. ASSUME NEW e \in Resuming' PROVE e \in Resuming
    <3>1. e \in Conns /\ e # None
      BY <1>3, Basics DEF Resuming
    <3> QED
      BY <1>3, <1>10, <1>14, <1>16, <3>1 DEF Resuming, Numbered
  <2> QED
    BY <1>3, <2>2, <2>3 DEF Shown
<1>18. StreamTyped'
  <2>1. exited' \in [Sessions -> BOOLEAN] /\ gone \in [Conns -> BOOLEAN]
    BY <1>1, <1>4 DEF StreamTyped
  <2> QED
    BY <1>3, <1>4, <1>7, <1>9, <1>14, <2>1 DEF StreamTyped
<1>19. Buffers'
  <2>1. ASSUME NEW x \in Sessions
        PROVE  /\ front'[x] <= Len(written'[x]) + 1
               /\ Len(written'[x]) <= MaxOutput + (IF exited'[x] THEN 1 ELSE 0)
               /\ x > created' => written'[x] = <<>> /\ token'[x] = None
    <3>1. CASE x # s
      <4>1. exited'[x] = exited[x]
        BY <1>1, <1>4, <3>1 DEF StreamTyped
      <4> QED
        BY <1>3, <1>4, <1>7, <1>9, <3>1, <4>1 DEF Buffers
    <3>2. CASE x = s
      <4>1. exited'[x] = last
        BY <1>1, <1>4, <3>2 DEF StreamTyped
      <4>2. l <= MaxOutput + 0 /\ (~last => l < MaxOutput)
        BY <1>1, <1>4 DEF Buffers, l
      <4>3. Len(written'[x]) <= MaxOutput + (IF exited'[x] THEN 1 ELSE 0)
        BY <1>5, <1>7, <3>2, <4>1, <4>2
      <4>4. front'[x] <= Len(written'[x]) + 1
        BY <1>5, <1>7, <1>9, <3>2
      <4>5. ~(x > created)
        BY <1>1, <1>4, <3>2 DEF Buffers
      <4> QED
        BY <1>3, <4>3, <4>4, <4>5
    <3> QED
      BY <3>1, <3>2
  <2> QED
    BY <2>1 DEF Buffers
<1>20. TokensCounted'
  BY <1>3, <1>17, Basics, CountStays
<1>21. Connections'
  <2>1. ASSUME NEW e \in Conns PROVE ConnectionFits(e)'
    <3>1. ConnectionFits(e)
      BY <1>4 DEF Connections
    <3>2. CASE e = c
      <4>1. e # None /\ bound[e] = s /\ s # None
        BY <1>13, <3>2, Basics
      <4>2. e # conns \/ broken[e] => down'[e] = <<>>
        BY <1>14, <3>1, <3>2 DEF Current, ConnectionFits
      <4>3. \A i \in 1 .. Len(up'[e]) : up'[e][i].type = "terminate"
        BY <1>3, <3>1, <4>1 DEF ConnectionFits, Unserved
      <4> QED
        BY <1>3, <3>1, <4>2, <4>3 DEF ConnectionFits, Unserved
    <3>3. CASE e # c
      <4>1. down'[e] = down[e]
        BY <1>14, <3>3
      <4> QED
        BY <1>3, <3>1, <4>1 DEF ConnectionFits, Unserved
    <3> QED
      BY <3>2, <3>3
  <2> QED
    BY <1>3, <1>4, <2>1 DEF Connections
<1>22. seen \in Nat /\ seen' = seen /\ seen' >= seen
  BY <1>3, Basics
<1>23. \A x \in Sessions, k \in Nat \ {0} : k <= Len(written[x]) + 1 =>
          /\ k > 1 /\ Bytes(written[x], k - 1) > BufferLimit => Bytes(written'[x], k - 1) > BufferLimit
          /\ Skippable(x, k) => k <= seen + 1 \/ Bytes(written'[x], k - 1) > BufferLimit
  BY <1>2, <1>22, MoreToSkip
<1>24. Acknowledged'
  <2>1. ResumeFits'
    BY <1>3, <1>15, ResumeStays
  <2>2. ASSUME NEW e \in Conns PROVE RequestFits(e)' /\ AttachFits(e)'
    <3>1. up'[e] \in Seq(ToServer)
      BY <1>3, <1>4 DEF StreamTyped
    <3>2. stage'[e] = "attach" => stage[e] = "attach" /\ bound'[e] = bound[e] /\ position'[e] = position[e]
      BY <1>3
    <3> QED
      BY <1>15, <1>17, <1>22, <3>1, <3>2, RequestStays, AttachStays
  <2>3. DroppedFits'
    <3> SUFFICES ASSUME Shown # None
                 PROVE  \/ front'[Shown] <= seen' + 1
                        \/ front'[Shown] <= Len(written'[Shown]) /\ Bytes(written'[Shown], front'[Shown] - 1) > BufferLimit
      BY <1>17 DEF DroppedFits
    <3>1. Shown \in Sessions /\ front[Shown] \in Nat \ {0} /\ front[Shown] <= Len(written[Shown]) + 1
      BY <1>4, ShownIs DEF Buffers
    <3>2. \/ front[Shown] <= seen + 1
          \/ front[Shown] <= Len(written[Shown]) /\ Bytes(written[Shown], front[Shown] - 1) > BufferLimit
      BY DEF StreamInv, Acknowledged, DroppedFits
    <3>3. CASE front'[Shown] = front[Shown]
      <4>1. front[Shown] > 1 \/ front[Shown] <= seen + 1
        BY <1>22, <3>1
      <4>2. front[Shown] <= Len(written[Shown]) => front[Shown] <= Len(written'[Shown])
        BY <1>12, <3>1
      <4> QED
        BY <1>22, <1>23, <3>1, <3>2, <3>3, <4>1, <4>2
    <3>4. CASE front'[Shown] # front[Shown]
      <4>1. Shown = s
        BY <1>9, <3>1, <3>4
      <4>2. front'[s] <= Len(written'[s])
        BY <1>5, <1>7, <1>9
      <4>3. Bytes(written'[s], front'[s] - 1) > BufferLimit
        BY <1>9, <3>4, <4>1
      <4> QED
        BY <4>1, <4>2, <4>3
    <3> QED
      BY <3>3, <3>4
  <2> QED
    BY <2>1, <2>2, <2>3 DEF Acknowledged
<1>25. ASSUME NEW e \in Conns, Current(e)' PROVE ControlFits(e)' /\ StreamFits(e)' /\ GapFits(e)'
  <2>0. Current(e) /\ ControlFits(e) /\ StreamFits(e) /\ GapFits(e) /\ ConnectionFits(e)
    BY <1>3, <1>4, <1>25 DEF Current, StreamInv, Connections
  <2>1. \A i \in Stream(e) : i \in 1 .. Len(down[e]) /\ i \in Nat /\ Numbered(down[e][i]) /\ down[e][i].seq \in Nat \ {0}
    <3>1. ASSUME NEW i \in Stream(e)
          PROVE  i \in 1 .. Len(down[e]) /\ i \in Nat /\ Numbered(down[e][i]) /\ down[e][i].seq \in Nat \ {0}
      <4>1. i \in 1 .. Len(down[e]) /\ Numbered(down[e][i])
        BY DEF Stream
      <4>2. down[e] \in Seq(ToTab)
        BY <1>4 DEF StreamTyped
      <4>3. down[e][i] \in ToTab /\ i \in Nat
        BY <4>1, <4>2
      <4> QED
        BY <4>1, <4>3 DEF ToTab, Numbered
    <3> QED
      BY <3>1
  <2>2. \A i \in Stream(e) : Shown \in Sessions /\ down[e][i].seq <= Len(written[Shown]) /\ down[e][i].seq <= Len(written'[Shown])
    <3>1. ASSUME NEW i \in Stream(e)
          PROVE  Shown \in Sessions /\ down[e][i].seq <= Len(written[Shown]) /\ down[e][i].seq <= Len(written'[Shown])
      <4>1. Shown # None /\ down[e][i].seq <= Len(written[Shown])
        BY <2>0 DEF StreamFits
      <4>2. Shown \in Sessions
        BY <4>1, ShownIs
      <4> QED
        BY <1>12, <2>1, <4>1, <4>2
    <3> QED
      BY <3>1
  <2>3. ASSUME NEW i \in Stream(e), First(e, i)
        PROVE  down[e][i].seq <= seen + 1 \/ Bytes(written'[Shown], down[e][i].seq - 1) > BufferLimit
    <3>1. Skippable(Shown, down[e][i].seq)
      BY <2>0, <2>3 DEF StreamFits
    <3>2. Shown \in Sessions /\ down[e][i].seq \in Nat \ {0} /\ down[e][i].seq <= Len(written[Shown]) + 1
      BY <1>12, <2>1, <2>2
    <3> QED
      BY <1>23, <3>1, <3>2
  <2>4. CASE e # c
    <3>1. down'[e] = down[e]
      BY <1>14, <2>4
    <3>2. Stream(e)' = Stream(e)
      BY <3>1 DEF Stream, Numbered
    <3>3. ControlFits(e)'
      BY <1>3, <1>17, <2>0, <3>1 DEF ControlFits, HeadFits, Unserved, TokenOf
    <3>4. StreamFits(e)'
      <4>1. \A x \in Sessions : attached[x] = e => written'[x] = written[x]
        BY <1>7, <2>4 DEF c
      <4>2. \A i \in Stream(e) : First(e, i)' <=> First(e, i)
        BY <3>2 DEF First
      <4>3. \A i \in Stream(e) : Last(e, i)' <=> Last(e, i)
        BY <3>2 DEF Last
      <4>4. \A i, j \in Stream(e) : Follows(e, i, j)' <=> Follows(e, i, j)
        BY <3>2 DEF Follows
      <4>5. \A i \in Stream(e) : Shown' # None /\ down'[e][i].seq <= Len(written'[Shown'])
        BY <1>17, <2>0, <2>2, <3>1 DEF StreamFits
      <4>6. ASSUME NEW i \in Stream(e), First(e, i)' PROVE Skippable(Shown, down[e][i].seq)'
        BY <1>3, <1>17, <2>3, <3>1, <4>2, <4>6 DEF Skippable
      <4> QED
        BY <1>3, <2>0, <3>1, <3>2, <4>1, <4>3, <4>4, <4>5, <4>6 DEF StreamFits
    <3>5. GapFits(e)'
      BY <1>3, <2>0, <3>1, <3>2 DEF GapFits, Lacks, First
    <3> QED
      BY <3>3, <3>4, <3>5
  <2>5. CASE e = c
    <3>0. /\ e # None /\ bound[e] = s /\ s # None /\ d = Len(down[e]) /\ d \in Nat /\ Shown = s /\ stage[e] # "attach"
          /\ Len(down'[e]) = d + 1 /\ down'[e][d + 1] = m /\ \A i \in 1 .. d : down'[e][i] = down[e][i]
          /\ attached[s] = e
      <4>1. e # None /\ s # None /\ attached[s] = e
        BY <2>5, Basics DEF c
      <4>2. bound[e] = s /\ d = Len(down[e]) /\ d \in Nat
        BY <1>13, <2>5, <4>1 DEF d
      <4>3. Shown = s
        BY <2>0, <4>1, <4>2 DEF ControlFits
      <4>4. stage[e] # "attach"
        BY <2>0, <4>1 DEF ConnectionFits
      <4> QED
        BY <1>14, <2>0, <2>5, <4>1, <4>2, <4>3, <4>4
    <3>1. HeadFits(e)'
      <4>1. CASE down[e] = <<>>
        BY <1>10, <1>16, <2>0, <2>5, <3>0, <4>1 DEF HeadFits, Numbered
      <4>2. CASE down[e] # <<>>
        <5>1. HeadFits(e) /\ down'[e][1] = down[e][1]
          BY <1>16, <2>0, <2>5, <3>0, <4>2 DEF ControlFits
        <5>2. down[e][1].type \notin {"ready", "resume-failed"}
          BY <3>0, <5>1 DEF HeadFits, Unserved
        <5> QED
          BY <1>3, <5>1, <5>2 DEF HeadFits, TokenOf
      <4> QED
        BY <4>1, <4>2
    <3>2. ASSUME NEW i \in 2 .. Len(down'[e]) PROVE down'[e][i].type \in {"output", "closed", "resume-gap"}
      <4>1. CASE i = d + 1
        BY <1>10, <3>0, <4>1 DEF Numbered
      <4>2. CASE i # d + 1
        <5>1. i \in 1 .. d /\ i \in 2 .. Len(down[e])
          BY <3>0, <4>2
        <5> QED
          BY <2>0, <3>0, <5>1 DEF ControlFits
      <4> QED
        BY <4>1, <4>2
    <3>3. ControlFits(e)'
      BY <1>3, <1>17, <2>0, <3>0, <3>1, <3>2 DEF ControlFits
    <3>4. /\ d + 1 \in Stream(e)' /\ Stream(e) \subseteq Stream(e)'
          /\ \A i \in Stream(e)' : i = d + 1 \/ i \in Stream(e)
      <4>1. Stream(e)' = Stream(e) \cup {Len(down[e]) + i : i \in {k \in 1 .. Len(<<m>>) : Numbered(<<m>>[k])}}
        BY <1>10, <1>11, <2>0, <2>5, StreamGrows
      <4>2. {k \in 1 .. Len(<<m>>) : Numbered(<<m>>[k])} = {1}
        <5>1. 1 .. 1 = {1}
          OBVIOUS
        <5> QED
          BY <1>10, <5>1
      <4>3. {Len(down[e]) + i : i \in {1}} = {d + 1}
        BY <3>0
      <4> QED
        BY <4>1, <4>2, <4>3
    <3>5. \A i \in Stream(e) : i \in Nat /\ i <= d /\ i < d + 1 /\ down'[e][i] = down[e][i]
      BY <2>1, <3>0
    <3>6. ASSUME NEW i \in Stream(e)', First(e, i)', i # d + 1 PROVE First(e, i) /\ i \in Stream(e)
      BY <3>4, <3>6 DEF First
    <3>7. ASSUME NEW i \in Stream(e), First(e, i) PROVE First(e, i)'
      <4>1. \A k \in Stream(e)' : i <= k
        BY <3>0, <3>4, <3>5, <3>7 DEF First
      <4> QED
        BY <3>4, <4>1 DEF First
    <3>8. StreamFits(e)'
      <4>1. \A i \in Stream(e)' : Shown' # None /\ down'[e][i].seq <= Len(written'[Shown'])
        <5>1. m.seq <= Len(written'[s])
          BY <1>5, <1>7, <1>10
        <5> QED
          BY <1>17, <2>2, <3>0, <3>4, <3>5, <5>1
      <4>2. ASSUME NEW i \in Stream(e)', NEW j \in Stream(e)', Follows(e, i, j)'
            PROVE  down'[e][j].seq = down'[e][i].seq + 1
        <5>0. i < j /\ \A k \in Stream(e)' : k <= i \/ k >= j
          BY <4>2 DEF Follows
        <5>1. i \in Stream(e)
          <6>1. j \in Nat /\ j <= d + 1
            BY <3>0, <3>4, <3>5
          <6>2. i # d + 1
            BY <3>0, <5>0, <6>1
          <6> QED
            BY <3>4, <6>2
        <5>2. CASE j = d + 1
          <6>1. Last(e, i)
            <7>1. ASSUME NEW k \in Stream(e) PROVE k <= i
              <8>1. k <= i \/ k >= j
                BY <3>4, <5>0
              <8> QED
                BY <3>0, <3>5, <5>1, <5>2, <8>1
            <7> QED
              BY <5>1, <7>1 DEF Last
          <6>2. down[e][i].seq = l
            BY <2>0, <3>0, <5>1, <6>1 DEF StreamFits, l
          <6> QED
            BY <1>10, <3>0, <3>5, <5>1, <5>2, <6>2
        <5>3. CASE j # d + 1
          <6>1. j \in Stream(e)
            BY <3>4, <5>3
          <6>2. Follows(e, i, j)
            BY <3>4, <5>0 DEF Follows
          <6>3. down[e][j].seq = down[e][i].seq + 1
            BY <2>0, <5>1, <6>1, <6>2 DEF StreamFits
          <6> QED
            BY <3>5, <5>1, <6>1, <6>3
        <5> QED
          BY <5>2, <5>3
      <4>3. ASSUME NEW i \in Stream(e)', First(e, i)' PROVE Skippable(Shown, down[e][i].seq)'
        <5>1. CASE i # d + 1
          <6>1. First(e, i) /\ i \in Stream(e)
            BY <3>6, <4>3, <5>1
          <6> QED
            BY <1>3, <1>17, <2>3, <3>5, <6>1 DEF Skippable
        <5>2. CASE i = d + 1
          <6>1. Stream(e) = {}
            <7>1. ASSUME NEW k \in Stream(e) PROVE FALSE
              <8>1. i <= k
                BY <3>4, <4>3 DEF First
              <8> QED
                BY <3>0, <3>5, <5>2, <8>1
            <7> QED
              BY <7>1
          <6>2. l <= seen
            BY <2>0, <3>0, <6>1 DEF StreamFits, l
          <6>3. down'[e][i].seq <= seen' + 1
            BY <1>5, <1>10, <1>22, <3>0, <5>2, <6>2
          <6> QED
            BY <6>3 DEF Skippable
        <5> QED
          BY <5>1, <5>2
      <4>4. ASSUME NEW x \in Sessions, attached'[x] = e
            PROVE  /\ Stream(e)' # {}
                   /\ \A i \in Stream(e)' : Last(e, i)' => down'[e][i].seq = Len(written'[x])
        <5>1. x = s
          BY <1>3, <1>4, <3>0, <4>4 DEF Connections
        <5>2. ASSUME NEW i \in Stream(e)', Last(e, i)' PROVE i = d + 1
          <6>1. d + 1 <= i
            BY <3>4, <5>2 DEF Last
          <6> QED
            BY <3>0, <3>4, <3>5, <6>1
        <5> QED
          BY <1>7, <1>10, <3>0, <3>4, <5>1, <5>2
      <4> QED
        BY <4>1, <4>2, <4>3, <4>4 DEF StreamFits
    <3>9. ASSUME NEW k \in Nat, k <= d + 1, Lacks(e, k) PROVE \A j \in Nat : j >= k => Lacks(e, j)'
      <4>1. CASE missed
        BY <1>3, <4>1 DEF Lacks
      <4>2. CASE ~missed
        <5>1. PICK i \in Stream(e) : First(e, i) /\ i < k /\ down[e][i].seq > seen + 1
          BY <3>9, <4>2 DEF Lacks
        <5>2. First(e, i)' /\ i \in Stream(e)' /\ down'[e][i].seq > seen' + 1 /\ i \in Nat
          BY <1>3, <3>4, <3>5, <3>7, <5>1
        <5> QED
          BY <5>1, <5>2 DEF Lacks
      <4> QED
        BY <4>1, <4>2
    <3>10. GapFits(e)'
      <4>1. stage'[e] = "gap" => Lacks(e, Len(down[e]) + 1)'
        <5>1. stage[e] = "gap" => Lacks(e, d + 1)
          BY <2>0, <3>0 DEF GapFits
        <5>2. d + 1 \in Nat /\ d + 1 <= d + 1 /\ Len(down'[e]) + 1 \in Nat /\ Len(down'[e]) + 1 >= d + 1
          BY <3>0
        <5>3. stage[e] = "gap" => missed' \/ \E i \in Stream(e)' : First(e, i)' /\ i < Len(down'[e]) + 1 /\ down'[e][i].seq > seen' + 1
          BY <3>9, <5>1, <5>2 DEF Lacks
        <5> QED
          BY <1>3, <5>3 DEF Lacks
      <4>2. ASSUME NEW i \in 1 .. Len(down'[e]), down'[e][i].type = "resume-gap"
            PROVE  i \in 1 .. d /\ down[e][i].type = "resume-gap" /\ i \in Nat
        <5>1. i # d + 1
          BY <1>10, <3>0, <4>2 DEF Numbered
        <5>2. i \in 1 .. d
          BY <3>0, <5>1
        <5> QED
          BY <3>0, <4>2, <5>2
      <4>3. ASSUME NEW i \in 1 .. Len(down'[e]), down'[e][i].type = "resume-gap"
            PROVE  stage'[e] # "gap" /\ Lacks(e, i)'
        <5>1. i \in 1 .. d /\ down[e][i].type = "resume-gap" /\ i \in Nat
          BY <4>2, <4>3
        <5>2. stage[e] # "gap" /\ Lacks(e, i)
          BY <2>0, <3>0, <5>1 DEF GapFits
        <5>3. i <= d + 1 /\ i >= i
          BY <3>0, <5>1
        <5> QED
          BY <1>3, <3>9, <5>1, <5>2, <5>3
      <4>4. \A i, k \in 1 .. Len(down'[e]) : down'[e][i].type = "resume-gap" /\ down'[e][k].type = "resume-gap" => k = i
        BY <2>0, <3>0, <4>2 DEF GapFits
      <4> QED
        BY <4>1, <4>3, <4>4 DEF GapFits
    <3> QED
      BY <3>3, <3>8, <3>10
  <2> QED
    BY <2>4, <2>5
<1> QED
  BY <1>18, <1>19, <1>20, <1>21, <1>24, <1>25 DEF StreamInv

-----------------------------------------------------------------------------
(* The tab opens and loses connections *)

LEMMA TabOpensKeeps ==
  ASSUME StreamInv, TabOpens
  PROVE  StreamInv'
<1> DEFINE b == conns + 1
<1>1. /\ conns < MaxConns /\ conns' = b /\ status' = "live"
      /\ broken' = [c \in Conns |-> broken[c] \/ c = conns]
      /\ down' = [c \in Conns |-> IF c = b THEN <<[type |-> "ready"]>> ELSE <<>>]
      /\ resume = None => seen' = 0 /\ showing' = None /\ missed' = FALSE
      /\ resume # None => UNCHANGED <<seen, showing, missed>>
  BY DEF TabOpens
<1>2. /\ UNCHANGED <<written, front, exited, created, attached, token, drawn, stage, bound, own, position, gone>>
      /\ UNCHANGED <<up, resume>>
  BY DEF TabOpens, sessionVars, tableVars, serverVars
<1>3. StreamTyped /\ Buffers /\ Connections
  BY DEF StreamInv
<1>4. /\ b \in Conns /\ b \in Nat /\ conns \in Nat /\ b # 0 /\ b <= MaxConns
      /\ \A c \in Conns : c \in Nat /\ c # None
  BY <1>1, Basics DEF Conns
<1>5. /\ [type |-> "ready"] \in ToTab /\ down' \in [Conns -> Seq(ToTab)] /\ broken' \in [Conns -> BOOLEAN]
      /\ down'[b] = <<[type |-> "ready"]>> /\ down'[b] # <<>> /\ Len(down'[b]) = 1 /\ down'[b][1].type = "ready"
      /\ \A c \in Conns : c # b => down'[c] = <<>>
      /\ \A c \in Conns : broken'[c] <=> (broken[c] \/ c = conns)
  <2>1. [type |-> "ready"] \in ToTab
    BY DEF ToTab
  <2>2. <<[type |-> "ready"]>> \in Seq(ToTab) /\ <<>> \in Seq(ToTab)
    BY <2>1
  <2>3. down' \in [Conns -> Seq(ToTab)]
    BY <1>1, <2>2
  <2>4. broken' \in [Conns -> BOOLEAN]
    BY <1>1
  <2>5. down'[b] = <<[type |-> "ready"]>>
    BY <1>1, <1>4
  <2>6. \A c \in Conns : c # b => down'[c] = <<>>
    BY <1>1
  <2>7. \A c \in Conns : broken'[c] <=> (broken[c] \/ c = conns)
    BY <1>1
  <2> QED
    BY <2>1, <2>3, <2>4, <2>5, <2>6, <2>7
<1>6. /\ broken[b] = FALSE /\ Unserved(b) /\ up[b] = <<>> /\ ~broken'[b]
  <2>1. b > conns /\ b # conns
    BY <1>4
  <2>2. ConnectionFits(b) /\ broken[b] \in BOOLEAN
    BY <1>3, <1>4 DEF Connections, StreamTyped
  <2> QED
    BY <1>4, <1>5, <2>1, <2>2 DEF ConnectionFits
<1> HIDE DEF b
<1>7. ~Coming'
  BY <1>1, <1>5 DEF Coming
<1>8. resume = None => Shown' = None
  BY <1>1, <1>7 DEF Shown
<1>9. resume # None => Shown' = Shown /\ Shown = showing /\ showing # None
  <2>1. ResumeFits
    BY DEF StreamInv, Acknowledged
  <2> QED
    BY <1>1, <1>7, <2>1 DEF Shown, ResumeFits
<1>10. OldTokens /\ drawn' \in Nat /\ \A e \in Conns : UpKept(e)
  BY <1>2, Basics DEF OldTokens, UpKept
<1>11. StreamTyped'
  <2>1. conns' \in 0..MaxConns /\ attached \in [Sessions -> 0..conns']
    <3>1. conns' \in 0..MaxConns
      BY <1>1, <1>4
    <3>2. attached \in [Sessions -> 0..conns]
      BY <1>3 DEF StreamTyped
    <3>3. 0..conns \subseteq 0..conns'
      BY <1>1, <1>4 DEF b
    <3> QED
      BY <3>1, <3>2, <3>3
  <2>2. seen' \in Nat /\ showing' \in 0..created /\ missed' \in BOOLEAN
    <3>1. seen \in Nat /\ showing \in 0..created /\ missed \in BOOLEAN /\ 0 \in 0..created
      BY <1>3, Basics DEF StreamTyped
    <3>2. CASE resume = None
      <4>1. seen' = 0 /\ showing' = None /\ missed' = FALSE
        BY <1>1, <3>2
      <4>2. seen' \in Nat /\ showing' \in 0..created
        BY <3>1, <4>1 DEF None
      <4>3. missed' \in BOOLEAN
        BY <4>1
      <4> QED
        BY <4>2, <4>3
    <3>3. CASE resume # None
      <4>1. seen' = seen /\ showing' = showing /\ missed' = missed
        BY <1>1, <3>3
      <4> QED
        BY <3>1, <4>1
    <3> QED
      BY <3>2, <3>3
  <2>3. gone \in [Conns -> BOOLEAN]
    BY <1>3 DEF StreamTyped
  <2> QED
    BY <1>1, <1>2, <1>3, <1>5, <2>1, <2>2, <2>3 DEF StreamTyped
<1>12. Buffers'
  BY <1>2, <1>3 DEF Buffers
<1>13. TokensCounted'
  <2>1. Resuming' \subseteq Resuming \cup {b}
    <3>1. ASSUME NEW e \in Resuming', e # b PROVE e \in Resuming
      <4>1. e \in 1 .. conns /\ e \in Conns
        <5>1. e \in 1 .. conns'
          BY DEF Resuming
        <5> QED
          BY <1>1, <1>4, <3>1, <5>1, Basics DEF b
      <4>2. down'[e] = <<>>
        BY <1>5, <3>1, <4>1
      <4> QED
        BY <1>2, <4>1, <4>2 DEF Resuming
    <3> QED
      BY <3>1
  <2>2. IsFiniteSet(Resuming)
    <3>1. IsFiniteSet(1 .. conns)
      BY Basics, FS_Interval
    <3> QED
      BY <3>1, FS_Subset DEF Resuming
  <2>3. IsFiniteSet(Resuming \cup {b}) /\ Cardinality(Resuming \cup {b}) <= Cardinality(Resuming) + 1
    <3>1. Cardinality(Resuming) \in Nat
      BY <2>2, FS_CardinalityType
    <3>2. /\ IsFiniteSet(Resuming \cup {b})
          /\ \/ Cardinality(Resuming \cup {b}) = Cardinality(Resuming)
             \/ Cardinality(Resuming \cup {b}) = Cardinality(Resuming) + 1
      BY <2>2, FS_AddElement
    <3> QED
      BY <3>1, <3>2
  <2>4. Cardinality(Resuming') <= Cardinality(Resuming \cup {b}) /\ IsFiniteSet(Resuming')
    BY <2>1, <2>3, FS_Subset
  <2>5. Cardinality(Resuming) \in Nat /\ Cardinality(Resuming') \in Nat /\ Cardinality(Resuming \cup {b}) \in Nat
    BY <2>2, <2>3, <2>4, FS_CardinalityType
  <2>6. drawn + Cardinality(Resuming) <= created + conns /\ drawn \in Nat /\ created \in Nat
    BY Basics DEF StreamInv, TokensCounted
  <2>7. drawn + Cardinality(Resuming') <= created + (conns + 1)
    BY <1>4, <2>3, <2>4, <2>5, <2>6
  <2> QED
    BY <1>1, <1>2, <2>7 DEF TokensCounted, b
<1>14. Connections'
  <2>1. ASSUME NEW e \in Conns PROVE ConnectionFits(e)'
    <3>1. ConnectionFits(e) /\ e \in Nat
      BY <1>3, <1>4 DEF Connections
    <3>2. CASE e = b
      <4>1. ~(e < conns') /\ ~(e > conns') /\ e = conns' /\ ~broken'[e]
        BY <1>1, <1>4, <1>6, <3>2
      <4>2. \A i \in 1 .. Len(up'[e]) : FALSE
        BY <1>2, <1>6, <3>2
      <4> QED
        BY <1>2, <3>1, <4>1, <4>2 DEF ConnectionFits
    <3>3. CASE e # b
      <4>1. down'[e] = <<>>
        BY <1>5, <3>3
      <4>2. e < conns' => e < conns \/ e = conns
        BY <1>1, <1>4, <3>1 DEF b
      <4>3. e > conns' => e > conns /\ e # conns
        BY <1>1, <1>4, <3>1 DEF b
      <4> QED
        BY <1>2, <1>5, <3>1, <4>1, <4>2, <4>3 DEF ConnectionFits, Unserved
    <3> QED
      BY <3>2, <3>3
  <2> QED
    BY <1>2, <1>3, <2>1 DEF Connections
<1>15. Acknowledged'
  <2>1. CASE resume = None
    <3>1. ASSUME NEW e \in Conns PROVE RequestFits(e)' /\ AttachFits(e)'
      <4>1. RequestFits(e) /\ ConnectionFits(e)
        BY <1>3 DEF StreamInv, Acknowledged, Connections
      <4>2. \A s \in Sessions : s # None
        BY Basics
      <4> QED
        BY <1>2, <1>8, <2>1, <4>1, <4>2 DEF RequestFits, AttachFits, ConnectionFits
    <3> QED
      BY <1>2, <1>8, <2>1, <3>1 DEF Acknowledged, ResumeFits, DroppedFits
  <2>2. CASE resume # None
    <3>1. up' \in [Conns -> Seq(ToServer)]
      BY <1>2, <1>3 DEF StreamTyped
    <3>2. UNCHANGED <<written, front, showing, resume, seen>>
      BY <1>1, <1>2, <2>2
    <3> QED
      BY <1>2, <1>9, <1>10, <2>2, <3>1, <3>2, AcknowledgedStays
  <2> QED
    BY <2>1, <2>2
<1>16. ASSUME NEW e \in Conns, Current(e)' PROVE ControlFits(e)' /\ StreamFits(e)' /\ GapFits(e)'
  <2>1. e = b
    BY <1>1, <1>16 DEF Current
  <2>2. Len(down'[e]) = 1 /\ down'[e][1].type = "ready" /\ up'[e] = <<>> /\ Unserved(e)'
    BY <1>2, <1>5, <1>6, <2>1 DEF Unserved
  <2>3. HeadFits(e)'
    BY <1>1, <1>2, <2>2 DEF HeadFits
  <2>4. 2 .. Len(down'[e]) = {} /\ 1 .. Len(down'[e]) = {1}
    BY <2>2
  <2>5. ControlFits(e)'
    BY <2>2, <2>3, <2>4 DEF ControlFits, Unserved
  <2>6. Stream(e)' = {}
    BY <2>2, <2>4 DEF Stream, Numbered
  <2>7. ASSUME NEW x \in Sessions, attached'[x] = e PROVE FALSE
    BY <1>2, <1>3, <1>6, <2>1, <2>7, Basics DEF Connections, Unserved
  <2>8. StreamFits(e)'
    BY <2>6, <2>7 DEF StreamFits
  <2>9. GapFits(e)'
    BY <2>2, <2>4 DEF GapFits, Unserved
  <2> QED
    BY <2>5, <2>8, <2>9
<1> QED
  BY <1>11, <1>12, <1>13, <1>14, <1>15, <1>16 DEF StreamInv

LEMMA TabLosesKeeps ==
  ASSUME StreamInv, TabLoses
  PROVE  StreamInv'
<1>1. /\ conns # 0 /\ ~broken[conns]
      /\ broken' = [broken EXCEPT ![conns] = TRUE]
      /\ down' = [down EXCEPT ![conns] = <<>>]
      /\ status' = IF status = "live" THEN "waiting" ELSE status
  BY DEF TabLoses
<1>2. /\ UNCHANGED <<written, front, exited, created, attached, token, drawn, stage, bound, own, position, gone>>
      /\ UNCHANGED <<up, conns, resume, showing, seen, missed>>
  BY DEF TabLoses, sessionVars, tableVars, serverVars
<1>3. StreamTyped /\ Buffers /\ Connections
  BY DEF StreamInv
<1>4. conns \in Conns
  BY <1>1, Basics
<1>5. /\ broken' \in [Conns -> BOOLEAN] /\ broken'[conns] = TRUE
      /\ \A e \in Conns : e # conns => broken'[e] = broken[e]
      /\ down' \in [Conns -> Seq(ToTab)] /\ down'[conns] = <<>>
      /\ \A e \in Conns : e # conns => down'[e] = down[e]
  <2>1. <<>> \in Seq(ToTab)
    OBVIOUS
  <2>2. broken \in [Conns -> BOOLEAN] /\ down \in [Conns -> Seq(ToTab)]
    BY <1>3 DEF StreamTyped
  <2>3. down' \in [Conns -> Seq(ToTab)]
    BY <1>1, <2>1, <2>2
  <2>4. broken' \in [Conns -> BOOLEAN]
    BY <1>1, <2>2
  <2> QED
    BY <1>1, <1>4, <2>2, <2>3, <2>4
<1>6. ~Coming'
  BY <1>2, <1>5 DEF Coming
<1>7. showing # None => Shown' = Shown
  BY <1>2 DEF Shown
<1>8. showing = None => Shown' = None
  BY <1>2, <1>6 DEF Shown
<1>9. OldTokens /\ drawn' \in Nat /\ \A e \in Conns : UpKept(e)
  BY <1>2, Basics DEF OldTokens, UpKept
<1>10. StreamTyped'
  <2>1. gone \in [Conns -> BOOLEAN] /\ missed \in BOOLEAN /\ status' \in {"waiting", "live", "ended"}
    BY <1>1, <1>3 DEF StreamTyped
  <2> QED
    BY <1>2, <1>3, <1>5, <2>1 DEF StreamTyped
<1>11. Buffers'
  BY <1>2, <1>3 DEF Buffers
<1>12. TokensCounted'
  <2>1. ASSUME NEW e \in Resuming' PROVE e \in Resuming
    <3>1. e \in Conns
      BY <1>2, Basics DEF Resuming
    <3> QED
      BY <1>2, <1>5, <3>1 DEF Resuming
  <2> QED
    BY <1>2, <2>1, Basics, CountStays
<1>13. Connections'
  <2>1. ASSUME NEW e \in Conns PROVE ConnectionFits(e)'
    <3>1. ConnectionFits(e) /\ ~(conns > conns) /\ ~(conns < conns)
      BY <1>3, Basics DEF Connections
    <3>2. CASE e = conns
      BY <1>2, <1>5, <3>1, <3>2 DEF ConnectionFits, Unserved
    <3>3. CASE e # conns
      BY <1>2, <1>5, <3>1, <3>3 DEF ConnectionFits, Unserved
    <3> QED
      BY <3>2, <3>3
  <2> QED
    BY <1>2, <1>3, <2>1 DEF Connections
<1>14. Acknowledged'
  <2>1. CASE showing = None
    <3>1. ASSUME NEW e \in Conns PROVE RequestFits(e)' /\ AttachFits(e)'
      <4>1. RequestFits(e) /\ ConnectionFits(e)
        BY <1>3 DEF StreamInv, Acknowledged, Connections
      <4>2. \A s \in Sessions : s # None
        BY Basics
      <4> QED
        BY <1>2, <1>8, <2>1, <4>1, <4>2 DEF RequestFits, AttachFits, ConnectionFits
    <3>2. ResumeFits'
      BY <1>2, <1>9, ResumeStays
    <3> QED
      BY <1>8, <2>1, <3>1, <3>2 DEF Acknowledged, DroppedFits
  <2>2. CASE showing # None
    <3>1. up' \in [Conns -> Seq(ToServer)]
      BY <1>2, <1>3 DEF StreamTyped
    <3> QED
      BY <1>2, <1>7, <1>9, <2>2, <3>1, AcknowledgedStays
  <2> QED
    BY <2>1, <2>2
<1>15. ASSUME NEW e \in Conns, Current(e)' PROVE FALSE
  BY <1>2, <1>5, <1>15 DEF Current
<1> QED
  BY <1>10, <1>11, <1>12, <1>13, <1>14, <1>15 DEF StreamInv

-----------------------------------------------------------------------------
(* The tab takes a message *)

\* The tab has been told that the connection is open, or that its session is
\* gone, and asks for one.
LEMMA TabAsks ==
  ASSUME StreamInv, NEW c, c = conns, NEW type \in {"ready", "resume-failed"}, Receives(type),
         NEW m \in ToServer, up' = [up EXCEPT ![c] = Append(@, m)]
  PROVE  /\ c \in Conns /\ Current(c) /\ down[c] # <<>> /\ down[c][1].type = type
         /\ Unserved(c) /\ up[c] = <<>> /\ down'[c] = <<>>
         /\ down' \in [Conns -> Seq(ToTab)] /\ \A e \in Conns : e # c => down'[e] = down[e]
         /\ up' \in [Conns -> Seq(ToServer)] /\ \A e \in Conns : e # c => up'[e] = up[e]
         /\ up'[c] # <<>> /\ Len(up'[c]) = 1 /\ up'[c][1] = m
<1>1. /\ c \in Conns /\ Current(c) /\ down[c] # <<>> /\ Msg = down[c][1] /\ Msg.type = type
      /\ down' \in [Conns -> Seq(ToTab)] /\ \A e \in Conns : e # c => down'[e] = down[e]
      /\ Len(down[c]) \in Nat /\ Len(down'[c]) = Len(down[c]) - 1
  BY ReceiveTakes
<1>2. Len(down[c]) = 1 /\ Unserved(c) /\ up[c] = <<>>
  BY <1>1 DEF StreamInv, ControlFits, HeadFits
<1>3. down'[c] = <<>>
  <2>1. down'[c] \in Seq(ToTab) /\ Len(down'[c]) = 0
    BY <1>1, <1>2
  <2> QED
    BY <2>1, EmptySeq
<1>4. up \in [Conns -> Seq(ToServer)]
  BY DEF StreamInv, StreamTyped
<1>5. Append(up[c], m) \in Seq(ToServer) /\ Len(Append(up[c], m)) = 1 /\ Append(up[c], m)[1] = m /\ Append(up[c], m) # <<>>
  BY <1>2
<1>6. up' \in [Conns -> Seq(ToServer)] /\ up'[c] = Append(up[c], m) /\ \A e \in Conns : e # c => up'[e] = up[e]
  BY <1>1, <1>4, <1>5
<1> QED
  BY <1>1, <1>2, <1>3, <1>5, <1>6

LEMMA AskingFits ==
  ASSUME StreamInv, NEW c, c = conns, NEW type \in {"ready", "resume-failed"}, Receives(type),
         NEW m \in ToServer, up' = [up EXCEPT ![c] = Append(@, m)],
         UNCHANGED <<sessionVars, tableVars, serverVars, broken, conns>>,
         m.type = "resume" => type = "ready" /\ resume' # None /\ m.token = resume' /\ m.last = seen',
         m.type = "connect" => resume' = None /\ showing' = None /\ seen' = 0,
         m.type # "terminate"
  PROVE  /\ Buffers' /\ TokensCounted' /\ Connections' /\ ~Coming'
         /\ \A e \in Conns : Current(e)' => ControlFits(e)' /\ StreamFits(e)' /\ GapFits(e)'
<1>1. /\ c \in Conns /\ Current(c) /\ down[c] # <<>> /\ down[c][1].type = type
      /\ Unserved(c) /\ up[c] = <<>> /\ down'[c] = <<>>
      /\ \A e \in Conns : e # c => down'[e] = down[e]
      /\ \A e \in Conns : e # c => up'[e] = up[e]
      /\ up'[c] # <<>> /\ Len(up'[c]) = 1 /\ up'[c][1] = m
  BY TabAsks
<1>2. UNCHANGED <<written, front, exited, created, attached, token, drawn, stage, bound, own, position, gone, broken, conns>>
  BY DEF sessionVars, tableVars, serverVars
<1>3. StreamTyped /\ Buffers /\ Connections
  BY DEF StreamInv
<1>4. Buffers'
  BY <1>2, <1>3 DEF Buffers
<1>5. TokensCounted'
  <2>1. ASSUME NEW e \in Resuming' PROVE e \in Resuming
    <3>1. e \in Conns
      BY <1>2, Basics DEF Resuming
    <3> QED
      BY <1>1, <1>2, <3>1 DEF Resuming
  <2> QED
    BY <1>2, <2>1, Basics, CountStays
<1>6. Connections'
  <2>1. ASSUME NEW e \in Conns PROVE ConnectionFits(e)'
    <3>1. ConnectionFits(e) /\ ~(c > conns)
      BY <1>3, Basics DEF Connections
    <3>2. CASE e = c
      BY <1>1, <1>2, <3>1, <3>2 DEF ConnectionFits, Unserved
    <3>3. CASE e # c
      <4>1. up'[e] = up[e] /\ down'[e] = down[e]
        BY <1>1, <3>3
      <4> QED
        BY <1>2, <3>1, <4>1 DEF ConnectionFits, Unserved
    <3> QED
      BY <3>2, <3>3
  <2> QED
    BY <1>2, <1>3, <2>1 DEF Connections
<1>7. ~Coming'
  BY <1>1, <1>2 DEF Coming
<1>8. ASSUME NEW e \in Conns, Current(e)' PROVE ControlFits(e)' /\ StreamFits(e)' /\ GapFits(e)'
  <2>1. e = c /\ Unserved(e)' /\ 1 .. Len(down'[e]) = {} /\ 2 .. Len(down'[e]) = {}
    <3>1. Len(<<>>) = 0
      OBVIOUS
    <3>2. e = c
      BY <1>2, <1>8 DEF Current
    <3>3. Len(down'[e]) = 0
      BY <1>1, <3>1, <3>2
    <3> QED
      BY <1>1, <1>2, <3>2, <3>3 DEF Unserved
  <2>2. down'[e] = <<>> /\ up'[e][1] = m
    BY <1>1, <2>1
  <2>3. ControlFits(e)'
    BY <2>1, <2>2 DEF ControlFits, Unserved
  <2>4. Stream(e)' = {}
    BY <2>1 DEF Stream, Numbered
  <2>5. ASSUME NEW x \in Sessions, attached'[x] = e PROVE FALSE
    BY <1>1, <1>2, <1>3, <2>1, <2>5, Basics DEF Connections, Unserved
  <2>6. StreamFits(e)'
    BY <2>4, <2>5 DEF StreamFits
  <2>7. GapFits(e)'
    BY <2>1 DEF GapFits, Unserved
  <2> QED
    BY <2>3, <2>6, <2>7
<1> QED
  BY <1>4, <1>5, <1>6, <1>7, <1>8

LEMMA TabReadyKeeps ==
  ASSUME StreamInv, TabReady
  PROVE  StreamInv'
<1> DEFINE m == IF resume # None
                THEN [type |-> "resume", token |-> resume, last |-> seen]
                ELSE [type |-> "connect"]
<1>1. Receives("ready") /\ up' = [up EXCEPT ![conns] = Append(@, m)]
  BY DEF TabReady, SendUp
<1>2. /\ UNCHANGED <<sessionVars, tableVars, serverVars, broken, conns>>
      /\ UNCHANGED <<status, resume, showing, seen, missed>>
  BY DEF TabReady, tabVars
<1>3. StreamTyped
  BY DEF StreamInv
<1>4. PICK c : c = conns
  OBVIOUS
<1>5. /\ m \in ToServer /\ m.type # "terminate"
      /\ m.type = "resume" => resume # None /\ m.token = resume /\ m.last = seen
      /\ m.type = "connect" => resume = None
  <2>1. resume \in 0..drawn /\ seen \in Nat /\ drawn \in Nat
    BY <1>3 DEF StreamTyped
  <2>2. CASE resume # None
    <3>1. resume \in Nat \ {0}
      BY <2>1, <2>2 DEF None
    <3>2. m = [type |-> "resume", token |-> resume, last |-> seen]
      BY <2>2
    <3> HIDE DEF m
    <3> QED
      BY <2>1, <2>2, <3>1, <3>2 DEF ToServer
  <2>3. CASE resume = None
    <3>1. m = [type |-> "connect"]
      BY <2>3
    <3> HIDE DEF m
    <3> QED
      BY <2>3, <3>1 DEF ToServer
  <2> QED
    BY <2>2, <2>3
<1> HIDE DEF m
<1>6. up' = [up EXCEPT ![c] = Append(@, m)]
  BY <1>1, <1>4
<1>7. /\ c \in Conns /\ Current(c) /\ down[c] # <<>> /\ down[c][1].type = "ready"
      /\ down' \in [Conns -> Seq(ToTab)] /\ up' \in [Conns -> Seq(ToServer)]
      /\ \A e \in Conns : e # c => up'[e] = up[e]
      /\ up'[c] # <<>> /\ up'[c][1] = m
  BY <1>1, <1>4, <1>5, <1>6, TabAsks
<1>8. resume = None => showing = None /\ seen = 0
  BY <1>7 DEF StreamInv, ControlFits, HeadFits
<1>9. /\ Buffers' /\ TokensCounted' /\ Connections' /\ ~Coming'
      /\ \A e \in Conns : Current(e)' => ControlFits(e)' /\ StreamFits(e)' /\ GapFits(e)'
  <2>1. /\ m.type = "resume" => resume' # None /\ m.token = resume' /\ m.last = seen'
        /\ m.type = "connect" => resume' = None /\ showing' = None /\ seen' = 0
    BY <1>2, <1>5, <1>8
  <2> QED
    BY <1>1, <1>2, <1>4, <1>5, <1>6, <2>1, AskingFits
<1>10. UNCHANGED <<written, front, exited, created, attached, token, drawn, stage, bound, own, position, gone, broken, conns>>
  BY <1>2 DEF sessionVars, tableVars, serverVars
<1>11. Shown' = Shown
  <2>1. ~Coming
    BY <1>4, <1>7 DEF Coming
  <2> QED
    BY <1>2, <1>9, <2>1 DEF Shown
<1>12. StreamTyped'
  BY <1>2, <1>3, <1>7, <1>10 DEF StreamTyped
<1>13. OldTokens /\ drawn' \in Nat /\ seen \in Nat /\ seen' = seen /\ seen' >= seen
  BY <1>2, <1>10, Basics DEF OldTokens
<1>14. Acknowledged'
  <2>1. ResumeFits'
    BY <1>2, <1>13, ResumeStays
  <2>2. DroppedFits'
    BY <1>10, <1>11, <1>13, DroppedStays
  <2>3. ASSUME NEW e \in Conns PROVE AttachFits(e)'
    BY <1>10, <1>11, <1>13, AttachStays
  <2>4. ASSUME NEW e \in Conns PROVE RequestFits(e)'
    <3>1. CASE e # c
      <4>1. UpKept(e) /\ up'[e] \in Seq(ToServer)
        BY <1>7, <3>1 DEF UpKept
      <4> QED
        BY <1>11, <1>13, <4>1, RequestStays
    <3>2. CASE e = c
      <4>1. resume \in 0..drawn /\ drawn \in Nat
        BY <1>3 DEF StreamTyped
      <4> QED
        BY <1>5, <1>7, <1>10, <1>13, <3>2, <4>1 DEF RequestFits
    <3> QED
      BY <3>1, <3>2
  <2> QED
    BY <2>1, <2>2, <2>3, <2>4 DEF Acknowledged
<1> QED
  BY <1>9, <1>12, <1>14 DEF StreamInv

LEMMA TabResumeFailedKeeps ==
  ASSUME StreamInv, TabResumeFailed
  PROVE  StreamInv'
<1> DEFINE m == [type |-> "connect"]
<1>1. /\ Receives("resume-failed") /\ up' = [up EXCEPT ![conns] = Append(@, m)]
      /\ resume' = None /\ seen' = 0 /\ showing' = None /\ missed' = FALSE
  BY DEF TabResumeFailed, SendUp
<1>2. UNCHANGED <<sessionVars, tableVars, serverVars, broken, conns, status>>
  BY DEF TabResumeFailed
<1>3. StreamTyped /\ Connections
  BY DEF StreamInv
<1>4. PICK c : c = conns
  OBVIOUS
<1>5. m \in ToServer /\ m.type = "connect"
  BY DEF ToServer
<1> HIDE DEF m
<1>6. up' = [up EXCEPT ![c] = Append(@, m)]
  BY <1>1, <1>4
<1>7. /\ c \in Conns /\ down' \in [Conns -> Seq(ToTab)] /\ up' \in [Conns -> Seq(ToServer)]
      /\ \A e \in Conns : e # c => up'[e] = up[e]
      /\ up'[c] # <<>> /\ up'[c][1] = m
  BY <1>1, <1>4, <1>5, <1>6, TabAsks
<1>8. /\ Buffers' /\ TokensCounted' /\ Connections' /\ ~Coming'
      /\ \A e \in Conns : Current(e)' => ControlFits(e)' /\ StreamFits(e)' /\ GapFits(e)'
  BY <1>1, <1>2, <1>4, <1>5, <1>6, AskingFits
<1>9. UNCHANGED <<written, front, exited, created, attached, token, drawn, stage, bound, own, position, gone, broken, conns>>
  BY <1>2 DEF sessionVars, tableVars, serverVars
<1>10. Shown' = None
  BY <1>1, <1>8 DEF Shown
<1>11. StreamTyped'
  <2>1. resume' \in 0..drawn /\ showing' \in 0..created /\ seen' \in Nat
    BY <1>1, Basics
  <2>2. missed' \in BOOLEAN
    BY <1>1
  <2> QED
    BY <1>2, <1>3, <1>7, <1>9, <2>1, <2>2 DEF StreamTyped
<1>12. Acknowledged'
  <2>1. \A s \in Sessions : s # None
    BY Basics
  <2>2. ASSUME NEW e \in Conns PROVE RequestFits(e)' /\ AttachFits(e)'
    <3>1. RequestFits(e) /\ ConnectionFits(e)
      BY <1>3 DEF StreamInv, Acknowledged, Connections
    <3>2. AttachFits(e)'
      BY <1>9, <1>10, <3>1 DEF AttachFits, ConnectionFits
    <3>3. RequestFits(e)'
      BY <1>5, <1>7, <1>9, <1>10, <2>1, <3>1 DEF RequestFits
    <3> QED
      BY <3>2, <3>3
  <2> QED
    BY <1>1, <1>10, <2>2 DEF Acknowledged, ResumeFits, DroppedFits
<1> QED
  BY <1>8, <1>11, <1>12 DEF StreamInv

\* What is left of the stream of the current connection still fits, once the
\* tab has shown the message it took.
LEMMA TailFits ==
  ASSUME StreamInv, NEW c, c = conns, NEW type, Receives(type), UNCHANGED <<written, attached, conns>>,
         Shown' = Shown, seen' \in Nat, seen' >= seen, Numbered(Msg) => Msg.seq <= seen'
  PROVE  StreamFits(c)'
<1>1. /\ c \in Conns /\ Current(c) /\ Msg = down[c][1] /\ Msg \in ToTab /\ Len(down[c]) >= 1 /\ Len(down[c]) \in Nat
      /\ \A i \in 1 .. Len(down'[c]) : down'[c][i] = down[c][i + 1]
  BY ReceiveTakes
<1>2. /\ \A i \in Stream(c)' : i \in 1 .. Len(down'[c]) /\ i \in Nat /\ i >= 1 /\ i + 1 \in Stream(c)
      /\ \A i \in Stream(c) : i \in Nat /\ (i = 1 \/ i - 1 \in Stream(c)')
  BY StreamShrinks
<1>3. StreamFits(c) /\ seen \in Nat
  BY <1>1, Basics DEF StreamInv
<1>4. Numbered(Msg) <=> 1 \in Stream(c)
  <2>1. 1 \in 1 .. Len(down[c])
    BY <1>1
  <2> QED
    BY <1>1, <2>1 DEF Stream
<1>5. \A i \in Stream(c)' : down'[c][i] = down[c][i + 1]
  BY <1>1, <1>2
<1>6. Numbered(Msg) => Msg.seq \in Nat
  BY <1>1 DEF Numbered, ToTab
<1>7. ASSUME NEW i \in Stream(c)', NEW j \in Stream(c)', Follows(c, i, j)'
      PROVE  down'[c][j].seq = down'[c][i].seq + 1
  <2>1. i < j /\ \A k \in Stream(c)' : k <= i \/ k >= j
    BY <1>7 DEF Follows
  <2>2. ASSUME NEW k \in Stream(c) PROVE k <= i + 1 \/ k >= j + 1
    <3>1. k \in Nat /\ (k = 1 \/ (k - 1 \in Stream(c)' /\ (k - 1 <= i \/ k - 1 >= j)))
      BY <1>2, <2>1
    <3> QED
      BY <1>2, <3>1
  <2>3. i + 1 \in Stream(c) /\ j + 1 \in Stream(c) /\ i + 1 < j + 1
    BY <1>2, <2>1
  <2>4. Follows(c, i + 1, j + 1)
    BY <2>2, <2>3 DEF Follows
  <2>5. down[c][j + 1].seq = down[c][i + 1].seq + 1
    BY <1>3, <2>3, <2>4 DEF StreamFits
  <2> QED
    BY <1>5, <2>5
<1>8. ASSUME NEW i \in Stream(c)', First(c, i)' PROVE Skippable(Shown, down[c][i].seq)'
  <2>1. \A k \in Stream(c)' : i <= k
    BY <1>8 DEF First
  <2>2. ASSUME NEW k \in Stream(c) PROVE k = 1 \/ k >= i + 1
    <3>1. k \in Nat /\ (k = 1 \/ (k - 1 \in Stream(c)' /\ i <= k - 1))
      BY <1>2, <2>1
    <3> QED
      BY <1>2, <3>1
  <2>3. i + 1 \in Stream(c) /\ i + 1 > 1 /\ down'[c][i] = down[c][i + 1]
    BY <1>2, <1>5
  <2>4. CASE Numbered(Msg)
    <3>1. Follows(c, 1, i + 1)
      BY <2>2, <2>3 DEF Follows
    <3>2. down[c][i + 1].seq = down[c][1].seq + 1
      BY <1>3, <1>4, <2>3, <2>4, <3>1 DEF StreamFits
    <3>3. down'[c][i].seq <= seen' + 1
      BY <1>1, <1>6, <2>3, <2>4, <3>2
    <3> QED
      BY <3>3 DEF Skippable
  <2>5. CASE ~Numbered(Msg)
    <3>1. First(c, i + 1)
      <4>1. \A k \in Stream(c) : k >= i + 1
        BY <1>4, <2>2, <2>5
      <4> QED
        BY <1>2, <2>3, <4>1 DEF First
    <3>2. Skippable(Shown, down[c][i + 1].seq)
      BY <1>3, <2>3, <3>1 DEF StreamFits
    <3>3. down[c][i + 1].seq \in Nat
      <4>1. i + 1 \in 1 .. Len(down[c]) /\ Numbered(down[c][i + 1]) /\ down[c] \in Seq(ToTab)
        BY <1>1, <2>3 DEF Stream, StreamInv, StreamTyped
      <4>2. down[c][i + 1] \in ToTab
        BY <4>1
      <4> QED
        BY <4>1, <4>2 DEF Numbered, ToTab
    <3> QED
      BY <1>3, <2>3, <3>2, <3>3 DEF Skippable
  <2> QED
    BY <2>4, <2>5
<1>9. ASSUME NEW x \in Sessions, attached'[x] = c
      PROVE  /\ Stream(c)' = {} => Len(written'[x]) <= seen'
             /\ \A i \in Stream(c)' : Last(c, i)' => down'[c][i].seq = Len(written'[x])
  <2>1. attached[x] = c /\ Len(written[x]) \in Nat /\ written' = written
    <3>1. Len(written[x]) \in Nat
      BY DEF StreamInv, StreamTyped
    <3> QED
      BY <1>9, <3>1
  <2>2. /\ Stream(c) = {} => Len(written[x]) <= seen
        /\ \A i \in Stream(c) : Last(c, i) => down[c][i].seq = Len(written[x])
    BY <1>3, <2>1 DEF StreamFits
  <2>3. ASSUME Stream(c)' = {} PROVE Len(written[x]) <= seen'
    <3>1. \A k \in Stream(c) : k = 1
      BY <1>2, <2>3
    <3>2. CASE Numbered(Msg)
      <4>1. Last(c, 1)
        BY <1>4, <3>1, <3>2 DEF Last
      <4>2. Msg.seq = Len(written[x])
        BY <1>1, <1>4, <2>2, <3>2, <4>1
      <4> QED
        BY <3>2, <4>2
    <3>3. CASE ~Numbered(Msg)
      <4>1. Stream(c) = {}
        BY <1>4, <3>1, <3>3
      <4> QED
        BY <1>3, <2>1, <2>2, <4>1
    <3> QED
      BY <3>2, <3>3
  <2>4. ASSUME NEW i \in Stream(c)', Last(c, i)' PROVE down'[c][i].seq = Len(written[x])
    <3>1. i + 1 \in Stream(c) /\ \A k \in Stream(c)' : k <= i
      BY <1>2, <2>4 DEF Last
    <3>2. ASSUME NEW k \in Stream(c) PROVE k <= i + 1
      <4>1. k \in Nat /\ (k = 1 \/ k - 1 <= i)
        BY <1>2, <3>1
      <4> QED
        BY <1>2, <4>1
    <3>3. Last(c, i + 1)
      BY <3>1, <3>2 DEF Last
    <3> QED
      BY <1>5, <2>2, <3>1, <3>3
  <2> QED
    BY <2>1, <2>3, <2>4
<1>10. \A i \in Stream(c)' : Shown' # None /\ down'[c][i].seq <= Len(written'[Shown'])
  BY <1>2, <1>3, <1>5 DEF StreamFits
<1> QED
  BY <1>7, <1>8, <1>9, <1>10 DEF StreamFits

\* The message taken: shown, or left alone as it was shown before.
TakenAsOutput ==
  \/ seen' = seen /\ missed' = missed /\ (Numbered(Msg) => Msg.seq <= seen)
  \/ /\ Numbered(Msg) /\ Msg.seq > seen
     /\ seen' = Msg.seq /\ missed' = (missed \/ Msg.seq # seen + 1)

LEMMA TailGap ==
  ASSUME StreamInv, NEW c, c = conns, NEW type, Receives(type), stage' = stage, conns' = conns,
         type = "resume-gap" \/ TakenAsOutput
  PROVE  GapFits(c)'
<1>1. /\ c \in Conns /\ Current(c) /\ Msg = down[c][1] /\ Msg \in ToTab /\ Len(down[c]) >= 1 /\ Len(down[c]) \in Nat
      /\ Msg.type = type
      /\ Len(down'[c]) = Len(down[c]) - 1
      /\ \A i \in 1 .. Len(down'[c]) : down'[c][i] = down[c][i + 1]
      /\ \A i : i \in 1 .. Len(down'[c]) => i \in Nat /\ i + 1 \in 2 .. Len(down[c])
  BY ReceiveTakes
<1>2. /\ \A i \in Stream(c)' : i \in 1 .. Len(down'[c]) /\ i \in Nat /\ i + 1 \in Stream(c)
      /\ \A i \in Stream(c) : i \in Nat /\ (i = 1 \/ i - 1 \in Stream(c)')
  BY StreamShrinks
<1>3. GapFits(c) /\ seen \in Nat
  BY <1>1, Basics DEF StreamInv
<1>4. 1 \in 1 .. Len(down[c]) /\ (Numbered(Msg) <=> 1 \in Stream(c))
  <2>1. 1 \in 1 .. Len(down[c])
    BY <1>1
  <2> QED
    BY <1>1, <2>1 DEF Stream
<1>5. CASE type = "resume-gap"
  <2>1. stage[c] # "gap" /\ \A k \in 1 .. Len(down[c]) : down[c][k].type = "resume-gap" => k = 1
    BY <1>1, <1>3, <1>4, <1>5 DEF GapFits
  <2>2. ASSUME NEW i \in 1 .. Len(down'[c]) PROVE down'[c][i].type # "resume-gap"
    <3>1. i + 1 \in 1 .. Len(down[c]) /\ i + 1 # 1 /\ down'[c][i] = down[c][i + 1]
      BY <1>1
    <3> QED
      BY <2>1, <3>1
  <2> QED
    BY <2>1, <2>2 DEF GapFits
<1>6. CASE TakenAsOutput
  <2>1. ASSUME NEW n \in Nat, n >= 1, Lacks(c, n + 1) PROVE Lacks(c, n)'
    <3> SUFFICES ASSUME ~missed' PROVE \E i \in Stream(c)' : First(c, i)' /\ i < n /\ down'[c][i].seq > seen' + 1
      BY <2>1 DEF Lacks
    <3>1. ~missed
      BY <1>6 DEF TakenAsOutput
    <3>2. PICK i \in Stream(c) : First(c, i) /\ i < n + 1 /\ down[c][i].seq > seen + 1
      BY <2>1, <3>1 DEF Lacks
    <3>3. ~Numbered(Msg)
      <4> SUFFICES ASSUME Numbered(Msg) PROVE FALSE
        OBVIOUS
      <4>1. i <= 1 /\ i \in Nat /\ i \in 1 .. Len(down[c])
        BY <1>2, <1>4, <3>2 DEF First, Stream
      <4>2. i = 1
        BY <4>1
      <4>3. Msg.seq > seen + 1 /\ Msg.seq \in Nat
        BY <1>1, <3>2, <4>2 DEF Numbered, ToTab
      <4>4. ~(Msg.seq <= seen) /\ Msg.seq # seen + 1
        BY <1>3, <4>3
      <4>5. missed' = (missed \/ Msg.seq # seen + 1)
        BY <1>6, <4>4, Zenon DEF TakenAsOutput
      <4> QED
        BY <4>4, <4>5, Zenon
    <3>4. i # 1 /\ i \in Nat /\ i - 1 \in Stream(c)'
      BY <1>2, <1>4, <3>2, <3>3
    <3>5. seen' = seen
      BY <1>6, <3>3 DEF TakenAsOutput
    <3>6. i - 1 \in 1 .. Len(down'[c]) /\ (i - 1) + 1 = i
      BY <1>2, <3>4
    <3>7. down'[c][i - 1] = down[c][i]
      BY <1>1, <3>6
    <3>8. ASSUME NEW k \in Stream(c)' PROVE i - 1 <= k
      <4>1. k + 1 \in Stream(c) /\ k \in Nat
        BY <1>2
      <4>2. i <= k + 1
        BY <3>2, <4>1 DEF First
      <4> QED
        BY <3>4, <4>1, <4>2
    <3>9. PICK j \in Stream(c)' : j = i - 1
      BY <3>4
    <3>10. First(c, j)'
      BY <3>8, <3>9 DEF First
    <3>11. j < n
      BY <3>2, <3>4, <3>9
    <3> QED
      BY <3>2, <3>5, <3>7, <3>9, <3>10, <3>11
  <2>2. ASSUME stage'[c] = "gap" PROVE Lacks(c, Len(down[c]) + 1)'
    <3>1. Lacks(c, Len(down[c]) + 1)
      BY <1>3, <2>2 DEF GapFits
    <3>2. PICK n \in Nat : n = Len(down[c]) /\ n = Len(down'[c]) + 1 /\ n >= 1
      BY <1>1
    <3>3. Lacks(c, n)'
      BY <2>1, <3>1, <3>2
    <3> QED
      BY <3>2, <3>3 DEF Lacks
  <2>3. ASSUME NEW i \in 1 .. Len(down'[c]), down'[c][i].type = "resume-gap"
        PROVE  /\ stage'[c] # "gap" /\ Lacks(c, i)'
               /\ \A k \in 1 .. Len(down'[c]) : down'[c][k].type = "resume-gap" => k = i
    <3>1. /\ i \in Nat /\ i >= 1 /\ i + 1 \in 1 .. Len(down[c]) /\ down[c][i + 1].type = "resume-gap"
      BY <1>1, <2>3
    <3>2. /\ stage[c] # "gap" /\ Lacks(c, i + 1)
          /\ \A k \in 1 .. Len(down[c]) : down[c][k].type = "resume-gap" => k = i + 1
      BY <1>3, <3>1 DEF GapFits
    <3>3. ASSUME NEW k \in 1 .. Len(down'[c]), down'[c][k].type = "resume-gap" PROVE k = i
      <4>1. k \in Nat /\ k + 1 \in 1 .. Len(down[c]) /\ down[c][k + 1].type = "resume-gap"
        BY <1>1, <3>3
      <4>2. k + 1 = i + 1
        BY <3>2, <4>1
      <4> QED
        BY <3>1, <4>1, <4>2
    <3> QED
      BY <2>1, <3>1, <3>2, <3>3
  <2> QED
    BY <2>2, <2>3 DEF GapFits
<1> QED
  BY <1>5, <1>6

\* A step in which the tab takes a message that keeps the session shown.
LEMMA TabTakes ==
  ASSUME StreamInv, NEW c, c = conns,
         NEW type \in {"session", "resumed", "resume-gap", "output", "closed"}, Receives(type),
         UNCHANGED <<sessionVars, tableVars, serverVars, broken, conns>>, Shown' = Shown,
         up' \in [Conns -> Seq(ToServer)], \A e \in Conns : e # c => up'[e] = up[e],
         \A i \in 1 .. Len(up'[c]) : up'[c][i].type = "terminate",
         status' \in {"waiting", "live", "ended"}, resume' \in 0..drawn, showing' \in 0..created,
         seen' \in Nat, missed' \in BOOLEAN, ResumeFits',
         type \in {"resume-gap", "resumed"} => seen' = seen, type = "resume-gap" \/ TakenAsOutput
  PROVE  StreamInv'
<1>1. /\ c \in Conns /\ Current(c) /\ Msg = down[c][1] /\ Msg \in ToTab /\ Len(down[c]) >= 1 /\ Len(down[c]) \in Nat
      /\ Msg.type = type /\ down[c] # <<>>
      /\ down' \in [Conns -> Seq(ToTab)]
      /\ \A e \in Conns : e # c => down'[e] = down[e]
      /\ Len(down'[c]) = Len(down[c]) - 1
      /\ \A i \in 1 .. Len(down'[c]) : down'[c][i] = down[c][i + 1]
      /\ \A i : i \in 1 .. Len(down'[c]) => i \in Nat /\ i + 1 \in 2 .. Len(down[c])
  BY ReceiveTakes
<1>2. UNCHANGED <<written, front, exited, created, attached, token, drawn, stage, bound, own, position, gone, broken, conns>>
  BY DEF sessionVars, tableVars, serverVars
<1>3. StreamTyped /\ Buffers /\ Connections /\ ControlFits(c)
  BY <1>1 DEF StreamInv
<1>4. \A i \in 1 .. Len(down'[c]) : down'[c][i].type \in {"output", "closed", "resume-gap"}
  <2>1. ASSUME NEW i \in 1 .. Len(down'[c]) PROVE down'[c][i].type \in {"output", "closed", "resume-gap"}
    <3>1. i + 1 \in 2 .. Len(down[c]) /\ down'[c][i] = down[c][i + 1]
      BY <1>1
    <3> QED
      BY <1>3, <3>1 DEF ControlFits
  <2> QED
    BY <2>1
<1>5. down'[c] # <<>> => down'[c][1].type \in {"output", "closed", "resume-gap"}
  <2>1. down'[c] \in Seq(ToTab)
    BY <1>1
  <2>2. down'[c] # <<>> => 1 \in 1 .. Len(down'[c])
    BY <2>1
  <2> QED
    BY <1>4, <2>2
<1>6. seen \in Nat /\ seen' >= seen /\ (Numbered(Msg) => Msg.seq <= seen')
  <2>1. Numbered(Msg) => Msg.seq \in Nat /\ type # "resume-gap"
    <3>1. Msg \in ToTab /\ Msg.type = type
      BY <1>1
    <3> QED
      BY <3>1 DEF Numbered, ToTab
  <2>2. seen \in Nat
    BY Basics
  <2>3. CASE TakenAsOutput
    BY <2>1, <2>2, <2>3 DEF TakenAsOutput
  <2>4. CASE ~TakenAsOutput
    BY <1>1, <2>1, <2>2, <2>4
  <2> QED
    BY <2>3, <2>4
<1>7. StreamTyped'
  BY <1>1, <1>2, <1>3 DEF StreamTyped
<1>8. Buffers'
  BY <1>2, <1>3 DEF Buffers
<1>9. up'[c] # <<>> => up'[c][1].type = "terminate"
  <2>1. up'[c] # <<>> => 1 \in 1 .. Len(up'[c])
    BY <1>1
  <2> QED
    BY <2>1
<1>10. TokensCounted'
  <2>1. ASSUME NEW e \in Resuming' PROVE e \in Resuming
    <3>1. e \in Conns
      BY <1>2, Basics DEF Resuming
    <3> QED
      BY <1>1, <1>2, <1>5, <1>9, <3>1 DEF Resuming
  <2> QED
    BY <1>2, <2>1, Basics, CountStays
<1>11. Connections'
  <2>1. ASSUME NEW e \in Conns PROVE ConnectionFits(e)'
    <3>1. ConnectionFits(e) /\ ~(c > conns)
      BY <1>3, Basics DEF Connections
    <3>2. CASE e = c
      <4>1. ~(e # conns \/ broken[e])
        BY <1>1, <3>2 DEF Current
      <4> QED
        BY <1>2, <3>1, <3>2, <4>1 DEF ConnectionFits, Unserved
    <3>3. CASE e # c
      <4>1. up'[e] = up[e] /\ down'[e] = down[e]
        BY <1>1, <3>3
      <4> QED
        BY <1>2, <3>1, <4>1 DEF ConnectionFits, Unserved
    <3> QED
      BY <3>2, <3>3
  <2> QED
    BY <1>2, <1>3, <2>1 DEF Connections
<1>12. OldTokens /\ drawn' \in Nat
  BY <1>2, Basics DEF OldTokens
<1>13. Acknowledged'
  <2>1. DroppedFits'
    BY <1>2, <1>6, DroppedStays
  <2>2. ASSUME NEW e \in Conns PROVE AttachFits(e)'
    BY <1>2, <1>6, AttachStays
  <2>3. ASSUME NEW e \in Conns PROVE RequestFits(e)'
    <3>1. CASE e # c
      <4>1. UpKept(e) /\ up'[e] \in Seq(ToServer)
        BY <3>1 DEF UpKept
      <4> QED
        BY <1>6, <1>12, <4>1, RequestStays
    <3>2. CASE e = c
      BY <1>9, <3>2 DEF RequestFits
    <3> QED
      BY <3>1, <3>2
  <2> QED
    BY <2>1, <2>2, <2>3 DEF Acknowledged
<1>14. ASSUME NEW e \in Conns, Current(e)' PROVE ControlFits(e)' /\ StreamFits(e)' /\ GapFits(e)'
  <2>1. e = c
    BY <1>2, <1>14 DEF Current
  <2>2. StreamFits(c)'
    BY <1>2, <1>6, TailFits
  <2>3. GapFits(c)'
    BY <1>2, TailGap
  <2>4. ControlFits(c)'
    <3>1. down'[c] # <<>> => HeadFits(c)'
      BY <1>5 DEF HeadFits
    <3>2. \A i \in 2 .. Len(down'[c]) : down'[c][i].type \in {"output", "closed", "resume-gap"}
      BY <1>1, <1>4
    <3>3. bound'[c] # None => Shown' = bound'[c]
      BY <1>2, <1>3 DEF ControlFits
    <3>4. ASSUME stage'[c] = "attach"
          PROVE  position'[c] = seen' /\ \A i \in 1 .. Len(down'[c]) : down'[c][i].type = "resumed"
      <4>1. position[c] = seen /\ \A i \in 1 .. Len(down[c]) : down[c][i].type = "resumed"
        BY <1>2, <1>3, <3>4 DEF ControlFits
      <4>2. 1 \in 1 .. Len(down[c])
        BY <1>1
      <4>3. type = "resumed"
        BY <1>1, <4>1, <4>2
      <4>4. position'[c] = seen'
        BY <1>2, <4>1, <4>3
      <4>5. ASSUME NEW i \in 1 .. Len(down'[c]) PROVE down'[c][i].type = "resumed"
        <5>1. i + 1 \in 1 .. Len(down[c]) /\ down'[c][i] = down[c][i + 1]
          BY <1>1
        <5> QED
          BY <4>1, <5>1
      <4> QED
        BY <4>4, <4>5
    <3> QED
      BY <1>9, <3>1, <3>2, <3>3, <3>4 DEF ControlFits
  <2> QED
    BY <2>1, <2>2, <2>3, <2>4
<1> QED
  BY <1>7, <1>8, <1>10, <1>11, <1>13, <1>14 DEF StreamInv

\* Before such a step: the message fits, and there is no request under way.
LEMMA TabListens ==
  ASSUME StreamInv, NEW c, c = conns,
         NEW type \in {"session", "resumed", "resume-gap", "output", "closed"}, Receives(type), conns' = conns
  PROVE  /\ HeadFits(c) /\ Msg = down[c][1] /\ Msg \in ToTab /\ Msg.type = type /\ c \in Conns
         /\ down[c] # <<>>
         /\ ~Coming'
         /\ \A i \in 1 .. Len(up[c]) : up[c][i].type = "terminate"
         /\ Numbered(Msg) => Shown # None /\ Msg.seq <= Len(written[Shown]) /\ Skippable(Shown, Msg.seq) /\ Msg.seq \in Nat \ {0}
<1>1. /\ c \in Conns /\ Current(c) /\ Msg = down[c][1] /\ Msg \in ToTab /\ Len(down[c]) >= 1 /\ Len(down[c]) \in Nat
      /\ Msg.type = type /\ down[c] # <<>>
      /\ down' \in [Conns -> Seq(ToTab)]
      /\ \A i \in 1 .. Len(down'[c]) : down'[c][i] = down[c][i + 1]
      /\ \A i : i \in 1 .. Len(down'[c]) => i \in Nat /\ i + 1 \in 2 .. Len(down[c])
  BY ReceiveTakes
<1>2. ControlFits(c) /\ StreamFits(c) /\ ConnectionFits(c)
  BY <1>1 DEF StreamInv, Connections
<1>3. HeadFits(c)
  BY <1>1, <1>2 DEF ControlFits
<1>4. ~Coming'
  <2> SUFFICES ASSUME down'[c] # <<>> PROVE down'[c][1].type # "session"
    BY <1>1 DEF Coming
  <2>1. 1 \in 1 .. Len(down'[c])
    <3>1. down'[c] \in Seq(ToTab)
      BY <1>1
    <3> QED
      BY <3>1
  <2>2. down'[c][1] = down[c][2] /\ 2 \in 2 .. Len(down[c])
    BY <1>1, <2>1
  <2>3. down[c][2].type \in {"output", "closed", "resume-gap"}
    BY <1>2, <2>2 DEF ControlFits
  <2> QED
    BY <2>2, <2>3
<1>5. \A i \in 1 .. Len(up[c]) : up[c][i].type = "terminate"
  BY <1>1, <1>2 DEF ConnectionFits
<1>6. Numbered(Msg) => Shown # None /\ Msg.seq <= Len(written[Shown]) /\ Skippable(Shown, Msg.seq) /\ Msg.seq \in Nat \ {0}
  <2> SUFFICES ASSUME Numbered(Msg)
               PROVE  Shown # None /\ Msg.seq <= Len(written[Shown]) /\ Skippable(Shown, Msg.seq) /\ Msg.seq \in Nat \ {0}
    OBVIOUS
  <2>1. 1 \in Stream(c)
    <3>1. 1 \in 1 .. Len(down[c])
      BY <1>1
    <3> QED
      BY <1>1, <3>1 DEF Stream
  <2>2. First(c, 1)
    <3>1. \A k \in Stream(c) : 1 <= k
      BY <1>1 DEF Stream
    <3> QED
      BY <2>1, <3>1 DEF First
  <2>3. Msg.seq \in Nat \ {0}
    BY <1>1 DEF Numbered, ToTab
  <2> QED
    BY <1>1, <1>2, <2>1, <2>2, <2>3 DEF StreamFits
<1> QED
  BY <1>1, <1>3, <1>4, <1>5, <1>6

LEMMA TabSessionKeeps ==
  ASSUME StreamInv, TabSession
  PROVE  StreamInv' /\ showing = None /\ showing' \in Sessions
<1>1. Receives("session") /\ resume' = Msg.token /\ showing' = Msg.session
  BY DEF TabSession
<1>2. UNCHANGED <<sessionVars, tableVars, serverVars, up, broken, conns, status, seen, missed>>
  BY DEF TabSession
<1>3. PICK c : c = conns
  OBVIOUS
<1>4. /\ HeadFits(c) /\ Msg = down[c][1] /\ Msg \in ToTab /\ Msg.type = "session" /\ c \in Conns /\ down[c] # <<>> /\ ~Coming'
      /\ \A i \in 1 .. Len(up[c]) : up[c][i].type = "terminate"
  BY <1>1, <1>2, <1>3, TabListens
<1>5. UNCHANGED <<written, front, exited, created, attached, token, drawn, stage, bound, own, position, gone>>
  BY <1>2 DEF sessionVars, tableVars, serverVars
<1>6. Msg.session \in Sessions /\ Msg.session <= created /\ showing = None /\ TokenOf(Msg.token, Msg.session)
  <2>1. Msg.session \in Sessions
    BY <1>4 DEF ToTab
  <2> QED
    BY <1>4, <2>1 DEF HeadFits
<1>7. Msg.session # None /\ Msg.session \in 0..created /\ resume' \in 0..drawn
  <2>1. Msg.session # None /\ Msg.session \in Nat /\ created \in Nat /\ drawn \in Nat
    BY <1>6, Basics
  <2>2. Msg.session \in 0..created
    BY <1>6, <2>1
  <2>3. Msg.token \in 1 .. drawn
    BY <1>6 DEF TokenOf
  <2> QED
    BY <1>1, <2>1, <2>2, <2>3
<1>8. Shown' = Shown
  <2>1. Shown = Msg.session
    BY <1>3, <1>4, <1>6, Basics DEF Shown, Coming
  <2>2. Shown' = Msg.session
    BY <1>1, <1>7 DEF Shown
  <2> QED
    BY <2>1, <2>2
<1>9. ResumeFits'
  <2>1. \A x \in Sessions : token'[x] = resume' => x = showing'
    BY <1>1, <1>5, <1>6 DEF TokenOf
  <2>2. resume' \in 1 .. drawn'
    BY <1>1, <1>5, <1>6 DEF TokenOf
  <2> QED
    BY <1>1, <1>7, <2>1, <2>2 DEF ResumeFits, TokenOf
<1>10. TakenAsOutput
  BY <1>2, <1>4 DEF TakenAsOutput, Numbered
<1>11. up \in [Conns -> Seq(ToServer)] /\ status \in {"waiting", "live", "ended"} /\ seen \in Nat /\ missed \in BOOLEAN
  BY DEF StreamInv, StreamTyped
<1>12. StreamInv'
  BY <1>1, <1>2, <1>3, <1>4, <1>7, <1>8, <1>9, <1>10, <1>11, TabTakes
<1> QED
  BY <1>1, <1>6, <1>12

LEMMA TabResumedKeeps ==
  ASSUME StreamInv, TabResumed
  PROVE  StreamInv'
<1>1. Receives("resumed") /\ resume' = Msg.token
  BY DEF TabResumed
<1>2. UNCHANGED <<sessionVars, tableVars, serverVars, up, broken, conns, status, showing, seen, missed>>
  BY DEF TabResumed
<1>3. PICK c : c = conns
  OBVIOUS
<1>4. /\ HeadFits(c) /\ Msg = down[c][1] /\ Msg \in ToTab /\ Msg.type = "resumed" /\ c \in Conns /\ ~Coming'
      /\ \A i \in 1 .. Len(up[c]) : up[c][i].type = "terminate"
  BY <1>1, <1>2, <1>3, TabListens
<1>5. UNCHANGED <<written, front, exited, created, attached, token, drawn, stage, bound, own, position, gone>>
  BY <1>2 DEF sessionVars, tableVars, serverVars
<1>6. showing # None /\ TokenOf(Msg.token, showing)
  BY <1>4 DEF HeadFits
<1>7. Shown' = Shown
  BY <1>2, <1>6 DEF Shown
<1>8. resume' \in 0..drawn
  <2>1. Msg.token \in 1 .. drawn /\ drawn \in Nat
    BY <1>6, Basics DEF TokenOf
  <2> QED
    BY <1>1, <2>1
<1>9. ResumeFits'
  BY <1>1, <1>2, <1>5, <1>6 DEF ResumeFits, TokenOf
<1>10. TakenAsOutput
  BY <1>2, <1>4 DEF TakenAsOutput, Numbered
<1>11. /\ up \in [Conns -> Seq(ToServer)] /\ status \in {"waiting", "live", "ended"} /\ seen \in Nat /\ missed \in BOOLEAN
       /\ showing \in 0..created
  BY DEF StreamInv, StreamTyped
<1> QED
  BY <1>1, <1>2, <1>3, <1>4, <1>7, <1>8, <1>9, <1>10, <1>11, TabTakes

LEMMA TabResumeGapKeeps ==
  ASSUME StreamInv, TabResumeGap
  PROVE  StreamInv'
<1>1. Receives("resume-gap") /\ missed' = FALSE
  BY DEF TabResumeGap
<1>2. UNCHANGED <<sessionVars, tableVars, serverVars, up, broken, conns, status, resume, showing, seen>>
  BY DEF TabResumeGap
<1>3. PICK c : c = conns
  OBVIOUS
<1>4. /\ Msg = down[c][1] /\ Msg.type = "resume-gap" /\ c \in Conns /\ ~Coming'
      /\ \A i \in 1 .. Len(up[c]) : up[c][i].type = "terminate"
  BY <1>1, <1>2, <1>3, TabListens
<1>5. UNCHANGED <<written, front, exited, created, attached, token, drawn, stage, bound, own, position, gone>>
  BY <1>2 DEF sessionVars, tableVars, serverVars
<1>6. Shown' = Shown
  <2>1. ~Coming
    BY <1>3, <1>4 DEF Coming
  <2> QED
    BY <1>2, <1>4, <2>1 DEF Shown
<1>7. ResumeFits'
  BY <1>2, <1>5, Basics, ResumeStays DEF OldTokens
<1>8. /\ up \in [Conns -> Seq(ToServer)] /\ status \in {"waiting", "live", "ended"} /\ seen \in Nat
      /\ showing \in 0..created /\ resume \in 0..drawn
  BY DEF StreamInv, StreamTyped
<1>9. missed' \in BOOLEAN
  BY <1>1
<1> QED
  BY <1>1, <1>2, <1>3, <1>4, <1>6, <1>7, <1>8, <1>9, TabTakes

\* The step of the terminal, besides the invariant: what is shown is the next
\* output, or too much was waiting.
ShowsNext ==
  /\ showing # None /\ showing' = showing
  /\ seen' \in seen + 1 .. Len(written[showing])
  /\ seen' # seen + 1 => Bytes(written[showing], seen + 1) > BufferLimit

LEMMA NextShown ==
  ASSUME StreamInv, showing # None, showing' = showing, NEW n \in Nat \ {0}, seen' = n, n > seen,
         n <= Len(written[showing]), Skippable(showing, n)
  PROVE  ShowsNext
<1>1. showing \in Sessions /\ written[showing] \in Seq(Sizes)
  <2>1. Shown = showing
    BY DEF Shown
  <2> QED
    BY <2>1, ShownIs
<1>2. seen \in Nat /\ BufferLimit \in Nat /\ Sizes \subseteq Nat /\ Len(written[showing]) \in Nat
  BY <1>1, Basics, BoundsAssumption
<1> DEFINE w == written[showing]
<1>3. w \in Seq(Nat)
  BY <1>1, SizesAreNumbers
<1>4. n # seen + 1 => Bytes(w, seen + 1) > BufferLimit
  <2> SUFFICES ASSUME n # seen + 1 PROVE Bytes(w, seen + 1) > BufferLimit
    OBVIOUS
  <2>1. Bytes(w, n - 1) > BufferLimit
    BY <1>2 DEF Skippable
  <2>2. seen + 1 \in 1 .. Len(w) + 1 /\ n - 1 \in seen + 1 .. Len(w) + 1
    BY <1>2
  <2> HIDE DEF w
  <2>3. Bytes(w, n - 1) <= Bytes(w, seen + 1) /\ Bytes(w, n - 1) \in Int /\ Bytes(w, seen + 1) \in Int
    BY <1>3, <2>2, BytesOfFewer
  <2> QED
    BY <1>2, <2>1, <2>3
<1>5. n \in seen + 1 .. Len(written[showing])
  BY <1>2
<1> QED
  BY <1>4, <1>5 DEF ShowsNext

LEMMA TabOutputKeeps ==
  ASSUME StreamInv, TabOutput
  PROVE  StreamInv' /\ (UNCHANGED <<showing, seen>> \/ ShowsNext)
<1>1. /\ Receives("output")
      /\ AlreadyShown(Msg.seq) => UNCHANGED <<seen, missed>>
      /\ ~AlreadyShown(Msg.seq) => seen' = Msg.seq /\ missed' = (missed \/ Msg.seq # seen + 1)
  BY DEF TabOutput
<1>2. UNCHANGED <<sessionVars, tableVars, serverVars, up, broken, conns, status, resume, showing>>
  BY DEF TabOutput
<1>3. PICK c : c = conns
  OBVIOUS
<1>4. /\ Msg = down[c][1] /\ Msg.type = "output" /\ c \in Conns /\ ~Coming'
      /\ \A i \in 1 .. Len(up[c]) : up[c][i].type = "terminate"
      /\ Numbered(Msg) => Shown # None /\ Msg.seq <= Len(written[Shown]) /\ Skippable(Shown, Msg.seq) /\ Msg.seq \in Nat \ {0}
  BY <1>1, <1>2, <1>3, TabListens
<1>5. UNCHANGED <<written, front, exited, created, attached, token, drawn, stage, bound, own, position, gone>>
  BY <1>2 DEF sessionVars, tableVars, serverVars
<1>6. ~Coming /\ Numbered(Msg)
  BY <1>3, <1>4 DEF Coming, Numbered
<1>7. Shown' = Shown /\ Shown = showing
  BY <1>2, <1>4, <1>6 DEF Shown
<1>8. ResumeFits'
  BY <1>2, <1>5, Basics, ResumeStays DEF OldTokens
<1>9. /\ up \in [Conns -> Seq(ToServer)] /\ status \in {"waiting", "live", "ended"} /\ seen \in Nat
      /\ showing \in 0..created /\ resume \in 0..drawn /\ missed \in BOOLEAN
  BY DEF StreamInv, StreamTyped
<1>10. /\ seen' \in Nat /\ missed' \in BOOLEAN /\ TakenAsOutput
       /\ UNCHANGED <<showing, seen>> \/ ShowsNext
  <2>1. CASE Msg.seq <= seen
    <3>1. seen' = seen /\ missed' = missed
      BY <1>1, <2>1 DEF AlreadyShown
    <3> QED
      BY <1>2, <1>9, <2>1, <3>1 DEF TakenAsOutput
  <2>2. CASE ~(Msg.seq <= seen)
    <3>1. seen' = Msg.seq /\ missed' = (missed \/ Msg.seq # seen + 1)
      BY <1>1, <2>2 DEF AlreadyShown
    <3>2. Msg.seq \in Nat \ {0} /\ Msg.seq > seen
      BY <1>4, <1>6, <1>9, <2>2
    <3>3. missed' \in BOOLEAN
      BY <3>1, Zenon
    <3>4. TakenAsOutput
      BY <1>6, <3>1, <3>2, Zenon DEF TakenAsOutput
    <3>5. ShowsNext
      BY <1>2, <1>4, <1>6, <1>7, <3>1, <3>2, NextShown
    <3> QED
      BY <3>1, <3>2, <3>3, <3>4, <3>5
  <2> QED
    BY <2>1, <2>2
<1>11. StreamInv'
  BY <1>1, <1>2, <1>3, <1>4, <1>7, <1>8, <1>9, <1>10, TabTakes
<1> QED
  BY <1>10, <1>11

LEMMA TabClosedKeeps ==
  ASSUME StreamInv, TabClosed
  PROVE  StreamInv' /\ (UNCHANGED <<showing, seen>> \/ ShowsNext)
<1> DEFINE t == [type |-> "terminate"]
<1>1. /\ Receives("closed")
      /\ AlreadyShown(Msg.seq) => UNCHANGED <<up, status, resume, seen, missed>>
      /\ ~AlreadyShown(Msg.seq) => /\ seen' = Msg.seq /\ missed' = (missed \/ Msg.seq # seen + 1)
                                   /\ status' = "ended" /\ resume' = None
                                   /\ up' = [up EXCEPT ![conns] = Append(@, t)]
  BY DEF TabClosed, SendUp
<1>2. UNCHANGED <<sessionVars, tableVars, serverVars, broken, conns, showing>>
  BY DEF TabClosed
<1>3. PICK c : c = conns
  OBVIOUS
<1>4. /\ Msg = down[c][1] /\ Msg.type = "closed" /\ c \in Conns /\ ~Coming'
      /\ \A i \in 1 .. Len(up[c]) : up[c][i].type = "terminate"
      /\ Numbered(Msg) => Shown # None /\ Msg.seq <= Len(written[Shown]) /\ Skippable(Shown, Msg.seq) /\ Msg.seq \in Nat \ {0}
  BY <1>1, <1>2, <1>3, TabListens
<1>5. UNCHANGED <<written, front, exited, created, attached, token, drawn, stage, bound, own, position, gone>>
  BY <1>2 DEF sessionVars, tableVars, serverVars
<1>6. ~Coming /\ Numbered(Msg)
  BY <1>3, <1>4 DEF Coming, Numbered
<1>7. Shown' = Shown /\ Shown = showing
  BY <1>2, <1>4, <1>6 DEF Shown
<1>9. /\ up \in [Conns -> Seq(ToServer)] /\ status \in {"waiting", "live", "ended"} /\ seen \in Nat
      /\ showing \in 0..created /\ resume \in 0..drawn /\ missed \in BOOLEAN /\ drawn \in Nat
  BY DEF StreamInv, StreamTyped
<1>10. t \in ToServer /\ t.type = "terminate"
  BY DEF ToServer
<1> HIDE DEF t
<1>11. CASE Msg.seq <= seen
  <2>1. seen' = seen /\ missed' = missed /\ UNCHANGED <<up, status, resume>>
    BY <1>1, <1>11 DEF AlreadyShown
  <2>2. ResumeFits'
    BY <1>2, <1>5, <2>1, Basics, ResumeStays DEF OldTokens
  <2>3. TakenAsOutput
    BY <1>11, <2>1 DEF TakenAsOutput
  <2>4. StreamInv'
    BY <1>1, <1>2, <1>3, <1>4, <1>7, <1>9, <2>1, <2>2, <2>3, TabTakes
  <2> QED
    BY <1>2, <2>1, <2>4
<1>12. CASE ~(Msg.seq <= seen)
  <2>1. /\ seen' = Msg.seq /\ missed' = (missed \/ Msg.seq # seen + 1) /\ status' = "ended" /\ resume' = None
        /\ up' = [up EXCEPT ![c] = Append(up[c], t)]
    BY <1>1, <1>3, <1>12 DEF AlreadyShown
  <2>2. Msg.seq \in Nat \ {0} /\ Msg.seq > seen
    BY <1>4, <1>6, <1>9, <1>12
  <2>3. missed' \in BOOLEAN
    BY <2>1, Zenon
  <2>4. TakenAsOutput
    BY <1>6, <2>1, <2>2, Zenon DEF TakenAsOutput
  <2>5. ShowsNext
    BY <1>2, <1>4, <1>6, <1>7, <2>1, <2>2, NextShown
  <2>6. ResumeFits'
    BY <2>1 DEF ResumeFits
  <2> DEFINE q == up[c]
  <2>7. /\ Append(q, t) \in Seq(ToServer) /\ Len(Append(q, t)) = Len(q) + 1 /\ Len(q) \in Nat
        /\ Append(q, t)[Len(q) + 1] = t /\ \A i \in 1 .. Len(q) : Append(q, t)[i] = q[i]
    <3>1. q \in Seq(ToServer)
      BY <1>4, <1>9
    <3> HIDE DEF q
    <3> QED
      BY <1>10, <3>1, AppendProperties
  <2>8. ASSUME NEW i \in 1 .. Len(Append(q, t)) PROVE Append(q, t)[i].type = "terminate"
    <3>1. CASE i = Len(q) + 1
      BY <1>10, <2>7, <3>1
    <3>2. CASE i # Len(q) + 1
      <4>1. i \in 1 .. Len(q)
        BY <2>7, <3>2
      <4> QED
        BY <1>4, <2>7, <4>1
    <3> QED
      BY <3>1, <3>2
  <2>9. up' \in [Conns -> Seq(ToServer)] /\ up'[c] = Append(q, t) /\ \A e \in Conns : e # c => up'[e] = up[e]
    BY <1>4, <1>9, <2>1, <2>7
  <2>10. \A i \in 1 .. Len(up'[c]) : up'[c][i].type = "terminate"
    BY <2>8, <2>9
  <2>11. resume' \in 0..drawn /\ seen' \in Nat /\ status' \in {"waiting", "live", "ended"}
    BY <1>9, <2>1, <2>2 DEF None
  <2>12. /\ showing' \in 0..created /\ UNCHANGED <<sessionVars, tableVars, serverVars, broken, conns>>
         /\ up' \in [Conns -> Seq(ToServer)] /\ \A e \in Conns : e # c => up'[e] = up[e]
    BY <1>2, <1>9, <2>9
  <2> HIDE DEF q
  <2>13. StreamInv'
    BY <1>1, <1>3, <1>7, <2>3, <2>4, <2>6, <2>10, <2>11, <2>12, TabTakes
  <2> QED
    BY <2>5, <2>13
<1> QED
  BY <1>11, <1>12

-----------------------------------------------------------------------------
(* The invariant *)

LEMMA StutterKeeps ==
  ASSUME StreamInv, UNCHANGED vars
  PROVE  StreamInv'
<1>1. /\ UNCHANGED <<written, front, exited, created, attached, token, drawn, stage, bound, own, position, gone>>
      /\ UNCHANGED <<up, down, broken, conns, status, resume, showing, seen, missed>>
  BY DEF vars, sessionVars, tableVars, serverVars, netVars, tabVars
<1>2. Shown' = Shown
  BY <1>1 DEF Shown, Coming
<1>3. StreamTyped' /\ Buffers'
  BY <1>1 DEF StreamInv, StreamTyped, Buffers
<1>4. TokensCounted'
  BY <1>1 DEF StreamInv, TokensCounted, Resuming
<1>5. Connections'
  BY <1>1 DEF StreamInv, Connections, ConnectionFits, Unserved
<1>6. OldTokens /\ \A c \in Conns : UpKept(c)
  BY <1>1, Basics DEF OldTokens, UpKept
<1>7. drawn' \in Nat /\ up' \in [Conns -> Seq(ToServer)]
  BY <1>3 DEF StreamTyped
<1>8. Acknowledged'
  BY <1>1, <1>2, <1>6, <1>7, AcknowledgedStays
<1>9. ASSUME NEW e \in Conns, Current(e)' PROVE ControlFits(e)' /\ StreamFits(e)' /\ GapFits(e)'
  <2>1. Current(e) /\ up'[e] \in Seq(ToServer)
    BY <1>1, <1>7, <1>9 DEF Current
  <2>2. created' \in Nat /\ created' >= created
    BY <1>1, Basics
  <2> QED
    BY <1>1, <1>6, <1>7, <2>1, <2>2, SpectatorKept
<1> QED
  BY <1>3, <1>4, <1>5, <1>8, <1>9 DEF StreamInv

LEMMA SessionKeeps ==
  ASSUME StreamInv, NEW s \in Sessions, Write(s) \/ Exit(s) \/ Expire(s)
  PROVE  StreamInv'
<1>1. CASE Write(s)
  <2>1. Emit(s, FALSE) /\ Len(written[s]) < MaxOutput
    BY <1>1 DEF Write
  <2> QED
    BY <2>1, EmitKeeps
<1>2. CASE Exit(s)
  <2>1. Emit(s, TRUE)
    BY <1>2 DEF Exit
  <2> QED
    BY <2>1, EmitKeeps
<1> QED
  BY <1>1, <1>2, ExpireKeeps

LEMMA ServerKeeps ==
  ASSUME StreamInv, NEW c \in Conns, ServerNext(c)
  PROVE  StreamInv'
BY ServerConnectKeeps, ServerRefuseKeeps, ServerResumeKeeps, ServerAttachKeeps, ServerGapKeeps,
   ServerTerminateKeeps, ServerClosedKeeps DEF ServerNext

LEMMA TabKeeps ==
  ASSUME StreamInv, TabReceives
  PROVE  StreamInv'
BY TabReadyKeeps, TabSessionKeeps, TabResumedKeeps, TabResumeFailedKeeps, TabResumeGapKeeps,
   TabOutputKeeps, TabClosedKeeps DEF TabReceives

LEMMA StreamStep == StreamInv /\ [Next]_vars => StreamInv'
<1> SUFFICES ASSUME StreamInv, [Next]_vars PROVE StreamInv'
  OBVIOUS
<1>1. ASSUME NEW s \in Sessions, Write(s) \/ Exit(s) \/ Expire(s) PROVE StreamInv'
  BY <1>1, SessionKeeps
<1>2. ASSUME NEW c \in Conns, ServerNext(c) PROVE StreamInv'
  BY <1>2, ServerKeeps
<1>3. CASE TabOpens \/ TabLoses \/ TabReceives
  BY <1>3, TabOpensKeeps, TabLosesKeeps, TabKeeps
<1>4. CASE UNCHANGED vars
  BY <1>4, StutterKeeps
<1> QED
  BY <1>1, <1>2, <1>3, <1>4 DEF Next

LEMMA StreamInvariant == Spec => []StreamInv
<1>1. Init => StreamInv
  BY StreamInit
<1>2. StreamInv /\ [Next]_vars => StreamInv'
  BY StreamStep
<1> QED
  BY <1>1, <1>2, PTL DEF Spec

-----------------------------------------------------------------------------
(* Every step is a step of the terminal *)

TerminalStep ==
  \/ \E s \in Sessions : /\ \E n \in Sizes : written' = [written EXCEPT ![s] = Append(@, n)]
                         /\ UNCHANGED <<showing, seen>>
  \/ written' = written /\ ShowsNext
  \/ \E s \in Sessions : showing = None /\ showing' = s /\ UNCHANGED <<written, seen>>
  \/ showing' = None /\ seen' = 0 /\ written' = written
  \/ UNCHANGED <<written, showing, seen>>

LEMMA SessionSteps ==
  ASSUME StreamInv, NEW s \in Sessions, Write(s) \/ Exit(s) \/ Expire(s)
  PROVE  TerminalStep
<1>1. ASSUME NEW last \in BOOLEAN, Emit(s, last) PROVE TerminalStep
  <2>1. \E n \in Sizes : written' = [written EXCEPT ![s] = Append(@, n)]
    <3>1. PICK n \in Sizes : written' = [written EXCEPT ![s] = Append(written[s], n)]
      BY <1>1 DEF Emit
    <3>2. written' = [written EXCEPT ![s] = Append(@, n)]
      BY <3>1
    <3> QED
      BY <3>2
  <2>2. UNCHANGED <<showing, seen>>
    BY <1>1 DEF Emit, tabVars
  <2> QED
    BY <2>1, <2>2 DEF TerminalStep
<1>2. CASE Expire(s)
  BY <1>2 DEF Expire, sessionVars, tabVars, TerminalStep
<1> QED
  BY <1>1, <1>2 DEF Write, Exit

LEMMA ServerSteps ==
  ASSUME NEW c \in Conns, ServerNext(c)
  PROVE  UNCHANGED <<written, showing, seen>>
BY DEF ServerNext, ServerConnect, ServerRefuse, ServerResume, ServerAttach, ServerGap, ServerTerminate,
       ServerClosed, sessionVars, tabVars

LEMMA TabSteps ==
  ASSUME StreamInv, TabOpens \/ TabLoses \/ TabReceives
  PROVE  TerminalStep
<1>1. written' = written
  BY DEF TabOpens, TabLoses, TabReceives, TabReady, TabSession, TabResumed, TabResumeFailed, TabResumeGap,
         TabOutput, TabClosed, sessionVars
<1>2. CASE TabOpens
  BY <1>1, <1>2 DEF TabOpens, TerminalStep
<1>3. CASE TabLoses \/ TabReady \/ TabResumed \/ TabResumeGap
  <2>1. UNCHANGED <<showing, seen>>
    BY <1>3 DEF TabLoses, TabReady, TabResumed, TabResumeGap, tabVars
  <2> QED
    BY <1>1, <2>1 DEF TerminalStep
<1>4. CASE TabResumeFailed
  BY <1>1, <1>4 DEF TabResumeFailed, TerminalStep
<1>5. CASE TabSession
  <2>1. showing = None /\ showing' \in Sessions
    BY <1>5, TabSessionKeeps
  <2>2. seen' = seen
    BY <1>5 DEF TabSession
  <2> QED
    BY <1>1, <2>1, <2>2 DEF TerminalStep
<1>6. CASE TabOutput \/ TabClosed
  <2>1. UNCHANGED <<showing, seen>> \/ ShowsNext
    BY <1>6, TabOutputKeeps, TabClosedKeeps
  <2> QED
    BY <1>1, <2>1 DEF TerminalStep
<1> QED
  BY <1>2, <1>3, <1>4, <1>5, <1>6 DEF TabReceives

LEMMA EachStep == StreamInv /\ [Next]_vars => TerminalStep
<1> SUFFICES ASSUME StreamInv, [Next]_vars PROVE TerminalStep
  OBVIOUS
<1>1. ASSUME NEW s \in Sessions, Write(s) \/ Exit(s) \/ Expire(s) PROVE TerminalStep
  BY <1>1, SessionSteps
<1>2. ASSUME NEW c \in Conns, ServerNext(c) PROVE TerminalStep
  BY <1>2, ServerSteps DEF TerminalStep
<1>3. CASE TabOpens \/ TabLoses \/ TabReceives
  BY <1>3, TabSteps
<1>4. CASE UNCHANGED vars
  BY <1>4 DEF vars, sessionVars, tabVars, TerminalStep
<1> QED
  BY <1>1, <1>2, <1>3, <1>4 DEF Next

\* The terminal has shown no more than the session wrote.
SeenFits == IF showing = None THEN seen = 0 ELSE seen <= Len(written[showing])

LEMMA SeenStep == StreamInv /\ SeenFits /\ TerminalStep => SeenFits'
<1> SUFFICES ASSUME StreamInv, SeenFits, TerminalStep PROVE SeenFits'
  OBVIOUS
<1>1. /\ written \in [Sessions -> Seq(Sizes)] /\ seen \in Nat /\ 0 \notin Sessions
      /\ showing # None => showing \in Sessions
  <2>1. written \in [Sessions -> Seq(Sizes)] /\ seen \in Nat
    BY DEF StreamInv, StreamTyped
  <2>2. showing # None => showing \in Sessions
    BY ShownIs DEF Shown
  <2> QED
    BY <2>1, <2>2 DEF Sessions
<1>2. ASSUME NEW s \in Sessions, NEW n \in Sizes, written' = [written EXCEPT ![s] = Append(@, n)],
             UNCHANGED <<showing, seen>>
      PROVE  SeenFits'
  <2>1. ASSUME NEW x \in Sessions PROVE Len(written'[x]) >= Len(written[x]) /\ Len(written[x]) \in Nat /\ Len(written'[x]) \in Nat
    <3>1. written[x] \in Seq(Sizes) /\ Len(written[x]) \in Nat
      BY <1>1
    <3>2. Len(Append(written[x], n)) = Len(written[x]) + 1
      BY <3>1
    <3>3. written'[x] = written[x] \/ written'[x] = Append(written[x], n)
      BY <1>1, <1>2
    <3> QED
      BY <3>1, <3>2, <3>3
  <2> QED
    BY <1>1, <1>2, <2>1 DEF SeenFits
<1>3. CASE written' = written /\ ShowsNext
  <2>1. Len(written[showing]) \in Nat
    <3>1. showing \in Sessions
      BY <1>1, <1>3 DEF ShowsNext
    <3>2. written[showing] \in Seq(Sizes)
      BY <1>1, <3>1
    <3> QED
      BY <3>2
  <2> QED
    BY <1>1, <1>3, <2>1 DEF ShowsNext, SeenFits
<1>4. ASSUME NEW s \in Sessions, showing = None, showing' = s, UNCHANGED <<written, seen>> PROVE SeenFits'
  <2>1. Len(written[s]) \in Nat
    <3>1. written[s] \in Seq(Sizes)
      BY <1>1, <1>4
    <3> QED
      BY <3>1
  <2> QED
    BY <1>4, <2>1 DEF SeenFits
<1>5. CASE showing' = None /\ seen' = 0 /\ written' = written
  BY <1>5 DEF SeenFits
<1>6. CASE UNCHANGED <<written, showing, seen>>
  BY <1>6 DEF SeenFits
<1> QED
  BY <1>2, <1>3, <1>4, <1>5, <1>6 DEF TerminalStep

LEMMA SeenInvariant == Spec => []SeenFits
<1>1. Init => SeenFits
  BY DEF Init, SeenFits
<1>2. StreamInv /\ SeenFits /\ [Next]_vars => SeenFits'
  BY EachStep, SeenStep
<1> QED
  BY <1>1, <1>2, StreamInvariant, PTL DEF Spec

-----------------------------------------------------------------------------
(* The theorems *)

\* Every variable keeps to its values: no buffer begins beyond its messages,
\* there are never more tokens than sessions and connections, and the terminal
\* is never ahead of the session.
THEOREM StreamTypes == Spec => []TypeOK
<1>1. StreamInv /\ SeenFits => TypeOK
  <2> SUFFICES ASSUME StreamInv, SeenFits PROVE TypeOK
    OBVIOUS
  <2>1. /\ MaxConns \in Nat /\ MaxSessions \in Nat /\ MaxOutput \in Nat
        /\ conns \in 0..MaxConns /\ created \in 0..MaxSessions /\ drawn \in Nat
    BY BoundsAssumption DEF StreamInv, StreamTyped
  <2>2. drawn <= MaxTokens /\ MaxTokens \in Nat
    <3>1. IsFiniteSet(Resuming)
      <4>1. IsFiniteSet(1 .. conns)
        BY <2>1, FS_Interval
      <4> QED
        BY <4>1, FS_Subset DEF Resuming
    <3>2. Cardinality(Resuming) \in Nat
      BY <3>1, FS_CardinalityType
    <3>3. drawn + Cardinality(Resuming) <= created + conns
      BY DEF StreamInv, TokensCounted
    <3> QED
      BY <2>1, <3>2, <3>3 DEF MaxTokens
  <2>3. /\ attached \in [Sessions -> Conns \cup {None}]
        /\ bound \in [Conns -> Sessions \cup {None}]
        /\ showing \in Sessions \cup {None}
    <3>1. 0..conns \subseteq Conns \cup {None} /\ 0..created \subseteq Sessions \cup {None}
      BY <2>1 DEF Conns, Sessions, None
    <3> QED
      BY <3>1 DEF StreamInv, StreamTyped
  <2>4. /\ token \in [Sessions -> 0..MaxTokens] /\ own \in [Conns -> 0..MaxTokens]
        /\ resume \in 0..MaxTokens /\ drawn \in 0..MaxTokens
    <3>1. 0..drawn \subseteq 0..MaxTokens
      BY <2>1, <2>2
    <3> QED
      BY <2>1, <2>2, <3>1 DEF StreamInv, StreamTyped
  <2>5. ASSUME NEW s \in Sessions
        PROVE  front[s] \in 1..Len(written[s]) + 1 /\ Len(written[s]) \in Nat /\ Len(written[s]) <= MaxOutput + 1
    <3>1. front[s] \in Nat \ {0} /\ written[s] \in Seq(Sizes)
      BY DEF StreamInv, StreamTyped
    <3>2. Len(written[s]) \in Nat
      BY <3>1
    <3> QED
      BY <2>1, <3>1, <3>2 DEF StreamInv, Buffers
  <2>6. seen \in 0..MaxOutput + 1
    <3>1. seen \in Nat
      BY DEF StreamInv, StreamTyped
    <3>2. seen <= MaxOutput + 1
      BY <2>1, <2>3, <2>5, <3>1 DEF SeenFits
    <3> QED
      BY <2>1, <3>1, <3>2
  <2> QED
    BY <2>1, <2>3, <2>4, <2>5, <2>6 DEF TypeOK, StreamInv, StreamTyped
<1> QED
  BY <1>1, StreamInvariant, SeenInvariant, PTL

\* On no connection does what Attach replays and what the session sends before
\* and after it leave a hole, repeat a message or change the order.
THEOREM StreamPromise == Spec => []NoHoleInStream
<1>1. StreamInv => NoHoleInStream
  <2> SUFFICES ASSUME StreamInv, NEW c \in Conns, NEW i \in Stream(c), NEW j \in Stream(c), Follows(c, i, j)
               PROVE  down[c][j].seq = down[c][i].seq + 1
    BY DEF NoHoleInStream
  <2>1. down[c] # <<>>
    BY DEF Stream
  <2>2. Current(c)
    BY <2>1 DEF StreamInv, Connections, ConnectionFits, Current
  <2> QED
    BY <2>2 DEF StreamInv, StreamFits
<1> QED
  BY <1>1, StreamInvariant, PTL

\* When the tab reads "resume-gap", its terminal lacks output.
THEOREM GapPromise == Spec => []GapNoticeIsTrue
<1>1. StreamInv => GapNoticeIsTrue
  <2> SUFFICES ASSUME StreamInv, conns # 0, down[conns] # <<>>, Msg.type = "resume-gap" PROVE missed
    BY DEF GapNoticeIsTrue
  <2>1. PICK c : c = conns
    OBVIOUS
  <2>2. c \in Conns /\ down[c] \in Seq(ToTab) /\ down[c] # <<>>
    <3>1. conns \in Conns
      BY Basics DEF Conns
    <3> QED
      BY <2>1, <3>1 DEF StreamInv, StreamTyped
  <2>3. 1 \in 1..Len(down[c]) /\ Msg = down[c][1]
    BY <2>1, <2>2 DEF Msg
  <2>4. Current(c)
    BY <2>1, <2>2 DEF StreamInv, Connections, ConnectionFits, Current
  <2>5. Lacks(c, 1)
    BY <2>2, <2>3, <2>4 DEF StreamInv, GapFits
  <2>6. \A i \in Stream(c) : ~(i < 1)
    <3>1. Len(down[c]) \in Nat
      BY <2>2
    <3> QED
      BY <3>1 DEF Stream
  <2> QED
    BY <2>5, <2>6 DEF Lacks
<1> QED
  BY <1>1, StreamInvariant, PTL

\* What a user sees is what TerminalOutput promises: the messages of one
\* session in order, none twice, and none skipped unless more bytes than the
\* buffer holds were waiting.
THEOREM TerminalPromise == Spec => ImplementsTerminal
<1>1. Init => Terminal!Init
  BY DEF Init, Terminal!Init
<1>2. StreamInv /\ [Next]_vars => [Terminal!Next]_(Terminal!vars)
  <2> SUFFICES ASSUME TerminalStep PROVE [Terminal!Next]_(Terminal!vars)
    BY EachStep
  <2>1. ASSUME NEW s \in Sessions, \E n \in Sizes : written' = [written EXCEPT ![s] = Append(@, n)],
               UNCHANGED <<showing, seen>>
        PROVE  Terminal!Next
    BY <2>1 DEF Terminal!Next, Terminal!Write
  <2>2. CASE written' = written /\ ShowsNext
    <3>1. Terminal!Bytes(written[showing], seen + 1) = Bytes(written[showing], seen + 1)
      BY DEF Bytes, BytesUpTo, Terminal!Bytes, Terminal!BytesUpTo
    <3>2. Terminal!Show
      BY <2>2, <3>1 DEF ShowsNext, Terminal!Show
    <3> QED
      BY <3>2 DEF Terminal!Next
  <2>3. ASSUME NEW s \in Sessions, showing = None, showing' = s, UNCHANGED <<written, seen>> PROVE Terminal!Next
    BY <2>3 DEF Terminal!Next, Terminal!Enter
  <2>4. CASE showing' = None /\ seen' = 0 /\ written' = written
    BY <2>4 DEF Terminal!Next, Terminal!Leave
  <2>5. CASE UNCHANGED <<written, showing, seen>>
    BY <2>5 DEF Terminal!vars
  <2> QED
    BY <2>1, <2>2, <2>3, <2>4, <2>5 DEF TerminalStep
<1> QED
  BY <1>1, <1>2, StreamInvariant, PTL DEF Spec, ImplementsTerminal, Terminal!Spec

=============================================================================
