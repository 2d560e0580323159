----------------------------- MODULE TelnetProofs -----------------------------
(***************************************************************************)
(* The streams of a Telnet session, for any sequence of items, commands    *)
(* and pieces of any length.  The parser is a loop over bytes, so what it  *)
(* does to two pieces is what it does to them joined (ParseJoined); from   *)
(* that follows what it does to everything the two sides write (Takes).    *)
(***************************************************************************)
EXTENDS Telnet, Induction, SequenceTheorems

-----------------------------------------------------------------------------
(* The parser *)

ParserStates == {"Data", "Iac", "Option", "Sub", "SubIac"}
Verbs == {WILL, WONT, DO, DONT}
Parsers == {p \in [state : ParserStates, verb : Verbs \cup {0}, sub : Seq(Nat)] :
              p.state = "Option" => p.verb \in Verbs}
Results == [p : Parsers, data : Seq(Nat), answers : Seq(Nat)]

Put(p, s) == [state |-> s, verb |-> p.verb, sub |-> p.sub]

\* What a byte does to the parser, and what it adds to the data and answers.
ParserAfter(p, b) ==
  CASE p.state = "Data" -> IF b = IAC THEN Put(p, "Iac") ELSE p
    [] p.state = "Iac" -> CASE b = IAC -> Put(p, "Data")
                            [] b \in Verbs -> [state |-> "Option", verb |-> b, sub |-> p.sub]
                            [] b = SB -> [state |-> "Sub", verb |-> p.verb, sub |-> <<>>]
                            [] OTHER -> Put(p, "Data")
    [] p.state = "Option" -> Put(p, "Data")
    [] p.state = "Sub" -> IF b = IAC THEN Put(p, "SubIac")
                          ELSE [state |-> "Sub", verb |-> p.verb, sub |-> Append(p.sub, b)]
    [] p.state = "SubIac" -> CASE b = SE -> Put(p, "Data")
                               [] b = IAC -> [state |-> "Sub", verb |-> p.verb, sub |-> Append(p.sub, b)]
                               [] OTHER -> Put(p, "Sub")

DataOf(p, b) ==
  IF (p.state = "Data" /\ b # IAC) \/ (p.state = "Iac" /\ b = IAC) THEN <<b>> ELSE <<>>

AnswerTo(p, b) ==
  CASE p.state = "Option" -> OptionAnswer(p.verb, b)
    [] p.state = "SubIac" /\ b = SE ->
         IF Len(p.sub) >= 2 /\ SubSeq(p.sub, 1, 2) = <<TerminalType, 1>> THEN TerminalName ELSE <<>>
    [] OTHER -> <<>>

LEMMA ByteIs ==
  ASSUME NEW r \in Results, NEW b \in Nat
  PROVE  Byte(r, b) = [p |-> ParserAfter(r.p, b), data |-> r.data \o DataOf(r.p, b),
                       answers |-> r.answers \o AnswerTo(r.p, b)]
<1>1. r.p \in Parsers /\ r.data \in Seq(Nat) /\ r.answers \in Seq(Nat)
      /\ r = [p |-> r.p, data |-> r.data, answers |-> r.answers]
  BY DEF Results
<1>2. r.data \o <<>> = r.data /\ r.answers \o <<>> = r.answers /\ Append(r.data, b) = r.data \o <<b>>
  BY <1>1
<1>3. r.p = [state |-> r.p.state, verb |-> r.p.verb, sub |-> r.p.sub] /\ r.p.state \in ParserStates
  BY <1>1 DEF Parsers
<1>9. \A s \in ParserStates :
        InState(r, s) = [p |-> Put(r.p, s),
                         data |-> r.data, answers |-> r.answers]
  BY <1>1, <1>3 DEF InState, Put
<1>4. CASE r.p.state = "Data"
  <2> USE <1>1, <1>2, <1>3, <1>4, <1>9 DEF ParserStates, ParserAfter, DataOf, AnswerTo
  <2>1. CASE b = IAC
    <3>1. Byte(r, b) = InState(r, "Iac")
      BY <2>1 DEF Byte
    <3> QED
      BY <2>1, <3>1
  <2>2. CASE b # IAC
    <3>1. Byte(r, b) = [r EXCEPT !.data = Append(@, b)]
      BY <2>2 DEF Byte
    <3>2. Byte(r, b) = [p |-> r.p, data |-> Append(r.data, b), answers |-> r.answers]
      BY <3>1
    <3> QED
      BY <2>2, <3>2
  <2> QED
    BY <2>1, <2>2
<1>5. CASE r.p.state = "Iac"
  <2> USE <1>1, <1>2, <1>3, <1>5, <1>9 DEF ParserStates, ParserAfter, DataOf, AnswerTo, Verbs, IAC, WILL, WONT, DO, DONT, SB
  <2>1. CASE b = IAC
    <3>1. Byte(r, b) = [InState(r, "Data") EXCEPT !.data = Append(@, b)]
      BY <2>1 DEF Byte
    <3>2. Byte(r, b) = [[p |-> Put(r.p, "Data"), data |-> r.data, answers |-> r.answers] EXCEPT !.data = Append(@, b)]
      BY <1>9, <3>1 DEF ParserStates
    <3>3. Byte(r, b) = [p |-> Put(r.p, "Data"), data |-> Append(r.data, b), answers |-> r.answers]
      BY <3>2
    <3>4. ParserAfter(r.p, b) = Put(r.p, "Data")
      BY <2>1
    <3>5. r.data \o DataOf(r.p, b) = Append(r.data, b) /\ r.answers \o AnswerTo(r.p, b) = r.answers
      BY <2>1
    <3> QED
      BY <3>3, <3>4, <3>5
  <2>2. CASE b \in Verbs
    <3>1. Byte(r, b) = [InState(r, "Option") EXCEPT !.p.verb = b]
      BY <2>2 DEF Byte
    <3>2. Byte(r, b) = [[p |-> Put(r.p, "Option"), data |-> r.data, answers |-> r.answers] EXCEPT !.p.verb = b]
      BY <1>9, <3>1 DEF ParserStates
    <3>3. Byte(r, b) = [p |-> [state |-> "Option", verb |-> b, sub |-> r.p.sub], data |-> r.data, answers |-> r.answers]
      BY <3>2 DEF Put
    <3>4. ParserAfter(r.p, b) = [state |-> "Option", verb |-> b, sub |-> r.p.sub]
      BY <2>2
    <3>5. r.data \o DataOf(r.p, b) = r.data /\ r.answers \o AnswerTo(r.p, b) = r.answers
      BY <2>2
    <3> QED
      BY <3>3, <3>4, <3>5
  <2>3. CASE b = SB
    <3>1. Byte(r, b) = [InState(r, "Sub") EXCEPT !.p.sub = <<>>]
      BY <2>3 DEF Byte
    <3>2. Byte(r, b) = [[p |-> Put(r.p, "Sub"), data |-> r.data, answers |-> r.answers] EXCEPT !.p.sub = <<>>]
      BY <1>9, <3>1 DEF ParserStates
    <3>3. Byte(r, b) = [p |-> [state |-> "Sub", verb |-> r.p.verb, sub |-> <<>>], data |-> r.data, answers |-> r.answers]
      BY <3>2 DEF Put
    <3>4. ParserAfter(r.p, b) = [state |-> "Sub", verb |-> r.p.verb, sub |-> <<>>]
      BY <2>3
    <3>5. r.data \o DataOf(r.p, b) = r.data /\ r.answers \o AnswerTo(r.p, b) = r.answers
      BY <2>3
    <3> QED
      BY <3>3, <3>4, <3>5
  <2>4. CASE b \notin Verbs \cup {IAC, SB}
    <3>1. Byte(r, b) = InState(r, "Data")
      BY <2>4 DEF Byte
    <3> QED
      BY <2>4, <3>1
  <2> QED
    BY <2>1, <2>2, <2>3, <2>4
<1>6. CASE r.p.state = "Option"
  <2> USE <1>1, <1>2, <1>3, <1>6, <1>9 DEF ParserStates
  <2>1. Byte(r, b) = [InState(r, "Data") EXCEPT !.answers = @ \o OptionAnswer(r.p.verb, b)]
    BY DEF Byte
  <2>2. Byte(r, b) = [[p |-> Put(r.p, "Data"), data |-> r.data, answers |-> r.answers]
                        EXCEPT !.answers = @ \o OptionAnswer(r.p.verb, b)]
    BY <2>1
  <2>3. Byte(r, b) = [p |-> Put(r.p, "Data"), data |-> r.data,
                      answers |-> r.answers \o OptionAnswer(r.p.verb, b)]
    BY <2>2
  <2> QED
    BY <2>3 DEF ParserAfter, DataOf, AnswerTo
<1>7. CASE r.p.state = "Sub"
  <2> USE <1>1, <1>2, <1>3, <1>7, <1>9 DEF ParserStates, ParserAfter, DataOf, AnswerTo
  <2>1. CASE b = IAC
    <3>1. Byte(r, b) = InState(r, "SubIac")
      BY <2>1 DEF Byte
    <3> QED
      BY <2>1, <3>1
  <2>2. CASE b # IAC
    <3>1. Byte(r, b) = [r EXCEPT !.p.sub = Append(@, b)]
      BY <2>2 DEF Byte
    <3>2. Byte(r, b) = [p |-> [r.p EXCEPT !.sub = Append(@, b)], data |-> r.data, answers |-> r.answers]
      BY <3>1
    <3>3. [r.p EXCEPT !.sub = Append(@, b)] = [state |-> "Sub", verb |-> r.p.verb, sub |-> Append(r.p.sub, b)]
      <4>1. [r.p EXCEPT !.sub = Append(@, b)]
              = [[state |-> "Sub", verb |-> r.p.verb, sub |-> r.p.sub] EXCEPT !.sub = Append(@, b)]
        OBVIOUS
      <4> QED
        BY ONLY <4>1, SMTT(30)
    <3> QED
      BY <2>2, <3>2, <3>3
  <2> QED
    BY <2>1, <2>2
<1>8. CASE r.p.state = "SubIac"
  <2> USE <1>1, <1>2, <1>3, <1>8, <1>9 DEF ParserStates, ParserAfter, DataOf, AnswerTo, IAC, SE
  <2>1. CASE b = SE
    <3>1. Byte(r, b) = [InState(r, "Data") EXCEPT !.answers = @ \o AnswerTo(r.p, b)]
      BY <2>1 DEF Byte
    <3> HIDE DEF AnswerTo
    <3>2. Byte(r, b) = [[p |-> Put(r.p, "Data"), data |-> r.data, answers |-> r.answers] EXCEPT !.answers = @ \o AnswerTo(r.p, b)]
      BY <1>9, <3>1 DEF ParserStates
    <3>3. Byte(r, b) = [p |-> Put(r.p, "Data"), data |-> r.data, answers |-> r.answers \o AnswerTo(r.p, b)]
      BY <3>2
    <3>4. ParserAfter(r.p, b) = Put(r.p, "Data")
      BY <2>1
    <3>5. r.data \o DataOf(r.p, b) = r.data /\ r.answers \o AnswerTo(r.p, b) = r.answers \o AnswerTo(r.p, b)
      BY <2>1
    <3> QED
      BY <3>3, <3>4, <3>5
  <2>2. CASE b = IAC
    <3>1. Byte(r, b) = [InState(r, "Sub") EXCEPT !.p.sub = Append(@, b)]
      BY <2>2 DEF Byte
    <3>2. Byte(r, b) = [[p |-> Put(r.p, "Sub"), data |-> r.data, answers |-> r.answers] EXCEPT !.p.sub = Append(@, b)]
      BY <1>9, <3>1 DEF ParserStates
    <3>3. Byte(r, b) = [p |-> [state |-> "Sub", verb |-> r.p.verb, sub |-> Append(r.p.sub, b)], data |-> r.data, answers |-> r.answers]
      BY <3>2 DEF Put
    <3>4. ParserAfter(r.p, b) = [state |-> "Sub", verb |-> r.p.verb, sub |-> Append(r.p.sub, b)]
      BY <2>2
    <3>5. r.data \o DataOf(r.p, b) = r.data /\ r.answers \o AnswerTo(r.p, b) = r.answers
      BY <2>2
    <3> QED
      BY <3>3, <3>4, <3>5
  <2>3. CASE b \notin {SE, IAC}
    <3>1. Byte(r, b) = InState(r, "Sub")
      BY <2>3 DEF Byte
    <3> QED
      BY <2>3, <3>1
  <2> QED
    BY <2>1, <2>2, <2>3
<1> QED
  BY <1>3, <1>4, <1>5, <1>6, <1>7, <1>8 DEF ParserStates

-----------------------------------------------------------------------------
(* Joining sequences *)

\* What FlattenSeq adds up, up to the n-th part.
Joins(f, parts, n) ==
  /\ f \in [0 .. n -> Seq(Nat)]
  /\ f[0] = <<>>
  /\ \A k \in 1 .. n : f[k] = f[k - 1] \o parts[k]

LEMMA JoinsExist ==
  ASSUME NEW parts \in Seq(Seq(Nat))
  PROVE  \E f : Joins(f, parts, Len(parts))
<1> DEFINE S == {n \in Nat : n <= Len(parts) => \E f : Joins(f, parts, n)}
<1>1. 0 \in S
  <2>1. Joins([k \in 0 .. 0 |-> <<>>], parts, 0)
    BY DEF Joins
  <2> QED
    BY <2>1
<1>2. ASSUME NEW n \in Nat, n \in S PROVE n + 1 \in S
  <2> SUFFICES ASSUME n + 1 <= Len(parts) PROVE \E f : Joins(f, parts, n + 1)
    OBVIOUS
  <2>1. PICK f : Joins(f, parts, n)
    BY <1>2
  <2>2. parts[n + 1] \in Seq(Nat) /\ n \in 0 .. n
    OBVIOUS
  <2> DEFINE x == f[n] \o parts[n + 1]
             g == [k \in 0 .. n + 1 |-> IF k = n + 1 THEN x ELSE f[k]]
  <2>3. x \in Seq(Nat) /\ \A k \in 0 .. n : f[k] \in Seq(Nat)
    BY <2>1, <2>2 DEF Joins
  <2> HIDE DEF x
  <2>4. g \in [0 .. n + 1 -> Seq(Nat)]
    BY <2>3
  <2>5. g[n + 1] = x /\ \A k \in 0 .. n : g[k] = f[k]
    OBVIOUS
  <2> HIDE DEF g
  <2>6. ASSUME NEW k \in 1 .. n + 1 PROVE g[k] = g[k - 1] \o parts[k]
    <3>1. CASE k = n + 1
      <4>1. k - 1 = n /\ g[n] = f[n]
        BY <2>2, <2>5, <3>1
      <4> QED
        BY <2>5, <3>1, <4>1 DEF x
    <3>2. CASE k # n + 1
      <4>1. k \in 1 .. n /\ k \in 0 .. n /\ k - 1 \in 0 .. n
        BY <3>2
      <4> QED
        BY <2>1, <2>5, <4>1 DEF Joins
    <3> QED
      BY <3>1, <3>2
  <2>7. g[0] = <<>>
    <3>1. 0 \in 0 .. n
      OBVIOUS
    <3> QED
      BY <2>1, <2>5, <3>1 DEF Joins
  <2>8. Joins(g, parts, n + 1)
    BY <2>4, <2>6, <2>7 DEF Joins
  <2> QED
    BY <2>8
<1>3. Nat \subseteq S
  <2> HIDE DEF S
  <2> QED
    BY <1>1, <1>2, SetInduction
<1>4. Len(parts) \in S
  <2> HIDE DEF S
  <2> QED
    BY <1>3
<1> QED
  BY <1>4

LEMMA FlattenJoins ==
  ASSUME NEW parts \in Seq(Seq(Nat))
  PROVE  \E f : Joins(f, parts, Len(parts)) /\ FlattenSeq(parts) = f[Len(parts)]
<1> DEFINE n == Len(parts)
<1>1. n \in Nat /\ \A k \in 1 .. n : parts[k] \in Seq(Nat)
  OBVIOUS
<1>2. PICK g : Joins(g, parts, n)
  BY JoinsExist
<1>3. CASE n = 0
  <2>1. parts = <<>> /\ g[0] = <<>>
    BY <1>2, <1>3 DEF Joins
  <2>2. FlattenSeq(parts) = <<>>
    BY <2>1 DEF FlattenSeq
  <2> QED
    BY <1>2, <1>3, <2>1, <2>2
<1>4. CASE n > 0
  <2> DEFINE Def(f) == f = [i \in 1 .. n |-> IF i = 1 THEN parts[i] ELSE f[i - 1] \o parts[i]]
             h == CHOOSE f : Def(f)
             d == [i \in 1 .. n |-> g[i]]
  <2>1. g[1] = parts[1]
    <3>1. 1 \in 1 .. n /\ 1 - 1 = 0 /\ parts[1] \in Seq(Nat)
      BY <1>1, <1>4
    <3>2. g[1] = <<>> \o parts[1]
      BY <1>2, <3>1 DEF Joins
    <3> QED
      BY <3>1, <3>2
  <2>2. ASSUME NEW i \in 1 .. n
        PROVE  d[i] = IF i = 1 THEN parts[i] ELSE d[i - 1] \o parts[i]
    <3>1. i # 1 => i - 1 \in 1 .. n
      BY <1>1
    <3>2. g[i] = g[i - 1] \o parts[i]
      BY <1>2 DEF Joins
    <3> QED
      BY <2>1, <3>1, <3>2
  <2>3. Def(d)
    <3> DEFINE e == [i \in 1 .. n |-> IF i = 1 THEN parts[i] ELSE d[i - 1] \o parts[i]]
    <3>1. \A i \in 1 .. n : d[i] = e[i]
      BY <2>2
    <3>2. d = [i \in 1 .. n |-> d[i]] /\ e = [i \in 1 .. n |-> e[i]]
      OBVIOUS
    <3> HIDE DEF d
    <3>3. d = e
      <4> HIDE DEF e
      <4> QED
        BY <3>1, <3>2
    <3> QED
      BY <3>3
  <2>4. Def(h)
    <3>1. \E f : Def(f)
      BY <2>3
    <3> HIDE DEF Def
    <3> QED
      BY <3>1
  <2>5. FlattenSeq(parts) = h[n]
    BY <1>1, <1>4 DEF FlattenSeq
  <2> HIDE DEF h
  <2>6. \A k \in 1 .. n : h[k] = IF k = 1 THEN parts[k] ELSE h[k - 1] \o parts[k]
    <3> TAKE k \in 1 .. n
    <3>1. h = [i \in 1 .. n |-> IF i = 1 THEN parts[i] ELSE h[i - 1] \o parts[i]]
      BY <2>4
    <3>2. h[k] = [i \in 1 .. n |-> IF i = 1 THEN parts[i] ELSE h[i - 1] \o parts[i]][k]
      BY <3>1
    <3> QED
      BY <3>2
  <2> DEFINE S == {k \in Nat : k > 0 /\ k <= n => h[k] = g[k]}
  <2>7. 0 \in S
    OBVIOUS
  <2>8. ASSUME NEW k \in Nat, k \in S PROVE k + 1 \in S
    <3> SUFFICES ASSUME k + 1 <= n PROVE h[k + 1] = g[k + 1]
      OBVIOUS
    <3>1. k + 1 \in 1 .. n /\ (k + 1) - 1 = k
      BY <1>1
    <3>2. CASE k = 0
      BY <2>1, <2>6, <3>1, <3>2
    <3>3. CASE k # 0
      <4>1. k + 1 # 1 /\ k > 0 /\ k <= n
        BY <1>1, <3>3
      <4>2. h[k] = g[k]
        BY <2>8, <4>1
      <4>3. h[k + 1] = h[k] \o parts[k + 1]
        BY <2>6, <3>1, <4>1
      <4>4. g[k + 1] = g[k] \o parts[k + 1]
        BY <1>2, <3>1 DEF Joins
      <4> QED
        BY <4>2, <4>3, <4>4
    <3> QED
      BY <3>2, <3>3
  <2>9. Nat \subseteq S
    <3> HIDE DEF S
    <3> QED
      BY <2>7, <2>8, SetInduction
  <2>10. h[n] = g[n]
    BY <1>1, <1>4, <2>9
  <2> QED
    BY <1>2, <2>5, <2>10
<1> QED
  BY <1>1, <1>3, <1>4

LEMMA FlattenTyped ==
  ASSUME NEW parts \in Seq(Seq(Nat))
  PROVE  FlattenSeq(parts) \in Seq(Nat)
<1>1. PICK f : Joins(f, parts, Len(parts)) /\ FlattenSeq(parts) = f[Len(parts)]
  BY FlattenJoins
<1>2. Len(parts) \in 0 .. Len(parts)
  OBVIOUS
<1> QED
  BY <1>1, <1>2 DEF Joins

\* The parts EscapeIac joins.
Escapes(data) == [i \in DOMAIN data |-> IF data[i] = IAC THEN <<IAC, IAC>> ELSE <<data[i]>>]

LEMMA EscapesTyped ==
  ASSUME NEW d \in Seq(Nat)
  PROVE  /\ Escapes(d) \in Seq(Seq(Nat)) /\ Len(Escapes(d)) = Len(d)
         /\ EscapeIac(d) = FlattenSeq(Escapes(d)) /\ EscapeIac(d) \in Seq(Nat)
<1>1. /\ DOMAIN d = 1 .. Len(d) /\ Len(d) \in Nat /\ IAC \in Nat
      /\ \A i \in 1 .. Len(d) : d[i] \in Nat
  BY DEF IAC
<1>2. ASSUME NEW i \in 1 .. Len(d)
      PROVE  (IF d[i] = IAC THEN <<IAC, IAC>> ELSE <<d[i]>>) \in Seq(Nat)
  BY <1>1
<1>3. Escapes(d) \in Seq(Seq(Nat)) /\ Len(Escapes(d)) = Len(d)
  <2>1. Escapes(d) \in [1 .. Len(d) -> Seq(Nat)]
    BY <1>1, <1>2 DEF Escapes
  <2> QED
    BY <1>1, <2>1
<1>4. EscapeIac(d) = FlattenSeq(Escapes(d))
  BY DEF EscapeIac, Escapes
<1> QED
  BY <1>3, <1>4, FlattenTyped

-----------------------------------------------------------------------------
(* A loop over the bytes *)

LEMMA SmallNumbers ==
  /\ FirstWindow \in Nat \X Nat
  /\ \A window \in Nat \X Nat :
       <<Clamped(window[1]) \div 256, Clamped(window[1]) % 256,
         Clamped(window[2]) \div 256, Clamped(window[2]) % 256>> \in Seq(Nat)
<1>1. FirstWindow \in Nat \X Nat
  <2>1. \E x \in Heights : \A y \in Heights : x <= y
    BY TelnetAssumption, LeastNat
  <2>2. Min(Heights) \in Heights
    BY <2>1 DEF Min
  <2> QED
    BY <2>2, TelnetAssumption DEF FirstWindow
<1>2. \A n \in Nat : Clamped(n) \div 256 \in Nat /\ Clamped(n) % 256 \in Nat
  <2> TAKE n \in Nat
  <2>1. Clamped(n) \in 2 .. 1000
    BY DEF Clamped
  <2> QED
    BY <2>1
<1> QED
  BY <1>1, <1>2

LEMMA WindowSizeTyped ==
  ASSUME NEW window \in Nat \X Nat
  PROVE  WindowSize(window) \in Seq(Nat)
<1> DEFINE d == <<Clamped(window[1]) \div 256, Clamped(window[1]) % 256,
                  Clamped(window[2]) \div 256, Clamped(window[2]) % 256>>
<1>1. d \in Seq(Nat)
  BY SmallNumbers
<1>2. <<IAC, SB, NAWS>> \in Seq(Nat) /\ <<IAC, SE>> \in Seq(Nat)
  BY DEF IAC, SB, NAWS, SE
<1>3. WindowSize(window) = <<IAC, SB, NAWS>> \o EscapeIac(d) \o <<IAC, SE>>
  BY DEF WindowSize
<1> HIDE DEF d
<1> QED
  BY <1>1, <1>2, <1>3, EscapesTyped

LEMMA StepTyped ==
  ASSUME NEW p \in Parsers, NEW b \in Nat
  PROVE  ParserAfter(p, b) \in Parsers /\ DataOf(p, b) \in Seq(Nat) /\ AnswerTo(p, b) \in Seq(Nat)
<1>1. p.state \in ParserStates /\ p.verb \in Verbs \cup {0} /\ p.sub \in Seq(Nat)
      /\ (p.state = "Option" => p.verb \in Verbs)
  BY DEF Parsers
<1>2. Append(p.sub, b) \in Seq(Nat) /\ <<>> \in Seq(Nat) /\ <<b>> \in Seq(Nat)
  BY <1>1
<1>3. ParserAfter(p, b) \in Parsers
  <2>1. \A s \in ParserStates : s # "Option" =>
          /\ Put(p, s) \in Parsers
          /\ [state |-> s, verb |-> p.verb, sub |-> <<>>] \in Parsers
          /\ [state |-> s, verb |-> p.verb, sub |-> Append(p.sub, b)] \in Parsers
    BY <1>1, <1>2 DEF Parsers, Put
  <2>2. b \in Verbs => [state |-> "Option", verb |-> b, sub |-> p.sub] \in Parsers
    BY <1>1 DEF Parsers, ParserStates
  <2>3. CASE p.state = "Iac"
    BY <1>1, <2>1, <2>2, <2>3 DEF ParserAfter, ParserStates
  <2>4. CASE p.state # "Iac"
    BY <1>1, <2>1, <2>4 DEF ParserAfter, ParserStates
  <2> QED
    BY <2>3, <2>4
<1>4. DataOf(p, b) \in Seq(Nat)
  BY <1>2 DEF DataOf
<1>5. AnswerTo(p, b) \in Seq(Nat)
  <2>1. ASSUME NEW v \in Verbs PROVE OptionAnswer(v, b) \in Seq(Nat)
    <3>1. Response(v, b) \in Nat
      BY DEF Response, WILL, WONT, DO, DONT
    <3>2. Negotiation(Response(v, b), b) \in Seq(Nat)
      BY <3>1 DEF Negotiation, IAC
    <3>3. WindowSize(FirstWindow) \in Seq(Nat)
      BY SmallNumbers, WindowSizeTyped
    <3> QED
      BY <1>2, <3>2, <3>3 DEF OptionAnswer
  <2>2. TerminalName \in Seq(Nat)
    BY DEF TerminalName, IAC, SB, TerminalType, SE
  <2> QED
    BY <1>1, <1>2, <2>1, <2>2 DEF AnswerTo
<1> QED
  BY <1>3, <1>4, <1>5

\* The function that Parse follows, up to the n-th byte.
Runs(f, p, bytes, n) ==
  /\ f \in [0 .. n -> Results]
  /\ f[0] = Start(p)
  /\ \A k \in 1 .. n : f[k] = Byte(f[k - 1], bytes[k])

LEMMA ByteTyped ==
  ASSUME NEW r \in Results, NEW b \in Nat
  PROVE  Byte(r, b) \in Results
<1>1. r.p \in Parsers /\ r.data \in Seq(Nat) /\ r.answers \in Seq(Nat)
  BY DEF Results
<1>2. ParserAfter(r.p, b) \in Parsers /\ DataOf(r.p, b) \in Seq(Nat) /\ AnswerTo(r.p, b) \in Seq(Nat)
  BY <1>1, StepTyped
<1>3. r.data \o DataOf(r.p, b) \in Seq(Nat) /\ r.answers \o AnswerTo(r.p, b) \in Seq(Nat)
  BY <1>1, <1>2
<1>4. [p |-> ParserAfter(r.p, b), data |-> r.data \o DataOf(r.p, b),
       answers |-> r.answers \o AnswerTo(r.p, b)] \in Results
  BY <1>2, <1>3 DEF Results
<1> QED
  BY <1>4, ByteIs

LEMMA StartIs ==
  ASSUME NEW p \in Parsers
  PROVE  Start(p) = [p |-> p, data |-> <<>>, answers |-> <<>>] /\ Start(p) \in Results
<1>1. Start(p) = [p |-> p, data |-> <<>>, answers |-> <<>>]
  BY DEF Start, NothingParsed
<1>2. <<>> \in Seq(Nat)
  OBVIOUS
<1>3. [p |-> p, data |-> <<>>, answers |-> <<>>] \in Results
  BY <1>2 DEF Results
<1> QED
  BY <1>1, <1>3

LEMMA RunsExist ==
  ASSUME NEW p \in Parsers, NEW bytes \in Seq(Nat)
  PROVE  \E f : Runs(f, p, bytes, Len(bytes))
<1> DEFINE S == {n \in Nat : n <= Len(bytes) => \E f : Runs(f, p, bytes, n)}
<1>1. 0 \in S
  <2>1. Runs([k \in 0 .. 0 |-> Start(p)], p, bytes, 0)
    BY StartIs DEF Runs
  <2> QED
    BY <2>1
<1>2. ASSUME NEW n \in Nat, n \in S PROVE n + 1 \in S
  <2> SUFFICES ASSUME n + 1 <= Len(bytes) PROVE \E f : Runs(f, p, bytes, n + 1)
    OBVIOUS
  <2>1. PICK f : Runs(f, p, bytes, n)
    BY <1>2
  <2>2. bytes[n + 1] \in Nat /\ n \in 0 .. n /\ 0 \in 0 .. n
    OBVIOUS
  <2> DEFINE x == Byte(f[n], bytes[n + 1])
             g == [k \in 0 .. n + 1 |-> IF k = n + 1 THEN x ELSE f[k]]
  <2>3. x \in Results /\ \A k \in 0 .. n : f[k] \in Results
    BY <2>1, <2>2, ByteTyped DEF Runs
  <2> HIDE DEF x
  <2>4. g \in [0 .. n + 1 -> Results]
    BY <2>3
  <2>5. g[n + 1] = x /\ \A k \in 0 .. n : g[k] = f[k]
    OBVIOUS
  <2> HIDE DEF g
  <2>6. ASSUME NEW k \in 1 .. n + 1 PROVE g[k] = Byte(g[k - 1], bytes[k])
    <3>1. CASE k = n + 1
      <4>1. k - 1 = n /\ g[n] = f[n]
        BY <2>2, <2>5, <3>1
      <4> QED
        BY <2>5, <3>1, <4>1 DEF x
    <3>2. CASE k # n + 1
      <4>1. k \in 1 .. n /\ k \in 0 .. n /\ k - 1 \in 0 .. n
        BY <3>2
      <4> QED
        BY <2>1, <2>5, <4>1 DEF Runs
    <3> QED
      BY <3>1, <3>2
  <2>7. g[0] = Start(p)
    BY <2>1, <2>2, <2>5 DEF Runs
  <2>8. Runs(g, p, bytes, n + 1)
    BY <2>4, <2>6, <2>7 DEF Runs
  <2> QED
    BY <2>8
<1>3. Nat \subseteq S
  <2> HIDE DEF S
  <2> QED
    BY <1>1, <1>2, SetInduction
<1>4. Len(bytes) \in S
  <2> HIDE DEF S
  <2> QED
    BY <1>3
<1> QED
  BY <1>4

LEMMA ParseRuns ==
  ASSUME NEW p \in Parsers, NEW bytes \in Seq(Nat)
  PROVE  \E f : Runs(f, p, bytes, Len(bytes)) /\ Parse(p, bytes) = f[Len(bytes)]
<1> DEFINE n == Len(bytes)
           Def(f) == f = [i \in 0 .. n |-> IF i = 0 THEN Start(p) ELSE Byte(f[i - 1], bytes[i])]
           h == CHOOSE f : Def(f)
<1>1. n \in Nat /\ \A k \in 1 .. n : bytes[k] \in Nat
  OBVIOUS
<1>2. \E f : Def(f)
  <2>1. PICK g : Runs(g, p, bytes, n)
    BY RunsExist
  <2> DEFINE e == [i \in 0 .. n |-> IF i = 0 THEN Start(p) ELSE Byte(g[i - 1], bytes[i])]
  <2>2. \A i \in 0 .. n : g[i] = e[i]
    <3> TAKE i \in 0 .. n
    <3>1. CASE i = 0
      BY <2>1, <3>1 DEF Runs
    <3>2. CASE i # 0
      <4>1. i \in 1 .. n
        BY <1>1, <3>2
      <4> QED
        BY <2>1, <3>2, <4>1 DEF Runs
    <3> QED
      BY <3>1, <3>2
  <2>3. g = [i \in 0 .. n |-> g[i]] /\ e = [i \in 0 .. n |-> e[i]]
    BY <2>1 DEF Runs
  <2>4. g = e
    <3> HIDE DEF e
    <3> QED
      BY <2>2, <2>3
  <2> QED
    BY <2>4
<1>3. Def(h)
  <2> HIDE DEF Def
  <2> QED
    BY <1>2
<1>4. Parse(p, bytes) = h[n]
  BY DEF Parse
<1> HIDE DEF h
<1>5. \A k \in 0 .. n : h[k] = IF k = 0 THEN Start(p) ELSE Byte(h[k - 1], bytes[k])
  <2> TAKE k \in 0 .. n
  <2>1. h[k] = [i \in 0 .. n |-> IF i = 0 THEN Start(p) ELSE Byte(h[i - 1], bytes[i])][k]
    BY <1>3
  <2> QED
    BY <2>1
<1>6. h[0] = Start(p) /\ \A k \in 1 .. n : h[k] = Byte(h[k - 1], bytes[k])
  BY <1>1, <1>5
<1> DEFINE S == {k \in Nat : k <= n => h[k] \in Results}
<1>7. Nat \subseteq S
  <2>1. 0 \in S
    BY <1>6, StartIs
  <2>2. ASSUME NEW k \in Nat, k \in S PROVE k + 1 \in S
    <3> SUFFICES ASSUME k + 1 <= n PROVE h[k + 1] \in Results
      OBVIOUS
    <3>1. k + 1 \in 1 .. n /\ (k + 1) - 1 = k /\ h[k] \in Results
      BY <1>1, <2>2
    <3> QED
      BY <1>1, <1>6, <3>1, ByteTyped
  <2> HIDE DEF S
  <2> QED
    BY <2>1, <2>2, SetInduction
<1>8. Runs(h, p, bytes, n)
  <2>1. \A k \in 0 .. n : h[k] \in Results
    BY <1>1, <1>7
  <2>2. h = [i \in 0 .. n |-> h[i]]
    BY <1>3
  <2> QED
    BY <1>6, <2>1, <2>2 DEF Runs
<1> QED
  BY <1>4, <1>8

LEMMA ParseTyped ==
  ASSUME NEW p \in Parsers, NEW bytes \in Seq(Nat)
  PROVE  Parse(p, bytes) \in Results /\ Parse(p, bytes).p \in Parsers
         /\ Parse(p, bytes).data \in Seq(Nat) /\ Parse(p, bytes).answers \in Seq(Nat)
<1>1. PICK f : Runs(f, p, bytes, Len(bytes)) /\ Parse(p, bytes) = f[Len(bytes)]
  BY ParseRuns
<1>2. Len(bytes) \in 0 .. Len(bytes)
  OBVIOUS
<1>3. Parse(p, bytes) \in Results
  BY <1>1, <1>2 DEF Runs
<1> QED
  BY <1>3 DEF Results

LEMMA ParseSmall ==
  ASSUME NEW p \in Parsers
  PROVE  /\ Parse(p, <<>>) = Start(p)
         /\ \A b \in Nat : Parse(p, <<b>>) = [p |-> ParserAfter(p, b), data |-> DataOf(p, b),
                                              answers |-> AnswerTo(p, b)]
<1>1. Parse(p, <<>>) = Start(p)
  <2>1. <<>> \in Seq(Nat) /\ Len(<<>>) = 0
    OBVIOUS
  <2>2. PICK f : Runs(f, p, <<>>, Len(<<>>)) /\ Parse(p, <<>>) = f[Len(<<>>)]
    BY <2>1, ParseRuns
  <2> QED
    BY <2>1, <2>2 DEF Runs
<1>2. ASSUME NEW b \in Nat
      PROVE  Parse(p, <<b>>) = [p |-> ParserAfter(p, b), data |-> DataOf(p, b), answers |-> AnswerTo(p, b)]
  <2> DEFINE w == <<b>>
  <2>1. w \in Seq(Nat) /\ Len(w) = 1 /\ w[1] = b
    OBVIOUS
  <2> HIDE DEF w
  <2>2. PICK f : Runs(f, p, w, Len(w)) /\ Parse(p, w) = f[Len(w)]
    BY <2>1, ParseRuns
  <2>3. f[0] = Start(p) /\ f[1] = Byte(f[0], w[1])
    <3>1. 1 \in 1 .. 1 /\ 1 - 1 = 0
      OBVIOUS
    <3> QED
      BY <2>1, <2>2, <3>1 DEF Runs
  <2> DEFINE s == Start(p)
  <2>4. /\ s \in Results /\ s.p = p /\ s.data = <<>> /\ s.answers = <<>>
    BY StartIs
  <2> HIDE DEF s
  <2>5. Byte(s, b) = [p |-> ParserAfter(p, b), data |-> <<>> \o DataOf(p, b), answers |-> <<>> \o AnswerTo(p, b)]
    BY <2>4, ByteIs
  <2>6. <<>> \o DataOf(p, b) = DataOf(p, b) /\ <<>> \o AnswerTo(p, b) = AnswerTo(p, b)
    BY StepTyped
  <2>7. Parse(p, w) = Byte(s, b)
    BY <2>1, <2>2, <2>3 DEF s
  <2> QED
    BY <2>5, <2>6, <2>7 DEF w
<1> QED
  BY <1>1, <1>2

(* Concatenation under a name: the provers then rewrite a whole sequence, not its elements. *)
Join(s, t) == s \o t

(* The order in which read bytes, the piece just read and the rest are joined does not matter. *)
LEMMA Associative ==
  ASSUME NEW s \in Seq(Nat), NEW t \in Seq(Nat), NEW u \in Seq(Nat)
  PROVE  Join(Join(s, t), u) = Join(s, Join(t, u))
BY ConcatAssociative, SMTT(30) DEF Join

\* What the parser does to a piece does not depend on where it is cut.
LEMMA ParseJoined ==
  ASSUME NEW p \in Parsers, NEW x \in Seq(Nat), NEW y \in Seq(Nat)
  PROVE  LET r == Parse(p, x)
             s == Parse(r.p, y)
         IN  Parse(p, x \o y) = [p |-> s.p, data |-> r.data \o s.data, answers |-> r.answers \o s.answers]
<1> DEFINE r == Parse(p, x)
           s == Parse(r.p, y)
           z == x \o y
           m == Len(x)
           n == Len(y)
<1>1. /\ z \in Seq(Nat) /\ m \in Nat /\ n \in Nat /\ Len(z) = m + n
      /\ \A k \in 1 .. m : z[k] = x[k] /\ x[k] \in Nat
      /\ \A k \in 1 .. n : z[m + k] = y[k] /\ y[k] \in Nat
  OBVIOUS
<1>2. r \in Results /\ r.p \in Parsers /\ r.data \in Seq(Nat) /\ r.answers \in Seq(Nat)
  BY ParseTyped
<1> HIDE DEF z
<1>3. PICK f : Runs(f, p, z, m + n) /\ Parse(p, z) = f[m + n]
  BY <1>1, ParseRuns
<1>4. PICK g : Runs(g, p, x, m) /\ r = g[m]
  BY ParseRuns
<1> HIDE DEF r
<1>5. PICK h : Runs(h, r.p, y, n) /\ s = h[n]
  BY <1>2, ParseRuns
<1> HIDE DEF s
\* The first piece.
<1> DEFINE A == {k \in Nat : k <= m => f[k] = g[k]}
<1>6. Nat \subseteq A
  <2>1. 0 \in A
    BY <1>3, <1>4 DEF Runs
  <2>2. ASSUME NEW k \in Nat, k \in A PROVE k + 1 \in A
    <3> SUFFICES ASSUME k + 1 <= m PROVE f[k + 1] = g[k + 1]
      OBVIOUS
    <3>0. k <= m /\ f[k] = g[k]
      BY <1>1, <2>2
    <3> HIDE DEF m, n
    <3>1. k + 1 \in 1 .. m /\ k + 1 \in 1 .. m + n /\ (k + 1) - 1 = k /\ f[k] = g[k]
      <4>1. m \in Nat /\ n \in Nat
        BY <1>1
      <4> QED
        BY <3>0, <4>1
    <3>2. f[k + 1] = Byte(f[k], z[k + 1]) /\ g[k + 1] = Byte(g[k], x[k + 1])
      BY <1>3, <1>4, <3>1 DEF Runs
    <3> QED
      BY <1>1, <3>1, <3>2
  <2> HIDE DEF A
  <2> QED
    BY <2>1, <2>2, SetInduction
<1>7. f[m] = r
  BY <1>1, <1>4, <1>6
\* The second one.
<1> DEFINE Both(k) == [p |-> h[k].p, data |-> r.data \o h[k].data, answers |-> r.answers \o h[k].answers]
           B == {k \in Nat : k <= n => f[m + k] = Both(k)}
<1>8. Nat \subseteq B
  <2>1. 0 \in B
    <3>1. h[0] = Start(r.p)
      BY <1>5 DEF Runs
    <3>2. h[0].p = r.p /\ h[0].data = <<>> /\ h[0].answers = <<>>
      BY <1>2, <3>1, StartIs
    <3>3. r.data \o <<>> = r.data /\ r.answers \o <<>> = r.answers /\ m + 0 = m
      BY <1>1, <1>2
    <3>4. r = [p |-> r.p, data |-> r.data, answers |-> r.answers]
      BY <1>2 DEF Results
    <3>5. Both(0) = r
      BY <3>2, <3>3, <3>4
    <3> QED
      BY <1>7, <3>3, <3>5
  <2>2. ASSUME NEW k \in Nat, k \in B PROVE k + 1 \in B
    <3> SUFFICES ASSUME k + 1 <= n PROVE f[m + (k + 1)] = Both(k + 1)
      OBVIOUS
    <3>1. /\ k + 1 \in 1 .. n /\ m + (k + 1) \in 1 .. m + n /\ (k + 1) - 1 = k
          /\ (m + (k + 1)) - 1 = m + k /\ k \in 0 .. n /\ f[m + k] = Both(k)
      BY <1>1, <2>2
    <3> DEFINE b == y[k + 1]
               q == h[k]
    <3>2. b \in Nat /\ z[m + (k + 1)] = b
      BY <1>1, <3>1
    <3>3. q \in Results
      BY <1>5, <3>1 DEF Runs
    <3>4. f[m + (k + 1)] = Byte(Both(k), b) /\ h[k + 1] = Byte(q, b)
      BY <1>3, <1>5, <3>1, <3>2 DEF Runs
    <3> HIDE DEF b, q
    <3>5. /\ q.p \in Parsers /\ q.data \in Seq(Nat) /\ q.answers \in Seq(Nat)
          /\ DataOf(q.p, b) \in Seq(Nat) /\ AnswerTo(q.p, b) \in Seq(Nat)
      BY <3>2, <3>3, StepTyped DEF Results
    <3> DEFINE t == [p |-> q.p, data |-> r.data \o q.data, answers |-> r.answers \o q.answers]
    <3>6. Both(k) = t
      BY DEF q
    <3>7. t \in Results /\ t.p = q.p /\ t.data = r.data \o q.data /\ t.answers = r.answers \o q.answers
      <4>1. r.data \o q.data \in Seq(Nat) /\ r.answers \o q.answers \in Seq(Nat)
        BY <1>2, <3>5
      <4> QED
        BY <3>5, <4>1 DEF Results
    <3> HIDE DEF t
    <3>8. Byte(t, b) = [p |-> ParserAfter(q.p, b), data |-> (r.data \o q.data) \o DataOf(q.p, b),
                        answers |-> (r.answers \o q.answers) \o AnswerTo(q.p, b)]
      BY <3>2, <3>7, ByteIs
    <3> HIDE DEF Both
    <3>9. /\ h[k + 1].p = ParserAfter(q.p, b) /\ h[k + 1].data = q.data \o DataOf(q.p, b)
          /\ h[k + 1].answers = q.answers \o AnswerTo(q.p, b)
      <4>1. Byte(q, b) = [p |-> ParserAfter(q.p, b), data |-> q.data \o DataOf(q.p, b),
                          answers |-> q.answers \o AnswerTo(q.p, b)]
        BY <3>2, <3>3, ByteIs
      <4>2. h[k + 1] = [p |-> ParserAfter(q.p, b), data |-> q.data \o DataOf(q.p, b),
                        answers |-> q.answers \o AnswerTo(q.p, b)]
        BY <3>4, <4>1, Zenon
      <4> DEFINE v == h[k + 1]
                 d == q.data \o DataOf(q.p, b)
                 a == q.answers \o AnswerTo(q.p, b)
                 c == ParserAfter(q.p, b)
      <4>3. v = [p |-> c, data |-> d, answers |-> a]
        BY <4>2
      <4> HIDE DEF v, d, a, c
      <4>4. v.p = c /\ v.data = d /\ v.answers = a
        BY ONLY <4>3
      <4> QED
        BY <4>4 DEF v, d, a, c
    <3>10. /\ (r.data \o q.data) \o DataOf(q.p, b) = r.data \o (q.data \o DataOf(q.p, b))
           /\ (r.answers \o q.answers) \o AnswerTo(q.p, b) = r.answers \o (q.answers \o AnswerTo(q.p, b))
      <4> DEFINE d == DataOf(q.p, b)
                 a == AnswerTo(q.p, b)
                 rd == r.data
                 ra == r.answers
                 qd == q.data
                 qa == q.answers
      <4>1. /\ d \in Seq(Nat) /\ a \in Seq(Nat) /\ rd \in Seq(Nat) /\ ra \in Seq(Nat)
            /\ qd \in Seq(Nat) /\ qa \in Seq(Nat)
        BY <1>2, <3>5
      <4> HIDE DEF d, a, rd, ra, qd, qa
      <4>2. Join(Join(rd, qd), d) = Join(rd, Join(qd, d))
        BY ONLY <4>1, Associative
      <4>3. Join(Join(ra, qa), a) = Join(ra, Join(qa, a))
        BY ONLY <4>1, Associative
      <4> QED
        BY <4>2, <4>3, Zenon DEF Join, d, a, rd, ra, qd, qa
    <3>11. Both(k + 1) = [p |-> ParserAfter(q.p, b), data |-> (r.data \o q.data) \o DataOf(q.p, b),
                          answers |-> (r.answers \o q.answers) \o AnswerTo(q.p, b)]
      BY <3>9, <3>10 DEF Both
    <3> QED
      BY <3>4, <3>6, <3>8, <3>11
  <2> HIDE DEF B
  <2> QED
    BY <2>1, <2>2, SetInduction
<1>9. f[m + n] = Both(n)
  <2>1. n \in B
    <3> HIDE DEF B
    <3> QED
      BY <1>1, <1>8
  <2> QED
    BY <1>1, <2>1
<1> QED
  BY <1>3, <1>5, <1>9 DEF z, r, s

-----------------------------------------------------------------------------
(* What is written, and what the one who reads it takes it for             *)
(*                                                                         *)
(* Bytes x take a parser in state s to state t, and are the data d.        *)

Takes(s, x, t, d) ==
  /\ x \in Seq(Nat) /\ d \in Seq(Nat)
  /\ \A p \in Parsers : p.state = s => Parse(p, x).p.state = t /\ Parse(p, x).data = d

LEMMA TakesNothing == \A s : Takes(s, <<>>, s, <<>>)
<1> TAKE s
<1>1. <<>> \in Seq(Nat)
  OBVIOUS
<1>2. \A p \in Parsers : Parse(p, <<>>).p = p /\ Parse(p, <<>>).data = <<>>
  BY ParseSmall, StartIs
<1> QED
  BY <1>1, <1>2 DEF Takes

LEMMA TakesJoined ==
  ASSUME NEW s, NEW x, NEW t, NEW d, NEW y, NEW u, NEW e, Takes(s, x, t, d), Takes(t, y, u, e)
  PROVE  Takes(s, x \o y, u, d \o e)
<1>1. x \in Seq(Nat) /\ y \in Seq(Nat) /\ d \in Seq(Nat) /\ e \in Seq(Nat)
  BY DEF Takes
<1>2. x \o y \in Seq(Nat) /\ d \o e \in Seq(Nat)
  BY <1>1
<1>3. ASSUME NEW p \in Parsers, p.state = s
      PROVE  Parse(p, x \o y).p.state = u /\ Parse(p, x \o y).data = d \o e
  <2> DEFINE q == Parse(p, x).p
  <2>1. q \in Parsers
    BY <1>1, ParseTyped
  <2>2. q.state = t /\ Parse(p, x).data = d
    BY <1>3 DEF Takes
  <2> HIDE DEF q
  <2>3. Parse(q, y).p.state = u /\ Parse(q, y).data = e
    BY <2>1, <2>2 DEF Takes
  <2>4. Parse(p, x \o y) = [p |-> Parse(q, y).p, data |-> Parse(p, x).data \o Parse(q, y).data,
                            answers |-> Parse(p, x).answers \o Parse(q, y).answers]
    BY <1>1, ParseJoined DEF q
  <2>5. Parse(p, x \o y).p = Parse(q, y).p /\ Parse(p, x \o y).data = Parse(p, x).data \o Parse(q, y).data
    <3> DEFINE v == Parse(p, x \o y)
               c == Parse(q, y).p
               h == Parse(p, x).data \o Parse(q, y).data
               a == Parse(p, x).answers \o Parse(q, y).answers
    <3>1. v = [p |-> c, data |-> h, answers |-> a]
      BY <2>4
    <3> HIDE DEF v, c, h, a
    <3>2. v.p = c /\ v.data = h
      BY ONLY <3>1
    <3> QED
      BY <3>2 DEF v, c, h
  <2> QED
    BY <2>2, <2>3, <2>5
<1> QED
  BY <1>2, <1>3 DEF Takes

LEMMA TakesByte ==
  /\ \A b \in Nat : b # IAC => Takes("Data", <<b>>, "Data", <<b>>) /\ Takes("Sub", <<b>>, "Sub", <<>>)
  /\ Takes("Data", <<IAC>>, "Iac", <<>>) /\ Takes("Iac", <<IAC>>, "Data", <<IAC>>)
  /\ \A v \in Verbs : Takes("Iac", <<v>>, "Option", <<>>)
  /\ \A b \in Nat : Takes("Option", <<b>>, "Data", <<>>)
  /\ Takes("Iac", <<SB>>, "Sub", <<>>) /\ Takes("Iac", <<241>>, "Data", <<>>)
  /\ Takes("Sub", <<IAC>>, "SubIac", <<>>) /\ Takes("SubIac", <<IAC>>, "Sub", <<>>)
  /\ Takes("SubIac", <<SE>>, "Data", <<>>)
<1>1. ASSUME NEW b \in Nat, NEW s, NEW t, NEW d \in Seq(Nat),
             \A p \in Parsers : p.state = s => ParserAfter(p, b).state = t /\ DataOf(p, b) = d
      PROVE  Takes(s, <<b>>, t, d)
  <2>1. <<b>> \in Seq(Nat)
    OBVIOUS
  <2>2. \A p \in Parsers : Parse(p, <<b>>).p = ParserAfter(p, b) /\ Parse(p, <<b>>).data = DataOf(p, b)
    <3> TAKE p \in Parsers
    <3>1. Parse(p, <<b>>) = [p |-> ParserAfter(p, b), data |-> DataOf(p, b), answers |-> AnswerTo(p, b)]
      BY ParseSmall
    <3> QED
      BY ONLY <3>1
  <2> QED
    BY <1>1, <2>1, <2>2 DEF Takes
<1>2. <<>> \in Seq(Nat) /\ \A b \in Nat : <<b>> \in Seq(Nat)
  OBVIOUS
<1>3. IAC \in Nat /\ SB \in Nat /\ SE \in Nat /\ 241 \in Nat /\ Verbs \subseteq Nat
  BY DEF IAC, SB, SE, Verbs, WILL, WONT, DO, DONT
<1>4. ASSUME NEW p \in Parsers, NEW b \in Nat
      PROVE  /\ p.state = "Data" /\ b # IAC => ParserAfter(p, b).state = "Data" /\ DataOf(p, b) = <<b>>
             /\ p.state = "Sub" /\ b # IAC => ParserAfter(p, b).state = "Sub" /\ DataOf(p, b) = <<>>
             /\ p.state = "Data" /\ b = IAC => ParserAfter(p, b).state = "Iac" /\ DataOf(p, b) = <<>>
             /\ p.state = "Iac" /\ b = IAC => ParserAfter(p, b).state = "Data" /\ DataOf(p, b) = <<b>>
             /\ p.state = "Iac" /\ b \in Verbs => ParserAfter(p, b).state = "Option" /\ DataOf(p, b) = <<>>
             /\ p.state = "Option" => ParserAfter(p, b).state = "Data" /\ DataOf(p, b) = <<>>
             /\ p.state = "Iac" /\ b = SB => ParserAfter(p, b).state = "Sub" /\ DataOf(p, b) = <<>>
             /\ p.state = "Iac" /\ b = 241 => ParserAfter(p, b).state = "Data" /\ DataOf(p, b) = <<>>
             /\ p.state = "Sub" /\ b = IAC => ParserAfter(p, b).state = "SubIac" /\ DataOf(p, b) = <<>>
             /\ p.state = "SubIac" /\ b = IAC => ParserAfter(p, b).state = "Sub" /\ DataOf(p, b) = <<>>
             /\ p.state = "SubIac" /\ b = SE => ParserAfter(p, b).state = "Data" /\ DataOf(p, b) = <<>>
  BY DEF ParserAfter, Put, DataOf, IAC, SB, SE, Verbs, WILL, WONT, DO, DONT
<1>5. \A b \in Nat : b # IAC => Takes("Data", <<b>>, "Data", <<b>>) /\ Takes("Sub", <<b>>, "Sub", <<>>)
  BY <1>1, <1>2, <1>4
<1>6. Takes("Data", <<IAC>>, "Iac", <<>>) /\ Takes("Iac", <<IAC>>, "Data", <<IAC>>)
  BY <1>1, <1>2, <1>3, <1>4
<1>7. \A v \in Verbs : Takes("Iac", <<v>>, "Option", <<>>)
  BY <1>1, <1>2, <1>3, <1>4
<1>8. \A b \in Nat : Takes("Option", <<b>>, "Data", <<>>)
  BY <1>1, <1>2, <1>4
<1>9. Takes("Iac", <<SB>>, "Sub", <<>>) /\ Takes("Iac", <<241>>, "Data", <<>>)
  <2>1. \A p \in Parsers : p.state = "Iac" => ParserAfter(p, 241).state = "Data" /\ DataOf(p, 241) = <<>>
    BY <1>3, <1>4
  <2>2. Takes("Iac", <<241>>, "Data", <<>>)
    BY <1>1, <1>2, <1>3, <2>1
  <2>3. Takes("Iac", <<SB>>, "Sub", <<>>)
    BY <1>1, <1>2, <1>3, <1>4
  <2> QED
    BY <2>2, <2>3
<1>10. Takes("Sub", <<IAC>>, "SubIac", <<>>) /\ Takes("SubIac", <<IAC>>, "Sub", <<>>)
       /\ Takes("SubIac", <<SE>>, "Data", <<>>)
  BY <1>1, <1>2, <1>3, <1>4
<1> QED
  BY <1>5, <1>6, <1>7, <1>8, <1>9, <1>10

\* Parts of which each is taken for its data are taken for the data joined.
LEMMA TakesParts ==
  ASSUME NEW s, NEW parts \in Seq(Seq(Nat)), NEW g, g[0] = <<>>,
         \A k \in 1 .. Len(parts) : \E d : Takes(s, parts[k], s, d) /\ g[k] = g[k - 1] \o d
  PROVE  Takes(s, FlattenSeq(parts), s, g[Len(parts)])
<1> DEFINE n == Len(parts)
<1>1. PICK f : Joins(f, parts, n) /\ FlattenSeq(parts) = f[n]
  BY FlattenJoins
<1> DEFINE S == {k \in Nat : k <= n => Takes(s, f[k], s, g[k])}
<1>2. 0 \in S
  <2>1. f[0] = <<>>
    BY <1>1 DEF Joins
  <2> QED
    BY <2>1, TakesNothing
<1>3. ASSUME NEW k \in Nat, k \in S PROVE k + 1 \in S
  <2> SUFFICES ASSUME k + 1 <= n PROVE Takes(s, f[k + 1], s, g[k + 1])
    OBVIOUS
  <2>0. k <= n /\ Takes(s, f[k], s, g[k])
    BY <1>3
  <2>1. k + 1 \in 1 .. n /\ (k + 1) - 1 = k
    OBVIOUS
  <2>2. PICK d : Takes(s, parts[k + 1], s, d) /\ g[k + 1] = g[k] \o d
    BY <2>1
  <2>3. f[k + 1] = f[k] \o parts[k + 1]
    BY <1>1, <2>1 DEF Joins
  <2>4. Takes(s, f[k] \o parts[k + 1], s, g[k] \o d)
    BY <2>0, <2>2, TakesJoined
  <2> QED
    BY <2>2, <2>3, <2>4
<1>4. Nat \subseteq S
  <2> HIDE DEF S
  <2> QED
    BY <1>2, <1>3, SetInduction
<1>5. n \in S
  <2> HIDE DEF S
  <2> QED
    BY <1>4
<1> QED
  BY <1>1, <1>5

LEMMA TakesSilently ==
  ASSUME NEW s, NEW x, NEW t, NEW d, NEW b \in Nat, NEW u, Takes(s, x, t, d), Takes(t, <<b>>, u, <<>>)
  PROVE  Takes(s, Append(x, b), u, d)
<1>1. x \in Seq(Nat) /\ d \in Seq(Nat)
  BY DEF Takes
<1>2. Append(x, b) = x \o <<b>> /\ d \o <<>> = d
  BY <1>1
<1>3. Takes(s, x \o <<b>>, u, d \o <<>>)
  BY TakesJoined
<1> QED
  BY <1>2, <1>3

LEMMA Tuples ==
  \A a, b, c \in Nat : /\ Append(<<a>>, b) = <<a, b>> /\ Append(<<a, b>>, c) = <<a, b, c>>
                       /\ <<a>> \o <<b>> = <<a, b>> /\ <<>> \o <<a>> = <<a>>
<1> TAKE a, b, c \in Nat
<1>1. Append(<<a>>, b) = <<a, b>>
  <2> DEFINE s == Append(<<a>>, b)
             t == <<a, b>>
  <2>1. s \in Seq(Nat) /\ t \in Seq(Nat) /\ Len(s) = 2 /\ Len(t) = 2
    OBVIOUS
  <2>2. s[1] = a /\ s[2] = b /\ t[1] = a /\ t[2] = b
    OBVIOUS
  <2> HIDE DEF s, t
  <2>3. \A i \in 1 .. Len(s) : s[i] = t[i]
    BY <2>1, <2>2
  <2>4. s = t
    BY <2>1, <2>3, SeqEqual
  <2> QED
    BY <2>4 DEF s, t
<1>2. Append(<<a, b>>, c) = <<a, b, c>>
  <2> DEFINE s == Append(<<a, b>>, c)
             t == <<a, b, c>>
  <2>1. s \in Seq(Nat) /\ t \in Seq(Nat) /\ Len(s) = 3 /\ Len(t) = 3
    OBVIOUS
  <2>2. s[1] = a /\ s[2] = b /\ s[3] = c /\ t[1] = a /\ t[2] = b /\ t[3] = c
    OBVIOUS
  <2> HIDE DEF s, t
  <2>3. \A i \in 1 .. Len(s) : s[i] = t[i]
    BY <2>1, <2>2
  <2>4. s = t
    BY <2>1, <2>3, SeqEqual
  <2> QED
    BY <2>4 DEF s, t
<1>3. <<a>> \o <<b>> = Append(<<a>>, b) /\ <<>> \o <<a>> = <<a>>
  OBVIOUS
<1> QED
  BY <1>1, <1>2, <1>3

LEMMA Triple ==
  ASSUME NEW a \in Nat, NEW b \in Nat, NEW c \in Nat
  PROVE  Append(<<a, b>>, c) = <<a, b, c>>
BY Tuples, Zenon

LEMMA Pair ==
  ASSUME NEW a \in Nat, NEW b \in Nat
  PROVE  Append(<<a>>, b) = <<a, b>>
BY Tuples, Zenon

LEMMA JoinedPair ==
  ASSUME NEW a \in Nat, NEW b \in Nat
  PROVE  <<a>> \o <<b>> = <<a, b>> /\ <<>> \o <<a>> = <<a>>
BY Tuples, Zenon

LEMMA ProtocolTaken ==
  /\ Takes("Data", <<IAC, IAC>>, "Data", <<IAC>>) /\ Takes("Sub", <<IAC, IAC>>, "Sub", <<>>)
  /\ \A v \in Verbs : \A b \in Nat : Takes("Data", <<IAC, v, b>>, "Data", <<>>)
  /\ Takes("Data", <<IAC, 241>>, "Data", <<>>)
  /\ \A b \in Nat : b # IAC => Takes("Data", <<IAC, SB, b>>, "Sub", <<>>)
  /\ Takes("Sub", <<IAC, SE>>, "Data", <<>>)
<1>1. IAC \in Nat /\ SB \in Nat /\ SE \in Nat /\ 241 \in Nat /\ Verbs \subseteq Nat
  BY DEF IAC, SB, SE, Verbs, WILL, WONT, DO, DONT
<1>2. Takes("Data", <<IAC, IAC>>, "Data", <<IAC>>)
  <2>1. Takes("Data", <<IAC>> \o <<IAC>>, "Data", <<>> \o <<IAC>>)
    BY TakesByte, TakesJoined
  <2>2. <<IAC>> \o <<IAC>> = <<IAC, IAC>> /\ <<>> \o <<IAC>> = <<IAC>>
    BY <1>1, JoinedPair
  <2> QED
    BY <2>1, <2>2
<1>3. Takes("Sub", <<IAC, IAC>>, "Sub", <<>>) /\ Takes("Sub", <<IAC, SE>>, "Data", <<>>)
  <2>1. Takes("Sub", Append(<<IAC>>, IAC), "Sub", <<>>) /\ Takes("Sub", Append(<<IAC>>, SE), "Data", <<>>)
    BY <1>1, TakesByte, TakesSilently
  <2>2. Append(<<IAC>>, IAC) = <<IAC, IAC>>
    BY <1>1, Pair
  <2>3. Append(<<IAC>>, SE) = <<IAC, SE>>
    BY <1>1, Pair
  <2> QED
    BY <2>1, <2>2, <2>3
<1>4. ASSUME NEW v \in Verbs, NEW b \in Nat PROVE Takes("Data", <<IAC, v, b>>, "Data", <<>>)
  <2>1. Takes("Data", Append(<<IAC>>, v), "Option", <<>>)
    BY <1>1, TakesByte, TakesSilently
  <2>2. Takes("Data", Append(Append(<<IAC>>, v), b), "Data", <<>>)
    BY <2>1, TakesByte, TakesSilently
  <2>3. v \in Nat
    BY <1>1
  <2>4. Append(<<IAC>>, v) = <<IAC, v>>
    BY <1>1, <2>3, Pair
  <2>5. Append(<<IAC, v>>, b) = <<IAC, v, b>>
    BY <1>1, <2>3, Triple
  <2> QED
    BY <2>2, <2>4, <2>5
<1>5. Takes("Data", <<IAC, 241>>, "Data", <<>>)
  <2>1. Takes("Data", Append(<<IAC>>, 241), "Data", <<>>)
    BY <1>1, TakesByte, TakesSilently
  <2>2. Append(<<IAC>>, 241) = <<IAC, 241>>
    BY <1>1, Pair
  <2> QED
    BY <2>1, <2>2
<1>6. ASSUME NEW b \in Nat, b # IAC PROVE Takes("Data", <<IAC, SB, b>>, "Sub", <<>>)
  <2>1. Takes("Data", Append(<<IAC>>, SB), "Sub", <<>>)
    BY <1>1, TakesByte, TakesSilently
  <2>2. Takes("Data", Append(Append(<<IAC>>, SB), b), "Sub", <<>>)
    BY <1>6, <2>1, TakesByte, TakesSilently
  <2>3. Append(<<IAC>>, SB) = <<IAC, SB>>
    BY <1>1, Pair
  <2>4. Append(<<IAC, SB>>, b) = <<IAC, SB, b>>
    BY <1>1, Triple
  <2> QED
    BY <2>2, <2>3, <2>4
<1> QED
  BY <1>2, <1>3, <1>4, <1>5, <1>6

\* What EscapeIac writes is read as it was, and stays in a subnegotiation.
LEMMA EscapeTaken ==
  ASSUME NEW d \in Seq(Nat)
  PROVE  Takes("Data", EscapeIac(d), "Data", d) /\ Takes("Sub", EscapeIac(d), "Sub", <<>>)
<1> DEFINE n == Len(d)
           parts == Escapes(d)
           g == [k \in 0 .. n |-> SubSeq(d, 1, k)]
           h == [k \in 0 .. n |-> <<>>]
<1>1. n \in Nat /\ \A i \in 1 .. n : d[i] \in Nat
  OBVIOUS
<1>2. parts \in Seq(Seq(Nat)) /\ Len(parts) = n /\ EscapeIac(d) = FlattenSeq(parts)
  BY EscapesTyped
<1>3. ASSUME NEW k \in 1 .. n
      PROVE  Takes("Data", parts[k], "Data", <<d[k]>>) /\ Takes("Sub", parts[k], "Sub", <<>>)
  <2>1. parts[k] = IF d[k] = IAC THEN <<IAC, IAC>> ELSE <<d[k]>>
    BY DEF Escapes
  <2>2. d[k] \in Nat
    BY <1>1
  <2>3. CASE d[k] = IAC
    BY <2>1, <2>3, ProtocolTaken
  <2>4. CASE d[k] # IAC
    BY <2>1, <2>2, <2>4, TakesByte
  <2> QED
    BY <2>3, <2>4
<1> HIDE DEF parts
<1>4. Takes("Data", FlattenSeq(parts), "Data", g[Len(parts)])
  <2>1. g[0] = <<>>
    BY <1>1
  <2>2. ASSUME NEW k \in 1 .. Len(parts)
        PROVE  \E e : Takes("Data", parts[k], "Data", e) /\ g[k] = g[k - 1] \o e
    <3>1. k \in 1 .. n /\ k \in 0 .. n /\ k - 1 \in 0 .. n /\ k - 1 \in Nat
      BY <1>1, <1>2
    <3>2. SubSeq(d, 1, k) = SubSeq(d, 1, k - 1) \o <<d[k]>>
      BY <1>1, <3>1
    <3>3. g[k] = g[k - 1] \o <<d[k]>>
      BY <3>1, <3>2
    <3> QED
      BY <1>3, <3>1, <3>3
  <2> HIDE DEF g
  <2> QED
    BY <1>2, <2>1, <2>2, TakesParts
<1>5. Takes("Sub", FlattenSeq(parts), "Sub", h[Len(parts)])
  <2>1. h[0] = <<>>
    BY <1>1
  <2>2. ASSUME NEW k \in 1 .. Len(parts)
        PROVE  \E e : Takes("Sub", parts[k], "Sub", e) /\ h[k] = h[k - 1] \o e
    <3>1. k \in 1 .. n /\ k \in 0 .. n /\ k - 1 \in 0 .. n
      BY <1>1, <1>2
    <3>2. h[k] = h[k - 1] \o <<>>
      BY <3>1
    <3> QED
      BY <1>3, <3>1, <3>2
  <2> HIDE DEF h
  <2> QED
    BY <1>2, <2>1, <2>2, TakesParts
<1>6. g[n] = d /\ h[n] = <<>>
  BY <1>1
<1> QED
  BY <1>2, <1>4, <1>5, <1>6

LEMMA WindowSizeTaken ==
  ASSUME NEW window \in Nat \X Nat
  PROVE  Takes("Data", WindowSize(window), "Data", <<>>)
<1> DEFINE d == <<Clamped(window[1]) \div 256, Clamped(window[1]) % 256,
                  Clamped(window[2]) \div 256, Clamped(window[2]) % 256>>
<1>1. d \in Seq(Nat)
  BY SmallNumbers
<1>2. WindowSize(window) = (<<IAC, SB, NAWS>> \o EscapeIac(d)) \o <<IAC, SE>>
  BY DEF WindowSize
<1> HIDE DEF d
<1>3. Takes("Data", <<IAC, SB, NAWS>>, "Sub", <<>>)
  BY ProtocolTaken DEF NAWS, IAC
<1>4. Takes("Sub", EscapeIac(d), "Sub", <<>>)
  BY <1>1, EscapeTaken
<1>5. Takes("Data", <<IAC, SB, NAWS>> \o EscapeIac(d), "Sub", <<>> \o <<>>)
  BY <1>3, <1>4, TakesJoined
<1>6. <<>> \o <<>> = <<>>
  OBVIOUS
<1>7. Takes("Sub", <<IAC, SE>>, "Data", <<>>)
  BY ProtocolTaken
<1>8. Takes("Data", (<<IAC, SB, NAWS>> \o EscapeIac(d)) \o <<IAC, SE>>, "Data", <<>> \o <<>>)
  BY <1>5, <1>6, <1>7, TakesJoined
<1> QED
  BY <1>2, <1>6, <1>8

\* Byte by byte through a fixed sequence w.
LEMMA TakesPrefix ==
  ASSUME NEW w \in Seq(Nat), NEW k \in Nat, k < Len(w), NEW s, NEW t, NEW d, NEW u,
         Takes(s, SubSeq(w, 1, k), t, d), Takes(t, <<w[k + 1]>>, u, <<>>)
  PROVE  Takes(s, SubSeq(w, 1, k + 1), u, d)
<1>1. w[k + 1] \in Nat
  OBVIOUS
<1>2. SubSeq(w, 1, k + 1) = Append(SubSeq(w, 1, k), w[k + 1])
  OBVIOUS
<1> QED
  BY <1>1, <1>2, TakesSilently

LEMMA FirstThree ==
  ASSUME NEW w \in Seq(Nat), Len(w) >= 3
  PROVE  SubSeq(w, 1, 3) = <<w[1], w[2], w[3]>>
<1>1. w[1] \in Nat /\ w[2] \in Nat /\ w[3] \in Nat
  OBVIOUS
<1> DEFINE s == SubSeq(w, 1, 3)
           t == <<w[1], w[2], w[3]>>
<1>2. s \in Seq(Nat) /\ Len(s) = 3 /\ \A i \in 1 .. 3 : s[i] = w[i]
  <2>1. ASSUME NEW i \in 1 .. 3 PROVE w[i] \in Nat
    OBVIOUS
  <2> QED
    BY <2>1, SubSeqProperties
<1>3. t \in Seq(Nat) /\ Len(t) = 3 /\ t[1] = w[1] /\ t[2] = w[2] /\ t[3] = w[3]
  BY <1>1
<1> HIDE DEF s, t
<1>4. \A i \in 1 .. Len(s) : s[i] = t[i]
  BY <1>2, <1>3
<1>5. s = t
  BY <1>2, <1>3, <1>4, SeqEqual
<1> QED
  BY <1>5 DEF s, t

LEMMA TerminalNameTaken ==
  Takes("Data", TerminalName, "Data", <<>>)
<1> DEFINE w == TerminalName
<1>1. /\ w \in Seq(Nat) /\ Len(w) = 7 /\ w[4] = 0 /\ w[5] = 120 /\ w[6] = IAC /\ w[7] = SE
      /\ SubSeq(w, 1, 3) = <<IAC, SB, TerminalType>>
  <2>1. w \in Seq(Nat) /\ Len(w) = 7
    BY DEF TerminalName, IAC, SB, SE, TerminalType
  <2>2. w[1] = IAC /\ w[2] = SB /\ w[3] = TerminalType /\ w[4] = 0 /\ w[5] = 120 /\ w[6] = IAC /\ w[7] = SE
    BY DEF TerminalName
  <2> HIDE DEF w
  <2>3. SubSeq(w, 1, 3) = <<IAC, SB, TerminalType>>
    <3>1. SubSeq(w, 1, 3) = <<w[1], w[2], w[3]>>
      <4>1. w \in Seq(Nat) /\ Len(w) >= 3
        BY <2>1
      <4> QED
        BY <4>1, FirstThree
    <3> QED
      BY <2>2, <3>1
  <2> QED
    BY <2>1, <2>2, <2>3
<1> HIDE DEF w
<1>2. 0 # IAC /\ 120 # IAC /\ TerminalType # IAC /\ TerminalType \in Nat
  BY DEF IAC, TerminalType
<1>3. Takes("Data", SubSeq(w, 1, 3), "Sub", <<>>)
  <2>1. Takes("Data", <<IAC, SB, TerminalType>>, "Sub", <<>>)
    BY <1>2, ProtocolTaken, Zenon
  <2> QED
    BY ONLY <1>1, <2>1
<1>4. Takes("Data", SubSeq(w, 1, 4), "Sub", <<>>)
  <2>1. Takes("Sub", <<w[3 + 1]>>, "Sub", <<>>)
    BY <1>1, <1>2, TakesByte
  <2>2. Takes("Data", SubSeq(w, 1, 3 + 1), "Sub", <<>>)
    <3>1. 3 \in Nat /\ 3 < Len(w) /\ w \in Seq(Nat)
      BY <1>1
    <3> QED
      BY <1>3, <2>1, <3>1, TakesPrefix
  <2> QED
    BY <2>2
<1>5. Takes("Data", SubSeq(w, 1, 5), "Sub", <<>>)
  <2>1. Takes("Sub", <<w[4 + 1]>>, "Sub", <<>>)
    BY <1>1, <1>2, TakesByte
  <2>2. Takes("Data", SubSeq(w, 1, 4 + 1), "Sub", <<>>)
    <3>1. 4 \in Nat /\ 4 < Len(w) /\ w \in Seq(Nat)
      BY <1>1
    <3> QED
      BY <1>4, <2>1, <3>1, TakesPrefix
  <2> QED
    BY <2>2
<1>6. Takes("Data", SubSeq(w, 1, 6), "SubIac", <<>>)
  <2>1. Takes("Sub", <<w[5 + 1]>>, "SubIac", <<>>)
    BY <1>1, TakesByte
  <2>2. Takes("Data", SubSeq(w, 1, 5 + 1), "SubIac", <<>>)
    <3>1. 5 \in Nat /\ 5 < Len(w) /\ w \in Seq(Nat)
      BY <1>1
    <3> QED
      BY <1>5, <2>1, <3>1, TakesPrefix
  <2> QED
    BY <2>2
<1>7. Takes("Data", SubSeq(w, 1, 7), "Data", <<>>)
  <2>1. Takes("SubIac", <<w[6 + 1]>>, "Data", <<>>)
    BY <1>1, TakesByte
  <2>2. Takes("Data", SubSeq(w, 1, 6 + 1), "Data", <<>>)
    <3>1. 6 \in Nat /\ 6 < Len(w) /\ w \in Seq(Nat)
      BY <1>1
    <3> QED
      BY <1>6, <2>1, <3>1, TakesPrefix
  <2> QED
    BY <2>2
<1>8. SubSeq(w, 1, 7) = w
  BY <1>1
<1> QED
  BY <1>7, <1>8 DEF w

\* What the session answers is no data for the remote.
LEMMA AnswersTaken ==
  ASSUME NEW p \in Parsers, NEW bytes \in Seq(Nat)
  PROVE  Takes("Data", Parse(p, bytes).answers, "Data", <<>>)
<1>1. ASSUME NEW q \in Parsers, NEW b \in Nat
      PROVE  Takes("Data", AnswerTo(q, b), "Data", <<>>)
  <2>1. ASSUME NEW v \in Verbs PROVE Takes("Data", OptionAnswer(v, b), "Data", <<>>)
    <3>1. Response(v, b) \in Verbs
      BY DEF Response, Verbs
    <3>2. Takes("Data", Negotiation(Response(v, b), b), "Data", <<>>)
      BY <3>1, ProtocolTaken DEF Negotiation
    <3> DEFINE w == IF v = DO /\ b = NAWS THEN WindowSize(FirstWindow) ELSE <<>>
    <3>3. Takes("Data", w, "Data", <<>>)
      BY SmallNumbers, WindowSizeTaken, TakesNothing
    <3>4. OptionAnswer(v, b) = Negotiation(Response(v, b), b) \o w
      BY DEF OptionAnswer
    <3> HIDE DEF w
    <3>5. Takes("Data", Negotiation(Response(v, b), b) \o w, "Data", <<>> \o <<>>)
      BY <3>2, <3>3, TakesJoined
    <3>6. <<>> \o <<>> = <<>>
      OBVIOUS
    <3> QED
      BY <3>4, <3>5, <3>6
  <2>2. q.state = "Option" => q.verb \in Verbs
    BY DEF Parsers
  <2> QED
    BY <2>1, <2>2, TerminalNameTaken, TakesNothing DEF AnswerTo
<1> DEFINE n == Len(bytes)
<1>2. PICK f : Runs(f, p, bytes, n) /\ Parse(p, bytes) = f[n]
  BY ParseRuns
<1> DEFINE S == {k \in Nat : k <= n => Takes("Data", f[k].answers, "Data", <<>>)}
<1>3. 0 \in S
  <2>1. f[0].answers = <<>>
    BY <1>2, StartIs DEF Runs
  <2> QED
    BY <2>1, TakesNothing
<1>4. ASSUME NEW k \in Nat, k \in S PROVE k + 1 \in S
  <2> SUFFICES ASSUME k + 1 <= n PROVE Takes("Data", f[k + 1].answers, "Data", <<>>)
    OBVIOUS
  <2>0. Takes("Data", f[k].answers, "Data", <<>>)
    BY <1>4
  <2>1. k + 1 \in 1 .. n /\ (k + 1) - 1 = k /\ k \in 0 .. n /\ bytes[k + 1] \in Nat
    OBVIOUS
  <2> DEFINE q == f[k].p
             b == bytes[k + 1]
             a == f[k].answers
             e == AnswerTo(q, b)
  <2>2. f[k] \in Results /\ f[k + 1] = Byte(f[k], b)
    BY <1>2, <2>1 DEF Runs
  <2>3. f[k + 1] = [p |-> ParserAfter(q, b), data |-> f[k].data \o DataOf(q, b), answers |-> a \o e]
    BY <2>1, <2>2, ByteIs
  <2>4. f[k + 1].answers = a \o e
    <3> HIDE DEF a, e
    <3> DEFINE d == f[k].data \o DataOf(q, b)
               c == ParserAfter(q, b)
    <3>1. f[k + 1] = [p |-> c, data |-> d, answers |-> a \o e]
      BY <2>3
    <3> HIDE DEF d, c
    <3> QED
      BY ONLY <3>1
  <2>5. Takes("Data", e, "Data", <<>>)
    <3>1. q \in Parsers /\ b \in Nat
      BY <2>1, <2>2 DEF Results
    <3> QED
      BY <1>1, <3>1
  <2> HIDE DEF a, e
  <2>6. Takes("Data", a \o e, "Data", <<>> \o <<>>)
    BY <2>0, <2>5, TakesJoined DEF a
  <2>7. <<>> \o <<>> = <<>>
    OBVIOUS
  <2> QED
    BY <2>4, <2>6, <2>7
<1>5. Nat \subseteq S
  <2> HIDE DEF S
  <2> QED
    BY <1>3, <1>4, SetInduction
<1>6. n \in S
  <2> HIDE DEF S
  <2> QED
    BY <1>5
<1> QED
  BY <1>2, <1>6

\* A subnegotiation with the byte 255 and one that looks like its end inside.
LEMMA SubnegotiationTaken ==
  Takes("Data", <<IAC, SB, 65, IAC, IAC, SE, 65, IAC, SE>>, "Data", <<>>)
<1> DEFINE w == <<IAC, SB, 65, IAC, IAC, SE, 65, IAC, SE>>
<1>1. w \in Seq(Nat) /\ Len(w) = 9
  BY DEF IAC, SB, SE, TerminalType
<1>2. w[1] = IAC /\ w[2] = SB /\ w[3] = 65 /\ w[4] = IAC /\ w[5] = IAC /\ w[6] = SE /\ w[7] = 65 /\ w[8] = IAC /\ w[9] = SE
  OBVIOUS
<1> HIDE DEF w
<1>3. 65 # IAC /\ 65 \in Nat /\ 1 # IAC /\ 65 # IAC /\ SE # IAC /\ SE \in Nat
  BY DEF IAC, SE, TerminalType
<1>4. Takes("Data", SubSeq(w, 1, 3), "Sub", <<>>)
  <2>1. SubSeq(w, 1, 3) = <<IAC, SB, 65>>
    <3>1. SubSeq(w, 1, 3) = <<w[1], w[2], w[3]>>
      <4>1. w \in Seq(Nat) /\ Len(w) >= 3
        BY <1>1
      <4> QED
        BY <4>1, FirstThree
    <3> QED
      BY <1>2, <3>1
  <2> QED
    BY <1>3, <2>1, ProtocolTaken
<1>5. Takes("Data", SubSeq(w, 1, 4), "SubIac", <<>>)
  <2>1. Takes("Sub", <<w[3 + 1]>>, "SubIac", <<>>)
    BY <1>2, <1>3, TakesByte
  <2>2. Takes("Data", SubSeq(w, 1, 3 + 1), "SubIac", <<>>)
    <3>1. 3 \in Nat /\ 3 < Len(w) /\ w \in Seq(Nat)
      BY <1>1
    <3> QED
      BY <1>4, <2>1, <3>1, TakesPrefix
  <2> QED
    BY <2>2
<1>6. Takes("Data", SubSeq(w, 1, 5), "Sub", <<>>)
  <2>1. Takes("SubIac", <<w[4 + 1]>>, "Sub", <<>>)
    BY <1>2, <1>3, TakesByte
  <2>2. Takes("Data", SubSeq(w, 1, 4 + 1), "Sub", <<>>)
    <3>1. 4 \in Nat /\ 4 < Len(w) /\ w \in Seq(Nat)
      BY <1>1
    <3> QED
      BY <1>5, <2>1, <3>1, TakesPrefix
  <2> QED
    BY <2>2
<1>7. Takes("Data", SubSeq(w, 1, 6), "Sub", <<>>)
  <2>1. Takes("Sub", <<w[5 + 1]>>, "Sub", <<>>)
    BY <1>2, <1>3, TakesByte
  <2>2. Takes("Data", SubSeq(w, 1, 5 + 1), "Sub", <<>>)
    <3>1. 5 \in Nat /\ 5 < Len(w) /\ w \in Seq(Nat)
      BY <1>1
    <3> QED
      BY <1>6, <2>1, <3>1, TakesPrefix
  <2> QED
    BY <2>2
<1>8. Takes("Data", SubSeq(w, 1, 7), "Sub", <<>>)
  <2>1. Takes("Sub", <<w[6 + 1]>>, "Sub", <<>>)
    BY <1>2, <1>3, TakesByte
  <2>2. Takes("Data", SubSeq(w, 1, 6 + 1), "Sub", <<>>)
    <3>1. 6 \in Nat /\ 6 < Len(w) /\ w \in Seq(Nat)
      BY <1>1
    <3> QED
      BY <1>7, <2>1, <3>1, TakesPrefix
  <2> QED
    BY <2>2
<1>9. Takes("Data", SubSeq(w, 1, 8), "SubIac", <<>>)
  <2>1. Takes("Sub", <<w[7 + 1]>>, "SubIac", <<>>)
    BY <1>2, <1>3, TakesByte
  <2>2. Takes("Data", SubSeq(w, 1, 7 + 1), "SubIac", <<>>)
    <3>1. 7 \in Nat /\ 7 < Len(w) /\ w \in Seq(Nat)
      BY <1>1
    <3> QED
      BY <1>8, <2>1, <3>1, TakesPrefix
  <2> QED
    BY <2>2
<1>10. Takes("Data", SubSeq(w, 1, 9), "Data", <<>>)
  <2>1. Takes("SubIac", <<w[8 + 1]>>, "Data", <<>>)
    BY <1>2, <1>3, TakesByte
  <2>2. Takes("Data", SubSeq(w, 1, 8 + 1), "Data", <<>>)
    <3>1. 8 \in Nat /\ 8 < Len(w) /\ w \in Seq(Nat)
      BY <1>1
    <3> QED
      BY <1>9, <2>1, <3>1, TakesPrefix
  <2> QED
    BY <2>2
<1>11. SubSeq(w, 1, 9) = w
  BY <1>1
<1> QED
  BY <1>10, <1>11 DEF w

\* The question for the terminal's name.
LEMMA TerminalAskTaken ==
  Takes("Data", <<IAC, SB, TerminalType, 1, IAC, SE>>, "Data", <<>>)
<1> DEFINE w == <<IAC, SB, TerminalType, 1, IAC, SE>>
<1>1. w \in Seq(Nat) /\ Len(w) = 6
  BY DEF IAC, SB, SE, TerminalType
<1>2. w[1] = IAC /\ w[2] = SB /\ w[3] = TerminalType /\ w[4] = 1 /\ w[5] = IAC /\ w[6] = SE
  OBVIOUS
<1> HIDE DEF w
<1>3. TerminalType # IAC /\ TerminalType \in Nat /\ 1 # IAC /\ 65 # IAC /\ SE # IAC /\ SE \in Nat
  BY DEF IAC, SE, TerminalType
<1>4. Takes("Data", SubSeq(w, 1, 3), "Sub", <<>>)
  <2>1. SubSeq(w, 1, 3) = <<IAC, SB, TerminalType>>
    <3>1. SubSeq(w, 1, 3) = <<w[1], w[2], w[3]>>
      <4>1. w \in Seq(Nat) /\ Len(w) >= 3
        BY <1>1
      <4> QED
        BY <4>1, FirstThree
    <3> QED
      BY <1>2, <3>1
  <2> QED
    BY <1>3, <2>1, ProtocolTaken
<1>5. Takes("Data", SubSeq(w, 1, 4), "Sub", <<>>)
  <2>1. Takes("Sub", <<w[3 + 1]>>, "Sub", <<>>)
    BY <1>2, <1>3, TakesByte
  <2>2. Takes("Data", SubSeq(w, 1, 3 + 1), "Sub", <<>>)
    <3>1. 3 \in Nat /\ 3 < Len(w) /\ w \in Seq(Nat)
      BY <1>1
    <3> QED
      BY <1>4, <2>1, <3>1, TakesPrefix
  <2> QED
    BY <2>2
<1>6. Takes("Data", SubSeq(w, 1, 5), "SubIac", <<>>)
  <2>1. Takes("Sub", <<w[4 + 1]>>, "SubIac", <<>>)
    BY <1>2, <1>3, TakesByte
  <2>2. Takes("Data", SubSeq(w, 1, 4 + 1), "SubIac", <<>>)
    <3>1. 4 \in Nat /\ 4 < Len(w) /\ w \in Seq(Nat)
      BY <1>1
    <3> QED
      BY <1>5, <2>1, <3>1, TakesPrefix
  <2> QED
    BY <2>2
<1>7. Takes("Data", SubSeq(w, 1, 6), "Data", <<>>)
  <2>1. Takes("SubIac", <<w[5 + 1]>>, "Data", <<>>)
    BY <1>2, <1>3, TakesByte
  <2>2. Takes("Data", SubSeq(w, 1, 5 + 1), "Data", <<>>)
    <3>1. 5 \in Nat /\ 5 < Len(w) /\ w \in Seq(Nat)
      BY <1>1
    <3> QED
      BY <1>6, <2>1, <3>1, TakesPrefix
  <2> QED
    BY <2>2
<1>8. SubSeq(w, 1, 6) = w
  BY <1>1
<1> QED
  BY <1>7, <1>8 DEF w

\* What the remote sends is shown to the tab as the protocol has it.
LEMMA ItemTaken ==
  ASSUME NEW item \in Items
  PROVE  Takes("Data", Wire(item), "Data", item.shown)
<1>1. IAC \in Nat /\ SE \in Nat /\ LoginPrompt \in Nat /\ PasswordPrompt \in Nat /\ TerminalType \in Nat
      /\ NAWS \in Nat /\ Echo \in Nat /\ DO \in Verbs /\ WILL \in Verbs /\ DONT \in Verbs /\ 65 \in Nat
  BY DEF IAC, SE, LoginPrompt, PasswordPrompt, TerminalType, NAWS, Echo, Verbs
<1>2. 65 # IAC /\ SE # IAC /\ LoginPrompt # IAC /\ PasswordPrompt # IAC
  BY DEF IAC, SE, LoginPrompt, PasswordPrompt
<1>3. \A x, d : LET i == Shows(x, d) IN i.wire = x /\ i.shown = d /\ Wire(i) = x
  BY DEF Shows, Wire, SB
<1>4. ASSUME NEW v \in Verbs, NEW o
      PROVE  LET i == Asks(v, o) IN i.shown = <<>> /\ Wire(i) = <<IAC, v, o>>
  <2>1. v # SB
    BY DEF Verbs, SB, WILL, WONT, DO, DONT
  <2> QED
    BY <2>1 DEF Asks, Wire
<1>5. LET i == Asks(SB, TerminalType) IN i.shown = <<>> /\ Wire(i) = <<IAC, SB, TerminalType, 1, IAC, SE>>
  BY DEF Asks, Wire
<1>6. CASE item \in {Shows(<<65>>, <<65>>), Shows(<<SE>>, <<SE>>), Shows(<<LoginPrompt>>, <<LoginPrompt>>),
                     Shows(<<PasswordPrompt>>, <<PasswordPrompt>>)}
  <2>1. \A b \in Nat : b # IAC => Takes("Data", <<b>>, "Data", <<b>>)
    BY TakesByte
  <2> QED
    BY <1>1, <1>2, <1>3, <1>6, <2>1
<1>7. CASE item \in {Shows(<<IAC, IAC>>, <<IAC>>), Shows(<<IAC, 241>>, <<>>)}
  BY <1>3, <1>7, ProtocolTaken
<1>8. CASE item = Shows(<<IAC, SB, 65, IAC, IAC, SE, 65, IAC, SE>>, <<>>)
  BY <1>3, <1>8, SubnegotiationTaken
<1>9. CASE item \in {Asks(DO, NAWS), Asks(WILL, Echo), Asks(DONT, 65)}
  BY <1>1, <1>4, <1>9, ProtocolTaken
<1>10. CASE item = Asks(SB, TerminalType)
  BY <1>5, <1>10, TerminalAskTaken
<1> QED
  BY <1>6, <1>7, <1>8, <1>9, <1>10 DEF Items

LEMMA TakesAll ==
  ASSUME NEW s, NEW parts \in Seq(Seq(Nat)), NEW datas \in Seq(Seq(Nat)), Len(parts) = Len(datas),
         \A k \in 1 .. Len(parts) : Takes(s, parts[k], s, datas[k])
  PROVE  Takes(s, FlattenSeq(parts), s, FlattenSeq(datas))
<1>1. PICK g : Joins(g, datas, Len(datas)) /\ FlattenSeq(datas) = g[Len(datas)]
  BY FlattenJoins
<1>2. g[0] = <<>> /\ \A k \in 1 .. Len(parts) : g[k] = g[k - 1] \o datas[k]
  BY <1>1 DEF Joins
<1>3. \A k \in 1 .. Len(parts) : \E d : Takes(s, parts[k], s, d) /\ g[k] = g[k - 1] \o d
  BY <1>2
<1>4. Takes(s, FlattenSeq(parts), s, g[Len(parts)])
  BY <1>2, <1>3, TakesParts
<1> QED
  BY <1>1, <1>4

-----------------------------------------------------------------------------
(* The session                                                             *)
(*                                                                         *)
(* While it is open, what the worker has read and what it has not read are *)
(* what the remote sends, parser and shown are what Parse makes of what it *)
(* has read, and the remote takes what was sent for what was meant.        *)

Wires(its) == FlattenSeq([i \in DOMAIN its |-> Wire(its[i])])
Sights(its) == FlattenSeq([i \in DOMAIN its |-> its[i].shown])

Commands == {c \in [resize : BOOLEAN, data : Seq(Nat) \cup (Nat \X Nat)] :
               IF c.resize THEN c.data \in Nat \X Nat ELSE c.data \in Seq(Nat)}

ReadSoFar ==
  \E read \in Seq(Nat) :
    /\ read \o toCome = Wires(items)
    /\ parser = Parse(Fresh, read).p
    /\ shown = Parse(Fresh, read).data

TelnetInv ==
  /\ TelnetTypeOK
  /\ parser \in Parsers /\ toCome \in Seq(Nat) /\ shown \in Seq(Nat)
  /\ sent \in Seq(Nat) /\ meant \in Seq(Nat) /\ login.tail \in Nat
  /\ tabCommands \in Seq(Commands)
  /\ session = "connecting" => /\ toCome = Wires(items) /\ parser = Fresh
                               /\ shown = <<>> /\ meant = <<>>
  /\ session = "open" => ReadSoFar /\ Takes("Data", sent, "Data", meant)

LEMMA FreshTyped == Fresh \in Parsers /\ Fresh.state = "Data"
<1>1. <<>> \in Seq(Nat)
  OBVIOUS
<1> QED
  BY <1>1 DEF Fresh, Parsers, ParserStates, Verbs

LEMMA FunctionIsSeq ==
  ASSUME NEW n \in Nat, NEW S, NEW f \in [1 .. n -> S]
  PROVE  f \in Seq(S) /\ Len(f) = n
OBVIOUS

LEMMA ItemsTaken ==
  ASSUME NEW its \in Seq(Items)
  PROVE  Takes("Data", Wires(its), "Data", Sights(its))
<1> DEFINE w == [i \in DOMAIN its |-> Wire(its[i])]
           d == [i \in DOMAIN its |-> its[i].shown]
<1>1. DOMAIN its = 1 .. Len(its) /\ Len(its) \in Nat /\ \A i \in 1 .. Len(its) : its[i] \in Items
  OBVIOUS
<1>2. \A i \in 1 .. Len(its) : Takes("Data", w[i], "Data", d[i])
  BY <1>1, ItemTaken
<1>3. w \in Seq(Seq(Nat)) /\ Len(w) = Len(its) /\ d \in Seq(Seq(Nat)) /\ Len(d) = Len(its)
  <2>1. \A i \in 1 .. Len(its) : w[i] \in Seq(Nat) /\ d[i] \in Seq(Nat)
    BY <1>2 DEF Takes
  <2>2. w = [i \in 1 .. Len(its) |-> w[i]] /\ d = [i \in 1 .. Len(its) |-> d[i]]
    BY <1>1
  <2> HIDE DEF w, d
  <2>3. w \in [1 .. Len(its) -> Seq(Nat)] /\ d \in [1 .. Len(its) -> Seq(Nat)]
    BY <2>1, <2>2
  <2> QED
    BY <1>1, <2>3, FunctionIsSeq
<1> HIDE DEF w, d
<1>4. Takes("Data", FlattenSeq(w), "Data", FlattenSeq(d))
  BY <1>2, <1>3, TakesAll
<1> QED
  BY <1>4 DEF w, d, Wires, Sights

LEMMA CommandsTaken ==
  ASSUME NEW cs \in Seq(Commands)
  PROVE  Takes("Data", FlattenSeq([i \in DOMAIN cs |-> Encoded(cs[i])]), "Data",
               FlattenSeq([i \in DOMAIN cs |-> IF cs[i].resize THEN <<>> ELSE cs[i].data]))
<1> DEFINE w == [i \in DOMAIN cs |-> Encoded(cs[i])]
           d == [i \in DOMAIN cs |-> IF cs[i].resize THEN <<>> ELSE cs[i].data]
<1>1. DOMAIN cs = 1 .. Len(cs) /\ Len(cs) \in Nat /\ \A i \in 1 .. Len(cs) : cs[i] \in Commands
  OBVIOUS
<1>2. ASSUME NEW i \in 1 .. Len(cs) PROVE Takes("Data", w[i], "Data", d[i])
  <2>1. cs[i] \in Commands
    BY <1>1
  <2>2. CASE cs[i].resize
    BY <1>1, <2>1, <2>2, WindowSizeTaken DEF Commands, Encoded
  <2>3. CASE ~ cs[i].resize
    BY <1>1, <2>1, <2>3, EscapeTaken DEF Commands, Encoded
  <2> QED
    BY <2>2, <2>3
<1>3. w \in Seq(Seq(Nat)) /\ Len(w) = Len(cs) /\ d \in Seq(Seq(Nat)) /\ Len(d) = Len(cs)
  <2>1. \A i \in 1 .. Len(cs) : w[i] \in Seq(Nat) /\ d[i] \in Seq(Nat)
    BY <1>2 DEF Takes
  <2>2. w = [i \in 1 .. Len(cs) |-> w[i]] /\ d = [i \in 1 .. Len(cs) |-> d[i]]
    BY <1>1
  <2> HIDE DEF w, d
  <2>3. w \in [1 .. Len(cs) -> Seq(Nat)] /\ d \in [1 .. Len(cs) -> Seq(Nat)]
    BY <2>1, <2>2
  <2> QED
    BY <1>1, <2>3, FunctionIsSeq
<1> HIDE DEF w, d
<1>4. Takes("Data", FlattenSeq(w), "Data", FlattenSeq(d))
  BY <1>2, <1>3, TakesAll
<1> QED
  BY <1>4 DEF w, d


LEMMA TelnetStarts ==
  TelnetInit => TelnetInv
<1>1. <<>> \in Seq(Nat) /\ <<>> \in Seq(Items) /\ <<>> \in Seq(Commands) /\ Len(<<>>) = 0
  OBVIOUS
<1> QED
  BY <1>1, FreshTyped, TelnetAssumption DEF TelnetInit, TelnetInv, TelnetTypeOK, NoLogin

LEMMA Connects ==
  ASSUME TelnetInv, Connect
  PROVE  TelnetInv'
<1>1. items' \in Seq(Items) /\ Len(items') = MaxItems
  <2>1. PICK s \in TupleOf(Items, MaxItems) : items' = s
    BY DEF Connect
  <2>2. items' \in [1 .. MaxItems -> Items]
    BY <2>1 DEF TupleOf
  <2> QED
    BY <2>2, FunctionIsSeq, TelnetAssumption
<1>2. toCome' = Wires(items') /\ toCome' \in Seq(Nat)
  <2>1. toCome' = Wires(items')
    BY DEF Connect, Wires
  <2>2. Wires(items') \in Seq(Nat)
    BY <1>1, ItemsTaken DEF Takes
  <2> QED
    BY <2>1, <2>2
<1>3. /\ session' = "connecting" /\ issued' = 0 /\ tabCommands' = <<>> /\ parser' = Fresh
      /\ shown' = <<>> /\ sent' = <<>> /\ meant' = <<>>
  BY DEF Connect
<1>4. login'.user \in BOOLEAN /\ login'.pass \in BOOLEAN /\ login'.tail \in Nat
  BY DEF Connect
<1>5. <<>> \in Seq(Nat) /\ <<>> \in Seq(Commands) /\ Len(<<>>) = 0
  OBVIOUS
<1> HIDE DEF TelnetInv
<1>6. TelnetTypeOK'
  BY <1>1, <1>3, <1>4, <1>5, FreshTyped, TelnetAssumption DEF TelnetTypeOK
<1> QED
  BY <1>1, <1>2, <1>3, <1>4, <1>5, <1>6, FreshTyped DEF TelnetInv

\* What the session sends first.
LEMMA OpeningTaken ==
  Takes("Data", Negotiation(WILL, TerminalType) \o Negotiation(WILL, NAWS)
                \o Negotiation(DO, Suppress) \o Negotiation(WILL, Suppress)
                \o WindowSize(FirstWindow), "Data", <<>>)
<1>1. TerminalType \in Nat /\ NAWS \in Nat /\ Suppress \in Nat /\ WILL \in Verbs /\ DO \in Verbs
  BY DEF TerminalType, NAWS, Suppress, Verbs
<1> DEFINE a == Negotiation(WILL, TerminalType)
           b == Negotiation(WILL, NAWS)
           c == Negotiation(DO, Suppress)
           d == Negotiation(WILL, Suppress)
           e == WindowSize(FirstWindow)
<1>2. /\ Takes("Data", a, "Data", <<>>) /\ Takes("Data", b, "Data", <<>>)
      /\ Takes("Data", c, "Data", <<>>) /\ Takes("Data", d, "Data", <<>>)
  BY <1>1, ProtocolTaken DEF Negotiation
<1>3. Takes("Data", e, "Data", <<>>)
  BY SmallNumbers, WindowSizeTaken
<1> HIDE DEF a, b, c, d, e
<1>4. <<>> \o <<>> = <<>>
  OBVIOUS
<1>5. Takes("Data", a \o b, "Data", <<>>)
  BY <1>2, <1>4, TakesJoined
<1>6. Takes("Data", (a \o b) \o c, "Data", <<>>)
  BY <1>2, <1>4, <1>5, TakesJoined
<1>7. Takes("Data", ((a \o b) \o c) \o d, "Data", <<>>)
  BY <1>2, <1>4, <1>6, TakesJoined
<1>8. Takes("Data", (((a \o b) \o c) \o d) \o e, "Data", <<>>)
  BY <1>3, <1>4, <1>7, TakesJoined
<1> QED
  BY <1>8 DEF a, b, c, d, e

LEMMA OpensWell ==
  ASSUME TelnetInv, Opens
  PROVE  TelnetInv'
<1>1. /\ session = "connecting" /\ session' = "open" /\ items' = items /\ toCome' = toCome
      /\ tabCommands' = tabCommands /\ issued' = issued /\ parser' = parser /\ shown' = shown
      /\ meant' = meant /\ login' = login
  BY DEF Opens
<1>2. toCome = Wires(items) /\ toCome \in Seq(Nat) /\ parser = Fresh /\ shown = <<>> /\ meant = <<>>
  BY <1>1 DEF TelnetInv
<1>3. Takes("Data", sent', "Data", <<>>)
  BY OpeningTaken DEF Opens
<1>4. sent' \in Seq(Nat)
  BY <1>3 DEF Takes
<1>5. ReadSoFar'
  <2>1. <<>> \in Seq(Nat) /\ <<>> \o toCome = toCome
    BY <1>2
  <2>2. Parse(Fresh, <<>>).p = Fresh /\ Parse(Fresh, <<>>).data = <<>>
    BY FreshTyped, ParseSmall, StartIs
  <2> QED
    BY <1>1, <1>2, <2>1, <2>2 DEF ReadSoFar
<1>6. TelnetTypeOK'
  BY <1>1 DEF TelnetInv, TelnetTypeOK
<1> QED
  BY <1>1, <1>2, <1>3, <1>4, <1>5, <1>6 DEF TelnetInv

LEMMA Issues ==
  ASSUME TelnetInv, NEW c \in Commands, Issue(c)
  PROVE  TelnetInv'
<1>1. /\ session' = session /\ items' = items /\ toCome' = toCome /\ parser' = parser
      /\ shown' = shown /\ sent' = sent /\ meant' = meant /\ login' = login
  BY DEF Issue
<1>2. tabCommands \in Seq(Commands) /\ issued \in 0 .. MaxTabCommands /\ Len(tabCommands) <= issued
  BY DEF TelnetInv, TelnetTypeOK
<1>3. tabCommands' \in Seq(Commands) /\ Len(tabCommands') = Len(tabCommands) + 1
  BY <1>2 DEF Issue
<1>4. issued' \in 0 .. MaxTabCommands /\ Len(tabCommands') <= issued'
  <2>1. Len(tabCommands) \in Nat
    BY <1>2
  <2> QED
    BY <1>2, <1>3, <2>1, TelnetAssumption DEF Issue
<1>5. TelnetTypeOK'
  BY <1>1, <1>4 DEF TelnetInv, TelnetTypeOK
<1>6. ReadSoFar => ReadSoFar'
  BY <1>1 DEF ReadSoFar
<1> QED
  BY <1>1, <1>3, <1>5, <1>6 DEF TelnetInv

LEMMA CommandsIssued ==
  ASSUME TelnetInv, WriteData \/ Resize
  PROVE  TelnetInv'
<1>1. CASE WriteData
  <2> DEFINE c == [resize |-> FALSE, data |-> <<66, IAC>>]
  <2>1. <<66, IAC>> \in Seq(Nat)
    BY DEF IAC
  <2>2. c \in Commands
    BY <2>1 DEF Commands
  <2>3. Issue(c)
    BY <1>1 DEF WriteData
  <2> HIDE DEF c
  <2> QED
    BY <2>2, <2>3, Issues
<1>2. CASE Resize
  <2>1. PICK w \in Windows : Issue([resize |-> TRUE, data |-> w])
    BY <1>2 DEF Resize
  <2> DEFINE c == [resize |-> TRUE, data |-> w]
  <2>2. w \in Nat \X Nat
    <3>1. PICK h \in Heights : w = <<80, h>>
      BY <2>1 DEF Windows
    <3> QED
      BY <3>1, TelnetAssumption
  <2>3. c \in Commands
    BY <2>2 DEF Commands
  <2>4. Issue(c)
    BY <2>1
  <2> HIDE DEF c
  <2> QED
    BY <2>3, <2>4, Issues
<1> QED
  BY <1>1, <1>2

LEMMA CommandsSent ==
  ASSUME TelnetInv, SendCommands
  PROVE  TelnetInv'
<1>1. /\ session = "open" /\ session' = session /\ items' = items /\ toCome' = toCome
      /\ parser' = parser /\ shown' = shown /\ login' = login /\ issued' = issued /\ tabCommands' = <<>>
  BY DEF SendCommands
<1>2. tabCommands \in Seq(Commands)
  BY DEF TelnetInv
<1> DEFINE x == FlattenSeq([i \in DOMAIN tabCommands |-> Encoded(tabCommands[i])])
           d == FlattenSeq([i \in DOMAIN tabCommands |->
                              IF tabCommands[i].resize THEN <<>> ELSE tabCommands[i].data])
<1>3. Takes("Data", x, "Data", d)
  BY <1>2, CommandsTaken
<1>4. sent' = sent \o x /\ meant' = meant \o d
  BY DEF SendCommands
<1> HIDE DEF x, d
<1>5. Takes("Data", sent, "Data", meant) /\ ReadSoFar
  BY <1>1 DEF TelnetInv
<1>6. Takes("Data", sent', "Data", meant')
  BY <1>3, <1>4, <1>5, TakesJoined
<1>7. sent' \in Seq(Nat) /\ meant' \in Seq(Nat)
  BY <1>6 DEF Takes
<1>8. ReadSoFar'
  BY <1>1, <1>5 DEF ReadSoFar
<1>9. <<>> \in Seq(Commands) /\ Len(<<>>) = 0
  OBVIOUS
<1>10. TelnetTypeOK'
  BY <1>1, <1>9 DEF TelnetInv, TelnetTypeOK
<1> QED
  BY <1>1, <1>6, <1>7, <1>8, <1>9, <1>10 DEF TelnetInv


LEMMA TypedIsSeq ==
  \A answer : Typed(answer) \in Seq(Nat)
<1>1. Username \o <<13, 10>> \in Seq(Nat) /\ Password \o <<13, 10>> \in Seq(Nat) /\ <<>> \in Seq(Nat)
  BY DEF Username, Password, IAC
<1> QED
  BY <1>1 DEF Typed

LEMMA Cut ==
  ASSUME NEW w \in Seq(Nat), NEW n \in 1 .. Len(w)
  PROVE  LET a == SubSeq(w, 1, n)
             b == SubSeq(w, n + 1, Len(w))
         IN  a \in Seq(Nat) /\ b \in Seq(Nat) /\ a \o b = w
<1>1. Len(w) \in Nat /\ n \in Nat /\ 1 <= n /\ n <= Len(w) /\ \A i \in 1 .. Len(w) : w[i] \in Nat
  OBVIOUS
<1>2. SubSeq(w, 1, n) \o SubSeq(w, n + 1, Len(w)) = SubSeq(w, 1, Len(w))
  <2>1. 1 \in 1 .. Len(w) + 1 /\ n \in 1 - 1 .. Len(w) /\ Len(w) \in n .. Len(w)
    BY <1>1
  <2> QED
    BY <2>1, ConcatAdjacentSubSeq
<1>3. SubSeq(w, 1, Len(w)) = w
  OBVIOUS
<1>4. SubSeq(w, 1, n) \in Seq(Nat) /\ SubSeq(w, n + 1, Len(w)) \in Seq(Nat)
  <2>1. \A i \in 1 .. n : w[i] \in Nat
    BY <1>1
  <2>2. \A i \in n + 1 .. Len(w) : w[i] \in Nat
    BY <1>1
  <2> QED
    BY <1>1, <2>1, <2>2
<1> QED
  BY <1>2, <1>3, <1>4

LEMMA ReceivesPiece ==
  ASSUME TelnetInv, NEW n \in 1 .. Len(toCome), Receive(n)
  PROVE  TelnetInv'
<1> DEFINE piece == SubSeq(toCome, 1, n)
           r == Parse(parser, piece)
           tail == IF r.data = <<>> THEN login.tail ELSE Last(r.data)
           answer == IF r.data = <<>> THEN "none" ELSE PromptAnswer(tail)
           typed == Typed(answer)
<1>1. /\ session = "open" /\ session' = session /\ items' = items /\ tabCommands' = tabCommands
      /\ issued' = issued
  BY DEF Receive
<1>2. /\ toCome' = SubSeq(toCome, n + 1, Len(toCome)) /\ parser' = r.p /\ shown' = shown \o r.data
      /\ sent' = (sent \o r.answers) \o EscapeIac(typed) /\ meant' = meant \o typed
  BY DEF Receive, Kept
<1>3. login' = [user |-> login.user \/ answer = "user", pass |-> login.pass \/ answer = "pass",
                tail |-> IF answer = "none" THEN tail ELSE 0]
  BY DEF Receive, Kept
<1>4. /\ toCome \in Seq(Nat) /\ parser \in Parsers /\ shown \in Seq(Nat) /\ login.tail \in Nat
      /\ ReadSoFar /\ Takes("Data", sent, "Data", meant)
  BY <1>1 DEF TelnetInv
<1>5. piece \in Seq(Nat) /\ toCome' \in Seq(Nat) /\ piece \o toCome' = toCome
  BY <1>2, <1>4, Cut
<1> HIDE DEF piece
<1>6. r.p \in Parsers /\ r.data \in Seq(Nat) /\ r.answers \in Seq(Nat)
  BY <1>4, <1>5, ParseTyped
<1>7. Takes("Data", r.answers, "Data", <<>>)
  BY <1>4, <1>5, AnswersTaken
<1>8. typed \in Seq(Nat) /\ Takes("Data", EscapeIac(typed), "Data", typed)
  BY TypedIsSeq, EscapeTaken
<1>9. tail \in Nat
  <2>1. r.data # <<>> => Last(r.data) \in Nat
    BY <1>6 DEF Last
  <2> QED
    BY <1>4, <2>1
<1>10. login'.tail \in Nat /\ login'.user \in BOOLEAN /\ login'.pass \in BOOLEAN
  <2>1. login'.tail = IF answer = "none" THEN tail ELSE 0
    BY <1>3
  <2>2. login'.tail \in Nat
    BY <1>9, <2>1
  <2> HIDE DEF answer, tail
  <2>3. login'.user = (login.user \/ answer = "user") /\ login'.pass = (login.pass \/ answer = "pass")
    BY <1>3
  <2>4. login'.user \in BOOLEAN /\ login'.pass \in BOOLEAN
    BY <2>3, Zenon
  <2> QED
    BY <2>2, <2>4
<1> HIDE DEF tail, answer
<1>11. Takes("Data", sent', "Data", meant')
  <2>1. Takes("Data", sent \o r.answers, "Data", meant \o <<>>)
    BY <1>4, <1>7, TakesJoined
  <2>2. meant \o <<>> = meant
    BY <1>4 DEF Takes
  <2>3. Takes("Data", sent \o r.answers, "Data", meant)
    BY <2>1, <2>2
  <2> HIDE DEF typed, r
  <2>4. Takes("Data", (sent \o r.answers) \o EscapeIac(typed), "Data", meant \o typed)
    BY <1>8, <2>3, TakesJoined
  <2> QED
    BY <1>2, <2>4
<1>12. ReadSoFar'
  <2>1. PICK read \in Seq(Nat) : /\ read \o toCome = Wires(items)
                                 /\ parser = Parse(Fresh, read).p /\ shown = Parse(Fresh, read).data
    BY <1>4 DEF ReadSoFar
  <2> DEFINE now == read \o piece
             rest == toCome'
             w == Wires(items)
  <2>2. now \in Seq(Nat)
    BY <1>5
  <2>3. now \o toCome' = Wires(items)
    <3>1. read \o (piece \o toCome') = w
      BY <1>5, <2>1
    <3>2. read \in Seq(Nat) /\ piece \in Seq(Nat) /\ rest \in Seq(Nat) /\ read \o (piece \o rest) = w
      BY <1>5, <3>1
    <3> HIDE DEF w, rest
    <3>3. (read \o piece) \o rest = w
      <4> DEFINE left == (read \o piece) \o rest
                 right == read \o (piece \o rest)
      <4>1. left = right
        <5>1. Join(Join(read, piece), rest) = Join(read, Join(piece, rest))
          BY <3>2, Associative
        <5> QED
          BY <5>1, Zenon DEF Join
      <4>2. right = w
        BY <3>2
      <4> HIDE DEF left, right
      <4>3. left = w
        BY ONLY <4>1, <4>2
      <4> QED
        BY <4>3 DEF left
    <3> QED
      BY <3>3 DEF rest, w
  <2>4. Parse(Fresh, now) = [p |-> r.p, data |-> shown \o r.data,
                             answers |-> Parse(Fresh, read).answers \o r.answers]
    BY <1>5, <2>1, FreshTyped, ParseJoined
  <2>5. Parse(Fresh, now).p = r.p /\ Parse(Fresh, now).data = shown \o r.data
    <3> DEFINE v == Parse(Fresh, now)
               c == r.p
               h == shown \o r.data
               a == Parse(Fresh, read).answers \o r.answers
    <3>1. v = [p |-> c, data |-> h, answers |-> a]
      BY <2>4
    <3> HIDE DEF v, c, h, a
    <3>2. v.p = c /\ v.data = h
      BY ONLY <3>1
    <3> QED
      BY <3>2 DEF v, c, h
  <2> HIDE DEF now, r
  <2>6. Wires(items') = Wires(items)
    BY <1>1
  <2> QED
    BY <1>2, <2>2, <2>3, <2>5, <2>6 DEF ReadSoFar
<1>13. sent' \in Seq(Nat) /\ meant' \in Seq(Nat)
  BY <1>11 DEF Takes
<1>14. parser' \in Parsers /\ parser'.state \in ParserStates /\ shown' \in Seq(Nat)
  BY <1>2, <1>4, <1>6 DEF Parsers
<1> HIDE DEF piece, r, typed
<1>15. TelnetTypeOK'
  BY <1>1, <1>10, <1>14 DEF TelnetInv, TelnetTypeOK, ParserStates
<1>16. tabCommands' \in Seq(Commands)
  BY <1>1 DEF TelnetInv
<1> QED
  BY <1>1, <1>5, <1>10, <1>11, <1>12, <1>13, <1>14, <1>15, <1>16 DEF TelnetInv

LEMMA SessionEnds ==
  ASSUME TelnetInv, RemoteEnds \/ Stop
  PROVE  TelnetInv'
<1>1. /\ session' \in {"none", "ended"} /\ items' = <<>> /\ toCome' = <<>> /\ parser' = Fresh
      /\ shown' = <<>> /\ sent' = <<>> /\ meant' = <<>> /\ login' = NoLogin
      /\ (tabCommands' = <<>> /\ issued' = 0) \/ (tabCommands' = tabCommands /\ issued' = issued)
  BY DEF RemoteEnds, Stop, Forgotten
<1>2. <<>> \in Seq(Nat) /\ <<>> \in Seq(Items) /\ <<>> \in Seq(Commands) /\ Len(<<>>) = 0
  OBVIOUS
<1>3. login'.user \in BOOLEAN /\ login'.pass \in BOOLEAN /\ login'.tail \in Nat
  BY <1>1 DEF NoLogin
<1>4. TelnetTypeOK'
  BY <1>1, <1>2, <1>3, FreshTyped, TelnetAssumption DEF TelnetInv, TelnetTypeOK
<1> QED
  BY <1>1, <1>2, <1>3, <1>4, FreshTyped DEF TelnetInv

LEMMA TelnetStep ==
  ASSUME TelnetInv, [TelnetNext]_telnetVars
  PROVE  TelnetInv'
<1>1. CASE UNCHANGED telnetVars
  <2>1. /\ session' = session /\ items' = items /\ toCome' = toCome /\ tabCommands' = tabCommands
        /\ issued' = issued /\ parser' = parser /\ shown' = shown /\ sent' = sent /\ meant' = meant
        /\ login' = login
    BY <1>1 DEF telnetVars
  <2>2. (ReadSoFar => ReadSoFar') /\ (TelnetTypeOK => TelnetTypeOK')
    BY <2>1 DEF ReadSoFar, TelnetTypeOK
  <2> QED
    BY <2>1, <2>2 DEF TelnetInv
<1>2. CASE ReceivePiece
  BY <1>2, ReceivesPiece DEF ReceivePiece
<1> QED
  BY <1>1, <1>2, Connects, OpensWell, CommandsIssued, CommandsSent, SessionEnds DEF TelnetNext

LEMMA TransparentSoFar ==
  ASSUME TelnetInv
  PROVE  TelnetTypeOK /\ TelnetIsTransparent
<1>1. TelnetTypeOK
  BY DEF TelnetInv
<1>2. ASSUME session = "open" PROVE Parse(Fresh, sent).p.state = "Data" /\ Parse(Fresh, sent).data = meant
  BY <1>2, FreshTyped DEF TelnetInv, Takes
<1>3. ASSUME session = "open", toCome = <<>> PROVE shown = Sights(items)
  <2>1. PICK read \in Seq(Nat) : /\ read \o toCome = Wires(items) /\ shown = Parse(Fresh, read).data
    BY <1>3 DEF TelnetInv, ReadSoFar
  <2>2. read \o <<>> = read
    OBVIOUS
  <2>3. read = Wires(items)
    BY <1>3, <2>1, <2>2
  <2>4. Takes("Data", Wires(items), "Data", Sights(items))
    BY <1>1, ItemsTaken DEF TelnetTypeOK
  <2> QED
    BY <2>1, <2>3, <2>4, FreshTyped DEF Takes
<1> QED
  BY <1>1, <1>2, <1>3 DEF TelnetIsTransparent, Sights

\* The Telnet session and its types: whatever the remote sends and however it
\* is cut into pieces, the tab is shown the data of it and no negotiation; and
\* a remote that reads by the same protocol finds in what the session sends
\* exactly the input and the login meant for it: Run 285-337, EscapeIac,
\* WindowSize.
THEOREM TelnetPromise == TelnetSpec => [](TelnetTypeOK /\ TelnetIsTransparent)
<1>1. TelnetInv /\ [TelnetNext]_telnetVars => TelnetInv'
  BY TelnetStep
<1>2. TelnetInv => TelnetTypeOK /\ TelnetIsTransparent
  BY TransparentSoFar
<1> QED
  BY <1>1, <1>2, TelnetStarts, PTL DEF TelnetSpec

=============================================================================
