--------------------------- MODULE TerminalOutput ---------------------------
(***************************************************************************)
(* What an SSH terminal promises its user about output: the terminal shows *)
(* the messages of one session at a time, in the order the session wrote   *)
(* them and none twice, and skips some only when more than BufferLimit     *)
(* bytes were waiting for it.                                              *)
(***************************************************************************)
EXTENDS Naturals, Sequences

CONSTANTS Sessions, NoSession, Sizes, BufferLimit

VARIABLES
  written,  \* the sizes of the messages a session has written
  session,  \* the session the terminal shows
  seen      \* the last of its messages the terminal has shown

vars == <<written, session, seen>>

Init ==
  /\ written = [s \in Sessions |-> <<>>]
  /\ session = NoSession
  /\ seen = 0

\* The bytes of the first messages of w, and of those from the i-th on.
BytesUpTo(w) ==
  LET sum[n \in 0..Len(w)] == IF n = 0 THEN 0 ELSE sum[n - 1] + w[n] IN sum
Bytes(w, i) == BytesUpTo(w)[Len(w)] - BytesUpTo(w)[i - 1]

Write(s) ==
  /\ \E n \in Sizes : written' = [written EXCEPT ![s] = Append(@, n)]
  /\ UNCHANGED <<session, seen>>

Show ==
  /\ session # NoSession
  /\ seen' \in seen + 1 .. Len(written[session])
  /\ seen' # seen + 1 => Bytes(written[session], seen + 1) > BufferLimit
  /\ UNCHANGED <<written, session>>

Enter(s) ==
  /\ session = NoSession
  /\ session' = s
  /\ UNCHANGED <<written, seen>>

Leave ==
  /\ session' = NoSession
  /\ seen' = 0
  /\ UNCHANGED written

Next ==
  \/ \E s \in Sessions : Write(s) \/ Enter(s)
  \/ Show \/ Leave

Spec == Init /\ [][Next]_vars

=============================================================================
