------------------------------ MODULE PortForwards ------------------------------
(***************************************************************************)
(* A forwarded port (SftpService::StartForward, StopForward, RelayForward  *)
(* in ssh/sftp_service.cpp): one thread listens, and relays one client at  *)
(* a time to a channel of an SSH connection of its own.                    *)
(*                                                                         *)
(* What an end says are the units 1, 2, 3 and so on.                       *)
(***************************************************************************)
EXTENDS Naturals, Sequences

CONSTANT MaxUnits  \* bound: what either end says

ASSUME ForwardAssumption == MaxUnits \in Nat

VARIABLES
  forward,  \* the thread: none, starting, listening, opening, relaying, failed
  asked,    \* request_stop
  up,       \* from the client to the remote end
  down,     \* from the remote end to the client
  ended     \* the ends that have closed their side

forwardVars == <<forward, asked, up, down, ended>>

\* said by one end; taken from it; pending in the relay; got by the other.
Quiet == [said |-> 0, taken |-> 0, pending |-> <<>>, got |-> <<>>]

ForwardInit ==
  /\ forward = "none" /\ asked = FALSE
  /\ up = Quiet /\ down = Quiet /\ ended = {}

-----------------------------------------------------------------------------
StartForward ==
  /\ forward = "none"
  /\ forward' = "starting"
  /\ UNCHANGED <<asked, up, down, ended>>

\* The port is bound, or is in use by somebody else.
Listen ==
  /\ forward = "starting"
  /\ forward' \in {"listening", "failed"}
  /\ UNCHANGED <<asked, up, down, ended>>

AcceptClient ==
  /\ forward = "listening" /\ ~asked
  /\ forward' = "opening"
  /\ up' = Quiet /\ down' = Quiet /\ ended' = {}
  /\ UNCHANGED asked

\* The SSH connection and its channel.  A failure here, as one in the relay,
\* is the end of the whole forward.
OpenChannel ==
  /\ forward = "opening"
  /\ forward' \in {"relaying", "failed"}
  /\ UNCHANGED <<asked, up, down, ended>>

RelayFails ==
  /\ forward = "relaying"
  /\ forward' = "failed"
  /\ UNCHANGED <<asked, up, down, ended>>

-----------------------------------------------------------------------------
(* The loop of RelayForward.                                               *)
Numbered(first, n) == [i \in 1 .. n |-> first + i]

\* n units are taken from the end that speaks.
Take(stream, n) ==
  [stream EXCEPT !.taken = @ + n, !.pending = Numbered(stream.taken, n)]

\* The first n pending units reach the other end.
Deliver(stream, n) ==
  [stream EXCEPT !.got = @ \o SubSeq(stream.pending, 1, n),
                 !.pending = SubSeq(@, n + 1, Len(@))]

\* Mutant: the buffer is filled while it is not yet empty.
Overfill(stream) == TRUE
MayTake(stream) == stream.pending = <<>>

Taken(stream) == IF MayTake(stream) THEN 0 .. stream.said - stream.taken ELSE {0}

\* The round first moves what the client said, then what the remote said.
\* The client is only written to if something was pending for it when select
\* was called.
RelayRound ==
  /\ forward = "relaying" /\ ~asked
  /\ \E n \in Taken(up), m \in Taken(down) :
       LET upNow == IF n = 0 THEN up ELSE Take(up, n)
           downNow == IF m = 0 THEN down ELSE Take(down, m) IN
       /\ \E k \in 0 .. Len(upNow.pending) : up' = Deliver(upNow, k)
       /\ \E k \in 0 .. Len(down.pending) : down' = Deliver(downNow, k)
  /\ UNCHANGED <<forward, asked, ended>>

\* The client is done, or the channel is at its end and read to it; what is
\* pending then is dropped.
EndRelay ==
  /\ forward = "relaying"
  /\ \/ "client" \in ended /\ up.taken = up.said /\ MayTake(up)
     \/ "remote" \in ended /\ down.taken = down.said
  /\ forward' = "listening"
  /\ UNCHANGED <<asked, up, down, ended>>

-----------------------------------------------------------------------------
(* StopForward and ~SftpService: the thread sees the request at the top of *)
(* its loops and while it opens the channel.                               *)
AskForwardToStop ==
  /\ forward # "none" /\ ~asked
  /\ asked' = TRUE
  /\ UNCHANGED <<forward, up, down, ended>>

JoinForward ==
  /\ asked /\ forward # "starting"
  /\ forward' = "none" /\ asked' = FALSE
  /\ up' = Quiet /\ down' = Quiet /\ ended' = {}

\* The ends.
Say(end, stream) ==
  /\ end \notin ended /\ stream.said < MaxUnits
  /\ stream' = [stream EXCEPT !.said = @ + 1]

ClientSpeaks ==
  /\ forward \in {"opening", "relaying"}
  /\ Say("client", up)
  /\ UNCHANGED <<forward, asked, down, ended>>

RemoteSpeaks ==
  /\ forward = "relaying"
  /\ Say("remote", down)
  /\ UNCHANGED <<forward, asked, up, ended>>

EndCloses(end) ==
  /\ forward = "relaying" /\ end \notin ended
  /\ ended' = ended \cup {end}
  /\ UNCHANGED <<forward, asked, up, down>>

ForwardNext ==
  \/ StartForward \/ Listen \/ AcceptClient \/ OpenChannel \/ RelayFails
  \/ RelayRound \/ EndRelay \/ AskForwardToStop \/ JoinForward
  \/ ClientSpeaks \/ RemoteSpeaks \/ \E end \in {"client", "remote"} : EndCloses(end)

ForwardSpec == ForwardInit /\ [][ForwardNext]_forwardVars

-----------------------------------------------------------------------------
ForwardTypeOK ==
  /\ forward \in {"none", "starting", "listening", "opening", "relaying", "failed"}
  /\ asked \in BOOLEAN
  /\ \A stream \in {up, down} :
       /\ stream.said \in 0 .. MaxUnits /\ stream.taken \in 0 .. stream.said
       /\ {stream.pending, stream.got} \subseteq Seq(1 .. MaxUnits)
  /\ ended \subseteq {"client", "remote"}

\* RelayForward loses, doubles and reorders nothing: what it has taken from an
\* end and what the other end has got of it differ by what is still pending,
\* however short the reads and the writes are.
RelayedInOrder ==
  \A stream \in {up, down} : stream.got \o stream.pending = Numbered(0, stream.taken)
=============================================================================
