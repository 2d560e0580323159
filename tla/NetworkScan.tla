----------------------------- MODULE NetworkScan -----------------------------
(***************************************************************************)
(* The network scan of one WebSocket (network_scan_websocket.cpp): RunScan *)
(* shares the addresses of a network out to worker threads by one atomic   *)
(* cursor; the handlers cancel a scan, and wait for it on the event loop   *)
(* before the next one and when the connection is closed.                  *)
(*                                                                         *)
(* Addresses have Width bits.  What answers is fixed for one scan.         *)
(***************************************************************************)
EXTENDS Naturals, FiniteSets

CONSTANTS
  Width,        \* bits of an address, 32 in the code
  MaximumHosts, \* kMaximumHosts
  Probers       \* worker threads a request asks for

ASSUME WidthAssumption == Width \in Nat \ {0, 1}

\* The number of workers a request asks for is clamped to 1 at least.
ASSUME ProbersAssumption == IsFiniteSet(Probers) /\ Probers # {}

Addresses == 0 .. 2 ^ Width - 1

VARIABLES
  scanLink,    \* the connection: open, closing, gone
  waitsFor,    \* what its handler waits for in join: nothing, next, end
  runScan,     \* the thread of ScanState::worker: none, running, ended
  stopScan,    \* its stop token
  addresses,   \* what it scans, a range [first, count]
  pings,       \* the hosts in it that answer a ping
  listening,   \* those that have a port open that is asked for
  cursor,
  prober,      \* where each worker is, and its host
  scanned,
  reachable,
  results,     \* the result messages sent, [host, online, scanned]
  verdict      \* the last message of the scan, none before it

scanNetVars == <<scanLink, waitsFor, runScan, stopScan, addresses, pings, listening, cursor,
                 prober, scanned, reachable, results, verdict>>
threadVars == <<addresses, pings, listening, cursor, prober, scanned, reachable, results, verdict>>

-----------------------------------------------------------------------------
(* ExpandCidr.  Network and broadcast address are left out of a network    *)
(* that has more than two addresses.                                       *)
Block(prefix) == 2 ^ (Width - prefix)

\* Arithmetic the provers do not know.
ASSUME PowersAssumption ==
  \A prefix \in 0 .. Width :
    /\ Block(prefix) \in Nat \ {0} /\ 2 ^ prefix \in Nat
    /\ 2 ^ Width = 2 ^ prefix * Block(prefix)

HasBroadcast(prefix) == prefix <= Width - 2

UsableCount(prefix) == IF HasBroadcast(prefix) THEN Block(prefix) - 2 ELSE Block(prefix)

\* Mutant: the host bits are left in.
Unmasked(address, prefix) == address
Masked(address, prefix) == address - (address % Block(prefix))

ExpandCidr(address, prefix) ==
  [first |-> Masked(address, prefix) + (IF HasBroadcast(prefix) THEN 1 ELSE 0),
   count |-> UsableCount(prefix)]

Accepted(prefix) == UsableCount(prefix) \in 1 .. MaximumHosts

HostsOf(range) == range.first .. range.first + range.count - 1

NoRange == [first |-> 0, count |-> 0]
Resting == [at |-> "done", host |-> 0, online |-> FALSE]

-----------------------------------------------------------------------------
NetworkInit ==
  /\ scanLink = "open" /\ waitsFor = "nothing"
  /\ runScan = "none" /\ stopScan = FALSE
  /\ addresses = NoRange /\ pings = {} /\ listening = {} /\ cursor = 0
  /\ prober = [w \in Probers |-> Resting]
  /\ scanned = 0 /\ reachable = 0 /\ results = {} /\ verdict = "none"

HandlerFree == scanLink = "open" /\ waitsFor = "nothing"

\* One worker for each address, as far as the request allows.
StartWorkers(count) ==
  \E team \in SUBSET Probers :
    /\ \/ Cardinality(team) = count
       \/ team = Probers /\ (Cardinality(team) < count)
    /\ prober' = [w \in Probers |-> [Resting EXCEPT !.at = IF w \in team THEN "idle" ELSE "done"]]

\* A new thread starts on what the request names, or the request is refused.
Launch(address, prefix) ==
  /\ stopScan' = FALSE /\ waitsFor' = "nothing"
  /\ cursor' = 0 /\ scanned' = 0 /\ reachable' = 0 /\ results' = {} /\ verdict' = "none"
  /\ IF Accepted(prefix)
       THEN /\ runScan' = "running"
            /\ addresses' = ExpandCidr(address, prefix)
            /\ pings' \in SUBSET HostsOf(addresses')
            /\ listening' \in SUBSET HostsOf(addresses')
            /\ StartWorkers(addresses'.count)
       ELSE /\ runScan' = "none"
            /\ addresses' = NoRange /\ pings' = {} /\ listening' = {}
            /\ prober' = [w \in Probers |-> Resting]
  /\ UNCHANGED scanLink

\* "scan": at once, or when the thread that is there has been joined.
StartScan(address, prefix) ==
  /\ HandlerFree /\ runScan = "none"
  /\ Launch(address, prefix)

ReplaceScan ==
  /\ HandlerFree /\ runScan # "none"
  /\ stopScan' = TRUE /\ waitsFor' = "next"
  /\ UNCHANGED <<scanLink, runScan, threadVars>>

ReplacementStarts(address, prefix) ==
  /\ waitsFor = "next" /\ runScan = "ended"
  /\ Launch(address, prefix)

CancelScan ==
  /\ HandlerFree /\ runScan # "none"
  /\ stopScan' = TRUE
  /\ UNCHANGED <<scanLink, waitsFor, runScan, threadVars>>

LoseScanner ==
  /\ scanLink = "open"
  /\ scanLink' = "closing"
  /\ UNCHANGED <<waitsFor, runScan, stopScan, threadVars>>

\* The stop is requested, and the destructor of the context joins.
CloseScanner ==
  /\ scanLink = "closing" /\ waitsFor = "nothing"
  /\ stopScan' = TRUE /\ waitsFor' = "end"
  /\ UNCHANGED <<scanLink, runScan, threadVars>>

ScannerGone ==
  /\ waitsFor = "end" /\ runScan \in {"none", "ended"}
  /\ scanLink' = "gone" /\ waitsFor' = "nothing"
  /\ UNCHANGED <<runScan, stopScan, threadVars>>

-----------------------------------------------------------------------------
(* The workers of RunScan.                                                 *)
Moves(w, to) == prober' = [prober EXCEPT ![w] = to]

FetchAddress(w) ==
  /\ prober[w].at = "idle" /\ ~stopScan
  /\ cursor' = cursor + 1
  /\ Moves(w, IF cursor >= addresses.count THEN Resting
              ELSE [Resting EXCEPT !.at = "probing", !.host = addresses.first + cursor])
  /\ UNCHANGED <<scanLink, waitsFor, runScan, stopScan, addresses, pings, listening, scanned,
                 reachable, results, verdict>>

SeeStopScan(w) ==
  /\ prober[w].at = "idle" /\ stopScan
  /\ Moves(w, Resting)
  /\ UNCHANGED <<scanLink, waitsFor, runScan, stopScan, addresses, pings, listening, cursor,
                 scanned, reachable, results, verdict>>

\* What Ping and ProbePort find out: nothing, it may be, once a stop is requested.
UnlessStopped(answer) == {answer} \cup (IF stopScan THEN {FALSE} ELSE {})
Ping(host) == UnlessStopped(host \in pings)
ProbePort(host) == UnlessStopped(host \in listening)

Probe(w) ==
  /\ prober[w].at = "probing"
  /\ \E ping \in Ping(prober[w].host), open \in ProbePort(prober[w].host) :
       /\ Moves(w, [prober[w] EXCEPT !.at = "counting", !.online = ping \/ open])
       /\ reachable' = reachable + (IF ping \/ open THEN 1 ELSE 0)
  /\ UNCHANGED <<scanLink, waitsFor, runScan, stopScan, addresses, pings, listening, cursor,
                 scanned, results, verdict>>

CountHost(w) ==
  /\ prober[w].at = "counting"
  /\ scanned' = scanned + 1
  /\ Moves(w, [prober[w] EXCEPT !.at = "sending"])
  /\ UNCHANGED <<scanLink, waitsFor, runScan, stopScan, addresses, pings, listening, cursor,
                 reachable, results, verdict>>

SendResult(w) ==
  /\ prober[w].at = "sending"
  /\ results' = IF scanLink = "open"
                THEN results \cup {[host |-> prober[w].host, online |-> prober[w].online]}
                ELSE results
  /\ Moves(w, [Resting EXCEPT !.at = "idle"])
  /\ UNCHANGED <<scanLink, waitsFor, runScan, stopScan, addresses, pings, listening, cursor,
                 scanned, reachable, verdict>>

\* The workers have been joined; the last message says what came of it.
AllDone == \A w \in Probers : prober[w].at = "done"
\* Mutant: the last message is sent before the workers are joined.
NoJoin == TRUE
WorkersJoined == AllDone

ReportVerdict ==
  /\ runScan = "running" /\ WorkersJoined
  /\ verdict' = IF stopScan THEN "cancelled" ELSE "complete"
  /\ runScan' = "ended"
  /\ UNCHANGED <<scanLink, waitsFor, stopScan, addresses, pings, listening, cursor, prober,
                 scanned, reachable, results>>

NetworkNext ==
  \/ \E address \in Addresses, prefix \in 0 .. Width :
       StartScan(address, prefix) \/ ReplacementStarts(address, prefix)
  \/ ReplaceScan \/ CancelScan \/ LoseScanner \/ CloseScanner \/ ScannerGone
  \/ \E w \in Probers : FetchAddress(w) \/ SeeStopScan(w) \/ Probe(w) \/ CountHost(w)
                        \/ SendResult(w)
  \/ ReportVerdict

NetworkSpec == NetworkInit /\ [][NetworkNext]_scanNetVars

-----------------------------------------------------------------------------
NetworkTypeOK ==
  /\ scanLink \in {"open", "closing", "gone"}
  /\ waitsFor \in {"nothing", "next", "end"}
  /\ runScan \in {"none", "running", "ended"} /\ stopScan \in BOOLEAN
  /\ HostsOf(addresses) \subseteq Addresses
  /\ {pings, listening} \subseteq SUBSET HostsOf(addresses)
  /\ cursor \in 0 .. addresses.count + Cardinality(Probers)
  /\ {scanned, reachable} \subseteq 0 .. addresses.count
  /\ verdict \in {"none", "complete", "cancelled"}

\* When a browser is told that its scan is complete it has the result of
\* every host of the network, once and true, and the totals are right: no
\* address outside the network, none twice, none found dead by a late stop.
CompleteIsComplete ==
  (verdict = "complete" /\ scanLink = "open") =>
    /\ results = {[host |-> h, online |-> h \in pings \cup listening] : h \in HostsOf(addresses)}
    /\ scanned = addresses.count
    /\ reachable = Cardinality(pings \cup listening)
=============================================================================
