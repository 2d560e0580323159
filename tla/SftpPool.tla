-------------------------------- MODULE SftpPool --------------------------------
(***************************************************************************)
(* The file operations over SFTP that share a connection per host          *)
(* (SftpService::ConnectionPool and its callers in ssh/sftp_service.cpp).  *)
(* One host is enough: entries meet only in the table that holds them.     *)
(*                                                                         *)
(* What a connection depends on is kept in the store in parts (the host,   *)
(* its credential, the jump host, its credential), each read by a call of  *)
(* its own.  ConfigurationRevision is a digest of what these calls return: *)
(* two revisions are equal when the settings are, and settings that are    *)
(* saved back bring the old revision back.  OpenConnection reads the parts *)
(* once more.  Which host is the jump host does not change.                *)
(***************************************************************************)
EXTENDS Integers, Sequences

CONSTANTS
  Requests,   \* HTTP requests, each in a thread
  PartCount,  \* parts of the settings of a host
  Settings    \* what a part may be

VARIABLES
  inStore,    \* the settings in the store
  entryLock,  \* Entry::mutex: the request that has it
  pooled,     \* the pooled connection and Entry::configuration_revision
  revision,   \* the revision the holder of the lock has computed so far
  opened,     \* the parts that OpenConnection has read so far
  crossed,    \* history: parts saved between these two reads of them
  named,      \* the name that a renaming moves is there
  request     \* the requests

poolVars == <<inStore, entryLock, pooled, revision, opened, crossed, named, request>>

NoRequest == "none"

ASSUME PoolAssumption == NoRequest \notin Requests /\ PartCount \in Nat \ {0}

Parts == 1 .. PartCount

\* A connection leads to some settings, has a revision for its label, and
\* remembers (as history) which parts were saved while it was opened.
NoConnection == [to |-> <<>>, label |-> <<>>, overtaken |-> {}]

NothingSeen == [p \in Parts |-> {}]

PoolInit ==
  /\ inStore \in [Parts -> Settings]
  /\ entryLock = NoRequest /\ pooled = NoConnection
  /\ revision = <<>> /\ opened = <<>> /\ crossed = {}
  /\ named = TRUE
  /\ request = [r \in Requests |->
       [at |-> "new", kind |-> "list", attempt |-> 0, reused |-> FALSE,
        carriedOut |-> 0, remade |-> FALSE, seen |-> NothingSeen]]

At(r) == request[r].at

\* From being asked to being answered.
Active(r) == At(r) \in {"waiting", "revising", "ready", "operating", "again"}

-----------------------------------------------------------------------------
\* List, CreateDirectory and Remove, and Rename; seen is history: what the
\* store has held since the request was made.
Ask(r, kind) ==
  /\ At(r) = "new"
  /\ request' = [request EXCEPT ![r].at = "waiting", ![r].kind = kind,
                                ![r].seen = [p \in Parts |-> {inStore[p]}]]
  /\ UNCHANGED <<inStore, entryLock, pooled, revision, opened, crossed, named>>

LockEntry(r) ==
  /\ At(r) = "waiting" /\ entryLock = NoRequest
  /\ entryLock' = r
  /\ request' = [request EXCEPT ![r].at = "revising"]
  /\ UNCHANGED <<inStore, pooled, revision, opened, crossed, named>>

\* ConfigurationRevision asks the store for one part after the other.
ReadRevision(r) ==
  /\ At(r) = "revising" /\ Len(revision) < PartCount
  /\ revision' = Append(revision, inStore[Len(revision) + 1])
  /\ UNCHANGED <<inStore, entryLock, pooled, opened, crossed, named, request>>

\* A connection for other settings is dropped, and so is one that nobody has
\* used for three minutes.
CheckRevision(r) ==
  /\ At(r) = "revising" /\ Len(revision) = PartCount
  /\ request' = [request EXCEPT ![r].at = "ready"]
  /\ \/ pooled.label = revision /\ UNCHANGED pooled
     \/ pooled' = NoConnection
  /\ UNCHANGED <<inStore, entryLock, revision, opened, crossed, named>>

UseConnection(r) ==
  /\ At(r) = "ready" /\ pooled # NoConnection
  /\ request' = [request EXCEPT ![r].at = "operating", ![r].reused = TRUE]
  /\ UNCHANGED <<inStore, entryLock, pooled, revision, opened, crossed, named>>

\* OpenConnection asks the store again.
ReadForOpening(r) ==
  /\ At(r) = "ready" /\ pooled = NoConnection /\ Len(opened) < PartCount
  /\ opened' = Append(opened, inStore[Len(opened) + 1])
  /\ UNCHANGED <<inStore, entryLock, pooled, revision, crossed, named, request>>

\* Mutant: the connection is labelled with the revision of the moment.
LabelAfterwards == inStore
Label == revision

OpenConnection(r) ==
  /\ At(r) = "ready" /\ pooled = NoConnection /\ Len(opened) = PartCount
  /\ pooled' = [to |-> opened, label |-> Label, overtaken |-> crossed]
  /\ request' = [request EXCEPT ![r].at = "operating", ![r].reused = FALSE]
  /\ UNCHANGED <<inStore, entryLock, revision, opened, crossed, named>>

\* The request is over, and with it what it had in hand.
Finish(r, result, times) ==
  /\ entryLock' = NoRequest
  /\ revision' = <<>> /\ opened' = <<>> /\ crossed' = {}
  /\ request' = [request EXCEPT ![r].at = result, ![r].carriedOut = @ + times,
                                ![r].reused = FALSE, ![r].seen = NothingSeen]
  /\ UNCHANGED inStore

\* The host is not there while its revision is computed, or there is no
\* connection: it is not there, refuses, or is not who it was.
OpenFails(r) ==
  /\ \/ At(r) = "revising"
     \/ At(r) = "ready" /\ pooled = NoConnection
  /\ Finish(r, "failed", 0)
  /\ UNCHANGED <<pooled, named>>

\* Whether the remote end carries a call out: a name can be moved only when
\* it is there.
CarriesOut(r, done) ==
  /\ done /\ request[r].kind = "rename" => named
  /\ named' = (named /\ ~(done /\ request[r].kind = "rename"))

Times(done) == IF done THEN 1 ELSE 0

\* The remote end does what is asked and says so.
Operate(r) ==
  /\ At(r) \in {"operating", "again"}
  /\ CarriesOut(r, TRUE)
  /\ Finish(r, "done", 1)
  /\ UNCHANGED pooled

\* Rename calls once more, without ATOMIC, whatever its first call failed of;
\* that call may have been carried out and its answer lost.
RenameAgain(r, done) ==
  /\ At(r) = "operating" /\ request[r].kind = "rename"
  /\ CarriesOut(r, done)
  /\ request' = [request EXCEPT ![r].at = "again", ![r].carriedOut = @ + Times(done)]
  /\ UNCHANGED <<inStore, entryLock, pooled, revision, opened, crossed>>

\* Mutant: whatever failed on a connection that was reused is repeated.
RetryAll(r) == request[r].reused /\ request[r].attempt = 0
MayRetry(r) == request[r].kind = "list" /\ request[r].reused /\ request[r].attempt = 0

\* It fails, or the answer is lost after it was carried out: the connection
\* is dropped, and a listing may have a second try on a new one.
OperationFails(r, done) ==
  /\ At(r) = (IF request[r].kind = "rename" THEN "again" ELSE "operating")
  /\ CarriesOut(r, done)
  /\ pooled' = NoConnection
  /\ IF MayRetry(r)
       THEN /\ request' = [request EXCEPT ![r].at = "ready", ![r].attempt = 1,
                                          ![r].carriedOut = @ + Times(done)]
            /\ UNCHANGED <<inStore, entryLock, revision, opened, crossed>>
       ELSE Finish(r, "failed", Times(done))

\* Somebody else gives a file the name that was moved away.
MakeAgain ==
  /\ ~named
  /\ named' = TRUE
  /\ request' = [q \in Requests |->
       [request[q] EXCEPT !.remade = @ \/ At(q) = "again"]]
  /\ UNCHANGED <<inStore, entryLock, pooled, revision, opened, crossed>>

\* Parts that were read for the revision and will be read for the connection.
BetweenReads == {p \in Parts : Len(opened) < p /\ p <= Len(revision)}

\* Somebody saves the host, its credential or its jump host.
SaveHost(new) ==
  /\ new # inStore
  /\ inStore' = new
  /\ crossed' = crossed \cup {p \in BetweenReads : new[p] # inStore[p]}
  /\ request' = [q \in Requests |->
       IF Active(q)
         THEN [request[q] EXCEPT !.seen = [p \in Parts |-> @[p] \cup {new[p]}]]
         ELSE request[q]]
  /\ UNCHANGED <<entryLock, pooled, revision, opened, named>>

PoolNext ==
  \/ \E new \in [Parts -> Settings] : SaveHost(new)
  \/ MakeAgain
  \/ \E r \in Requests :
       \/ \E kind \in {"list", "change", "rename"} : Ask(r, kind)
       \/ LockEntry(r) \/ ReadRevision(r) \/ CheckRevision(r) \/ UseConnection(r)
       \/ ReadForOpening(r) \/ OpenConnection(r) \/ OpenFails(r) \/ Operate(r)
       \/ \E done \in BOOLEAN : RenameAgain(r, done) \/ OperationFails(r, done)

PoolSpec == PoolInit /\ [][PoolNext]_poolVars

-----------------------------------------------------------------------------
PoolTypeOK ==
  /\ inStore \in [Parts -> Settings]
  /\ entryLock \in Requests \cup {NoRequest}
  /\ Len(revision) <= PartCount /\ Len(opened) <= PartCount
  /\ crossed \subseteq Parts /\ pooled.overtaken \subseteq Parts
  /\ named \in BOOLEAN
  /\ \A r \in Requests : Active(r) \/ At(r) \in {"new", "done", "failed"}

\* Making a directory or removing something is never carried out twice for one
\* request, even when its answer is lost.  A renaming calls twice, but is not
\* carried out twice either, unless somebody has made the old name again
\* between the two calls.
ChangesAtMostOnce ==
  \A r \in Requests :
    /\ request[r].kind = "change" => request[r].carriedOut <= 1
    /\ request[r].kind = "rename" =>
         request[r].carriedOut <= (IF request[r].remade THEN 2 ELSE 1)

\* An operation runs on a connection to settings that the store has held since
\* its request was made, whoever opened the connection and whatever was saved
\* meanwhile.  The digest leaves one way out: a part that was saved just while
\* the connection was opened, between the two reads of it, and saved back
\* since, so that the store has held the label, and not the settings.
UsesSavedHost ==
  \A r \in Requests : At(r) \in {"operating", "again"} =>
    \A p \in Parts :
      /\ pooled.label[p] \in request[r].seen[p]
      /\ pooled.to[p] \in request[r].seen[p] \/ p \in pooled.overtaken

\* What a request can count on from the shared connection, together.
PoolIsSafe == ChangesAtMostOnce /\ UsesSavedHost
=============================================================================
