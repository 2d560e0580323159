---------------------------- MODULE DeltaTransfer ----------------------------
(***************************************************************************)
(* Files sent to the transfer server (Client::Send and HandleFile in       *)
(* transfer/transfer.cpp).  The client announces a file with the hashes of *)
(* its blocks; the server copies the blocks it can find in its own files   *)
(* to a temporary file, asks for the others, verifies the whole and        *)
(* renames it to the destination.                                          *)
(*                                                                         *)
(* All clients send a file of the same name.  A file is a function from    *)
(* block numbers to block contents, and the hash of something is the thing *)
(* itself.  Client and server answer each other in turn, so a connection   *)
(* carries at most one message.                                            *)
(***************************************************************************)
EXTENDS Integers, FiniteSets

CONSTANTS
  Clients,     \* connections, each sending one file
  BlockCount,  \* blocks of a file
  Contents,    \* what a block may hold
  Zeros,       \* the content of a block of the temporary file not yet written
  Threshold,   \* same_name_match_threshold, in per cent
  MaxEdits     \* bound: changes of a client's file while it is sent

Numbers == 1 .. BlockCount
Files == [Numbers -> Contents]
NoFile == [i \in {} |-> Zeros]

VARIABLES
  overwrite,    \* ServerConfig::overwrite
  destination,  \* the file of that name, or NoFile
  basis,        \* another file in the basis roots, or NoFile
  source,       \* the client's file
  edits,
  client,       \* where Client::Send is
  signatures,   \* what the client found the blocks to be
  fullHash,     \* what it found the whole to be
  missing,      \* the blocks it has still to send
  wire,         \* the message under way, or "closed"
  worker,       \* where HandleFile is
  temporary,    \* the .part file, or NoFile
  matched,      \* the blocks it has
  destinationLock  \* the client whose worker has the destination's mutex

deltaVars == <<overwrite, destination, basis, source, edits, client, signatures, fullHash,
               missing, wire, worker, temporary, matched, destinationLock>>
clientVars == <<client, signatures, fullHash, missing>>
workerVars == <<worker, temporary, matched, destinationLock>>
fileVars == <<overwrite, basis, source, edits>>

Nothing == "nothing"
Silence == [type |-> "none"]
Closed == [type |-> "closed"]

ASSUME DeltaAssumption == Nothing \notin Clients /\ {BlockCount, MaxEdits} \subseteq Nat

DeltaInit ==
  /\ overwrite \in BOOLEAN
  /\ destination \in Files \cup {NoFile}
  /\ basis \in Files \cup {NoFile}
  /\ source \in [Clients -> Files]
  /\ edits = 0
  /\ client = [c \in Clients |-> "new"]
  /\ signatures = [c \in Clients |-> NoFile]
  /\ fullHash = [c \in Clients |-> NoFile]
  /\ missing = [c \in Clients |-> {}]
  /\ wire = [c \in Clients |-> Silence]
  /\ worker = [c \in Clients |-> "waiting"]
  /\ temporary = [c \in Clients |-> NoFile]
  /\ matched = [c \in Clients |-> {}]
  /\ destinationLock = Nothing

Says(c, m) == wire' = [wire EXCEPT ![c] = IF @ = Closed THEN Closed ELSE m]
Message(c, type) == wire[c].type = type

-----------------------------------------------------------------------------
(* Client::Send, for one file.                                             *)

\* BuildSignatures reads the file, and Sha256File reads it once more.
BuildSignatures(c) ==
  /\ client[c] = "new"
  /\ signatures' = [signatures EXCEPT ![c] = source[c]]
  /\ client' = [client EXCEPT ![c] = "signed"]
  /\ UNCHANGED <<destination, fileVars, fullHash, missing, wire, workerVars>>

StartFile(c) ==
  /\ client[c] = "signed"
  /\ fullHash' = [fullHash EXCEPT ![c] = source[c]]
  /\ client' = [client EXCEPT ![c] = "asking"]
  /\ Says(c, [type |-> "startFile"])
  /\ UNCHANGED <<destination, fileVars, signatures, missing, workerVars>>

\* The plan names the missing blocks in ascending order.  They go out as
\* chunks, or as one compressed stream if the client is told to and any are
\* missing.
TakePlan(c) ==
  /\ client[c] = "asking" /\ Message(c, "plan")
  /\ missing' = [missing EXCEPT ![c] = wire[c].missing]
  /\ \E way \in {"sending"} \cup {"streaming" : i \in wire[c].missing} :
       client' = [client EXCEPT ![c] = way]
  /\ Says(c, Silence)
  /\ UNCHANGED <<destination, fileVars, signatures, fullHash, workerVars>>

FirstMissing(c, n) ==
  CHOOSE S \in SUBSET missing[c] :
    /\ Cardinality(S) = n
    /\ \A i \in S, k \in missing[c] \ S : i < k

Sends(c, type, blocks) ==
  /\ wire[c] = Silence
  /\ wire' = [wire EXCEPT ![c] = [type |-> type, data |-> [i \in blocks |-> source[c][i]]]]
  /\ missing' = [missing EXCEPT ![c] = @ \ blocks]

\* A chunk is one block, read when it is sent.
SendChunk(c) ==
  /\ client[c] = "sending" /\ missing[c] # {}
  /\ Sends(c, "chunk", FirstMissing(c, 1))
  /\ UNCHANGED <<destination, fileVars, client, signatures, fullHash, workerVars>>

\* A frame of the compressed stream brings any number of blocks to an end.
SendFrame(c, n) ==
  /\ client[c] = "streaming"
  /\ Sends(c, "frame", FirstMissing(c, n))
  /\ UNCHANGED <<destination, fileVars, client, signatures, fullHash, workerVars>>

EndStream(c) ==
  /\ client[c] = "streaming" /\ missing[c] = {}
  /\ Sends(c, "streamEnd", {})
  /\ client' = [client EXCEPT ![c] = "sending"]
  /\ UNCHANGED <<destination, fileVars, signatures, fullHash, workerVars>>

TakeAck(c) ==
  /\ client[c] \in {"sending", "streaming"} /\ Message(c, "ack")
  /\ Says(c, Silence)
  /\ UNCHANGED <<destination, fileVars, clientVars, workerVars>>

Commit(c) ==
  /\ client[c] = "sending" /\ wire[c] = Silence /\ missing[c] = {}
  /\ client' = [client EXCEPT ![c] = "verifying"]
  /\ Says(c, [type |-> "commit"])
  /\ UNCHANGED <<destination, fileVars, signatures, fullHash, missing, workerVars>>

TakeResult(c) ==
  /\ client[c] = "verifying" /\ Message(c, "committed")
  /\ client' = [client EXCEPT ![c] = "completed"]
  /\ Says(c, Silence)
  /\ UNCHANGED <<destination, fileVars, signatures, fullHash, missing, workerVars>>

\* An error of the server, or a connection that is no more.
FailTransfer(c) ==
  /\ client[c] \in {"asking", "sending", "streaming", "verifying"}
  /\ Message(c, "error") \/ wire[c] = Closed
  /\ client' = [client EXCEPT ![c] = "failed"]
  /\ wire' = [wire EXCEPT ![c] = Closed]
  /\ missing' = [missing EXCEPT ![c] = {}]
  /\ UNCHANGED <<destination, fileVars, signatures, fullHash, workerVars>>

-----------------------------------------------------------------------------
(* HandleFile.                                                             *)

\* Mutant: the mutex is one of the connection.
NobodyElse == TRUE
DestinationFree == destinationLock = Nothing

\* The end of HandleFile: TemporaryFileGuard and unique_lock.
Leave(c, answer) ==
  /\ worker' = [worker EXCEPT ![c] = "left"]
  /\ temporary' = [temporary EXCEPT ![c] = NoFile]
  /\ destinationLock' = IF destinationLock = c THEN Nothing ELSE destinationLock
  /\ Says(c, answer)
  /\ matched' = [matched EXCEPT ![c] = {}]

\* The mutex of the destination is held to the end.  An existing file is
\* refused unless overwriting is allowed; else the temporary file is made.
LockDestination(c) ==
  /\ worker[c] = "waiting" /\ Message(c, "startFile")
  /\ DestinationFree
  /\ IF ~overwrite /\ destination # NoFile
       THEN Leave(c, [type |-> "error"])
       ELSE /\ destinationLock' = c
            /\ temporary' = [temporary EXCEPT ![c] = [i \in Numbers |-> Zeros]]
            /\ worker' = [worker EXCEPT ![c] = "scanning"]
            /\ UNCHANGED <<matched, wire>>
  /\ UNCHANGED <<destination, fileVars, clientVars>>

\* The blocks of c found in a file.
FoundIn(c, file) ==
  {i \in Numbers : \E k \in DOMAIN file : file[k] = signatures[c][i]}

\* The destination itself comes first, then what else the basis roots hold.
CandidateFiles == [sameName |-> destination, other |-> basis]

\* Files of the same name are scanned first, the others only when these gave
\* too little.
Scan(c) ==
  LET sameName == FoundIn(c, CandidateFiles.sameName)
      enough == 100 * Cardinality(sameName) > Threshold * BlockCount
      found == IF enough THEN sameName ELSE sameName \cup FoundIn(c, CandidateFiles.other)
  IN
  /\ worker[c] = "scanning"
  /\ matched' = [matched EXCEPT ![c] = found]
  /\ temporary' = [temporary EXCEPT ![c] =
       [i \in Numbers |-> IF i \in found THEN signatures[c][i] ELSE Zeros]]
  /\ worker' = [worker EXCEPT ![c] = "receiving"]
  /\ Says(c, [type |-> "plan", missing |-> Numbers \ found,
              matchedBytes |-> Cardinality(found)])
  /\ UNCHANGED <<destination, fileVars, clientVars, destinationLock>>

\* What arrived is written, or ends the transfer if it is not right.
TakeData(c, good) ==
  LET data == wire[c].data IN
  /\ IF ~good THEN Leave(c, [type |-> "error"])
     ELSE /\ temporary' = [temporary EXCEPT ![c] =
               [i \in Numbers |-> IF i \in DOMAIN data THEN data[i] ELSE @[i]]]
          /\ matched' = [matched EXCEPT ![c] = @ \cup DOMAIN data]
          /\ Says(c, [type |-> "ack"])
          /\ UNCHANGED <<worker, destinationLock>>
  /\ UNCHANGED <<destination, fileVars, clientVars>>

Announced(c) == \A i \in DOMAIN wire[c].data : wire[c].data[i] = signatures[c][i]

\* A chunk must be missing and be what was announced.
ReceiveChunk(c) ==
  /\ worker[c] = "receiving" /\ Message(c, "chunk")
  /\ TakeData(c, Announced(c) /\ matched[c] \cap DOMAIN wire[c].data = {})

\* The stream fills the missing blocks one after the other, and each is
\* verified where it ends.
ReceiveFrame(c) ==
  /\ worker[c] = "receiving" /\ Message(c, "frame")
  /\ TakeData(c, Announced(c))

ReceiveStreamEnd(c) ==
  /\ worker[c] = "receiving" /\ Message(c, "streamEnd")
  /\ TakeData(c, matched[c] = Numbers)

\* Mutant: the blocks were verified, so the whole must be right.
AllBlocksThere(c) == matched[c] = Numbers
\* The whole file has the hash that was announced.
Verified(c) == temporary[c] = fullHash[c]

ReceiveCommit(c) ==
  /\ worker[c] = "receiving" /\ Message(c, "commit")
  /\ IF matched[c] # Numbers \/ ~Verified(c)
       THEN Leave(c, [type |-> "error"])
       ELSE /\ worker' = [worker EXCEPT ![c] = "renaming"]
            /\ UNCHANGED <<temporary, matched, destinationLock, wire>>
  /\ UNCHANGED <<destination, fileVars, clientVars>>

Rename(c) ==
  /\ worker[c] = "renaming"
  /\ destination' = temporary[c]
  /\ Leave(c, [type |-> "committed"])
  /\ UNCHANGED <<fileVars, clientVars>>

\* Reading from the connection or writing to it fails.
AbandonTransfer(c) ==
  /\ worker[c] \in {"scanning", "receiving"} /\ wire[c] = Closed
  /\ Leave(c, Closed)
  /\ UNCHANGED <<destination, fileVars, clientVars>>

-----------------------------------------------------------------------------
(* The rest of the world.                                                  *)

\* Somebody changes the client's file while it is being sent; nobody looks
\* at later changes.
EditSource(c) ==
  /\ edits < MaxEdits /\ client[c] \in {"new", "signed", "asking", "sending", "streaming"}
  /\ edits' = edits + 1
  /\ \E f \in Files : source' = [source EXCEPT ![c] = f]
  /\ UNCHANGED <<overwrite, basis, destination, clientVars, wire, workerVars>>

\* A client that has its answer closes the connection, and nothing follows.
BreakConnection(c) ==
  /\ wire[c] # Closed /\ client[c] # "completed"
  /\ wire' = [wire EXCEPT ![c] = Closed]
  /\ UNCHANGED <<destination, fileVars, clientVars, workerVars>>

DeltaNext ==
  \E c \in Clients :
    \/ BuildSignatures(c) \/ StartFile(c) \/ TakePlan(c) \/ TakeAck(c)
    \/ SendChunk(c) \/ EndStream(c)
    \/ \E n \in 0 .. Cardinality(missing[c]) : SendFrame(c, n)
    \/ Commit(c) \/ TakeResult(c) \/ FailTransfer(c)
    \/ LockDestination(c) \/ Scan(c) \/ ReceiveChunk(c) \/ ReceiveFrame(c)
    \/ ReceiveStreamEnd(c) \/ ReceiveCommit(c)
    \/ Rename(c) \/ AbandonTransfer(c)
    \/ EditSource(c) \/ BreakConnection(c)

DeltaSpec == DeltaInit /\ [][DeltaNext]_deltaVars

-----------------------------------------------------------------------------
Temporaries == [Numbers -> Contents \cup {Zeros}] \cup {NoFile}

DeltaTypeOK ==
  /\ overwrite \in BOOLEAN
  /\ destination \in Files \cup {NoFile} /\ basis \in Files \cup {NoFile}
  /\ source \in [Clients -> Files]
  /\ client \in [Clients -> {"new", "signed", "asking", "sending", "streaming",
                             "verifying", "completed", "failed"}]
  /\ worker \in [Clients -> {"waiting", "scanning", "receiving", "renaming", "left"}]
  /\ \A c \in Clients : {signatures[c], fullHash[c]} \subseteq Files \cup {NoFile}
  /\ missing \in [Clients -> SUBSET Numbers] /\ matched \in [Clients -> SUBSET Numbers]
  /\ temporary \in [Clients -> Temporaries]
  /\ destinationLock \in Clients \cup {Nothing}
  /\ edits \in 0 .. MaxEdits

\* The destination only ever becomes a file that its client has hashed as a
\* whole, even if the file changed between the reading of its blocks, of the
\* whole and of the data that were sent.
DestinationIsWhole ==
  [][destination' # destination => \E c \in Clients : destination' = fullHash[c]]_deltaVars

\* Without permission to overwrite, a file that is there stays, whoever else
\* is sending one of that name.
ExistingFileStays ==
  [][(~overwrite /\ destination # NoFile) => destination' = destination]_deltaVars

\* What nobody who reads the destination can see go wrong, together.
DestinationIsSafe == DestinationIsWhole /\ ExistingFileStays
=============================================================================
