---------------------------- MODULE SftpUploads ----------------------------
(***************************************************************************)
(* Uploads over SFTP: the browser sends a file in chunks, one HTTP request *)
(* after the other (SftpPanel.vue, api.ts); StartUploadChunk queues each   *)
(* chunk for the upload's worker, a thread with an SSH connection of its   *)
(* own, which writes the chunk and then answers the request                *)
(* (ssh/sftp_service.cpp).                                                 *)
(*                                                                         *)
(* All uploads go to one host: the code counts them host by host.  A file  *)
(* has FileChunks chunks, and a chunk is known by its number, which stands *)
(* for its offset.  A request may reach the server twice.                  *)
(***************************************************************************)
EXTENDS Naturals, Sequences, FiniteSets

CONSTANTS
  Uploads,       \* files of one tab, each with an uploadId of its own
  FileChunks,    \* chunks of a file
  Parallel,      \* maximumConcurrentUploads of the tab
  HostLimit,     \* kMaximumConcurrentUploadsPerHost
  MaxDuplicates  \* bound: requests that reach the server a second time

ASSUME ConstantsAssumption ==
  /\ {FileChunks, Parallel, HostLimit} \subseteq Nat \ {0}
  /\ MaxDuplicates \in Nat

Chunks == 0 .. FileChunks - 1
Calls == [upload : Uploads, chunk : Chunks, copy : {"first", "second"}]

VARIABLES
  status,  \* the tab's state of a file
  asked,   \* the chunk whose answer the tab waits for
  stage,   \* where the request of a chunk is, or its answer
  holds,   \* the worker a request has found, as an index of pool
  table,   \* uploads_: the worker of an upload, 0 for none
  pool,    \* the UploadWorker objects made so far
  remote   \* the chunks the remote file has

vars == <<status, asked, stage, holds, table, pool, remote>>
tabVars == <<status, asked>>

Call(u, k) == [upload |-> u, chunk |-> k, copy |-> "first"]

Init ==
  /\ status = [u \in Uploads |-> "queued"]
  /\ asked = [u \in Uploads |-> 0]
  /\ stage = [c \in Calls |-> "none"]
  /\ holds = [c \in Calls |-> 0]
  /\ table = [u \in Uploads |-> 0]
  /\ pool = <<>>
  /\ remote = [u \in Uploads |-> {}]

-----------------------------------------------------------------------------
(* The tab.                                                                *)

\* uploadSelectedFiles keeps Parallel files under way.
StartFile(u) ==
  /\ status[u] = "queued"
  /\ Cardinality({v \in Uploads : status[v] = "uploading"}) < Parallel
  /\ status' = [status EXCEPT ![u] = "uploading"]
  /\ stage' = [stage EXCEPT ![Call(u, 0)] = "sent"]
  /\ UNCHANGED <<asked, holds, table, pool, remote>>

\* uploadSftpFile goes on with the next chunk when the last one is answered.
NextChunk(u) ==
  /\ status[u] = "uploading"
  /\ stage[Call(u, asked[u])] = "ok"
  /\ IF asked[u] + 1 = FileChunks
       THEN /\ status' = [status EXCEPT ![u] = "success"]
            /\ UNCHANGED <<asked, stage>>
       ELSE /\ asked' = [asked EXCEPT ![u] = @ + 1]
            /\ stage' = [stage EXCEPT ![Call(u, asked[u] + 1)] = "sent"]
            /\ UNCHANGED status
  /\ UNCHANGED <<holds, table, pool, remote>>

\* An error answer, or none for five minutes.
GiveUp(u) ==
  /\ status[u] = "uploading"
  /\ stage[Call(u, asked[u])] # "ok"
  /\ status' = [status EXCEPT ![u] = "error"]
  /\ UNCHANGED <<asked, stage, holds, table, pool, remote>>

\* The network layer repeats a request; nobody reads the second answer.
Duplicate(u) ==
  LET again == [Call(u, asked[u]) EXCEPT !.copy = "second"]
  IN  /\ stage[Call(u, asked[u])] # "none"
      /\ stage[again] = "none"
      /\ Cardinality({c \in Calls : c.copy = "second" /\ stage[c] # "none"})
           < MaxDuplicates
      /\ stage' = [stage EXCEPT ![again] = "sent"]
      /\ UNCHANGED <<tabVars, holds, table, pool, remote>>

-----------------------------------------------------------------------------
(* StartUploadChunk, one critical section after the other.                 *)

Finished(w) == pool[w].state = "finished"

\* The entries that stay when those of finished workers are erased.
StillThere(u) == IF table[u] # 0 /\ Finished(table[u]) THEN 0 ELSE table[u]

Active == {u \in Uploads : StillThere(u) # 0}

\* Mutant: one worker too many.
OneMayBeAdded == Cardinality(Active) <= HostLimit

\* The limit counts the workers that have not finished.
MayCreate == Cardinality(Active) < HostLimit

NewWorker(u) ==
  [upload |-> u, next |-> 0, chunks |-> <<>>, state |-> "unstarted"]

\* With uploads_mutex_: the worker of the upload is found, or made for the
\* first chunk.
Find(c) ==
  LET u == c.upload
      kept == [v \in Uploads |-> StillThere(v)]
  IN
  /\ stage[c] = "sent"
  /\ \/ /\ kept[u] # 0
        /\ stage' = [stage EXCEPT ![c] = "finds"]
        /\ holds' = [holds EXCEPT ![c] = kept[u]]
        /\ table' = kept
        /\ UNCHANGED pool
     \/ /\ kept[u] = 0
        /\ c.chunk # 0
        /\ stage' = [stage EXCEPT ![c] = "error"]
        /\ table' = kept
        /\ UNCHANGED <<holds, pool>>
     \/ /\ kept[u] = 0
        /\ c.chunk = 0
        /\ ~MayCreate
        /\ stage' = [stage EXCEPT ![c] = "refused"]
        /\ table' = kept
        /\ UNCHANGED <<holds, pool>>
     \/ /\ kept[u] = 0
        /\ c.chunk = 0
        /\ MayCreate
        /\ pool' = Append(pool, NewWorker(u))
        /\ stage' = [stage EXCEPT ![c] = "founds"]
        /\ holds' = [holds EXCEPT ![c] = Len(pool) + 1]
        /\ table' = [kept EXCEPT ![u] = Len(pool) + 1]
  /\ UNCHANGED <<tabVars, remote>>

\* Mutant: the order is not checked.
AnyOrder(c) == TRUE

\* Chunks are taken in the order of the file only.
InSequence(c) == c.chunk = pool[holds[c]].next

\* With the worker's mutex: the chunk is queued, or the call throws.
Enqueue(c) ==
  LET w == holds[c] IN
  /\ stage[c] \in {"finds", "founds"}
  /\ IF ~Finished(w) /\ InSequence(c)
       THEN /\ pool' = [pool EXCEPT ![w].next = @ + 1,
                                    ![w].chunks = Append(@, c)]
            /\ stage' = [stage EXCEPT ![c] =
                           IF @ = "founds" THEN "starts" ELSE "queued"]
       ELSE /\ stage' = [stage EXCEPT ![c] = "error"]
            /\ UNCHANGED pool
  /\ UNCHANGED <<tabVars, holds, table, remote>>

\* The request that made the worker starts its thread.
StartThread(c) ==
  /\ stage[c] = "starts"
  /\ stage' = [stage EXCEPT ![c] = "queued"]
  /\ pool' = [pool EXCEPT ![holds[c]].state = "opening"]
  /\ UNCHANGED <<tabVars, holds, table, remote>>

-----------------------------------------------------------------------------
(* The worker thread.                                                      *)

Goes(w, state) == pool' = [pool EXCEPT ![w].state = state]

\* The connection is made and the remote file truncated.
OpenFile(w) ==
  /\ pool[w].state = "opening"
  /\ Goes(w, "waiting")
  /\ remote' = [remote EXCEPT ![pool[w].upload] = {}]
  /\ UNCHANGED <<tabVars, stage, holds, table>>

\* Mutant: the wait has no timeout.
WaitsForEver(w) == FALSE

\* No chunk came for two minutes.
NoChunkInTime(w) == pool[w].state = "waiting" /\ pool[w].chunks = <<>>

\* No connection, no file, or no chunk in time.
Fails(w) ==
  /\ pool[w].state = "opening" \/ NoChunkInTime(w)
  /\ Goes(w, "closing")
  /\ UNCHANGED <<tabVars, stage, holds, table, remote>>

\* The chunk stays at the head of chunks while it is in the worker's hands.
Take(w) ==
  /\ pool[w].state = "waiting"
  /\ pool[w].chunks # <<>>
  /\ Goes(w, "writing")
  /\ UNCHANGED <<tabVars, stage, holds, table, remote>>

Stored(c) == remote[c.upload] \cup {c.chunk}

\* The last chunk ends the upload.
AfterWrite(c) == IF c.chunk + 1 = FileChunks THEN "closing" ELSE "waiting"

\* The chunk is written and its request answered.
Write(w) ==
  LET c == Head(pool[w].chunks) IN
  /\ pool[w].state = "writing"
  /\ remote' = [remote EXCEPT ![c.upload] = Stored(c)]
  /\ stage' = [stage EXCEPT ![c] = "ok"]
  /\ pool' = [pool EXCEPT ![w].chunks = Tail(@), ![w].state = AfterWrite(c)]
  /\ UNCHANGED <<tabVars, holds, table>>

\* The write, or the check of the size at the end, fails.
WriteFails(w) ==
  LET c == Head(pool[w].chunks) IN
  /\ pool[w].state = "writing"
  /\ stage' = [stage EXCEPT ![c] = "error"]
  /\ pool' = [pool EXCEPT ![w].chunks = Tail(@), ![w].state = "closing"]
  /\ UNCHANGED <<tabVars, holds, table, remote>>

\* Mutant: the chunks left are dropped without an answer.
NothingLeft(w) == {}

LeftOver(w) == {pool[w].chunks[i] : i \in DOMAIN pool[w].chunks}

\* The connection is closed; the chunks left are swapped out and answered.
Drain(w) ==
  /\ pool[w].state = "closing"
  /\ stage' = [c \in Calls |-> IF c \in LeftOver(w) THEN "error" ELSE stage[c]]
  /\ pool' = [pool EXCEPT ![w].chunks = <<>>, ![w].state = "drained"]
  /\ UNCHANGED <<tabVars, holds, table, remote>>

\* Last of all the worker says that it is through.
Finish(w) ==
  /\ pool[w].state = "drained"
  /\ Goes(w, "finished")
  /\ UNCHANGED <<tabVars, stage, holds, table, remote>>

Thread(w) ==
  \/ OpenFile(w) \/ Fails(w) \/ Take(w) \/ Write(w) \/ WriteFails(w)
  \/ Drain(w) \/ Finish(w)

Next ==
  \/ \E u \in Uploads : StartFile(u) \/ NextChunk(u) \/ GiveUp(u) \/ Duplicate(u)
  \/ \E c \in Calls : Find(c) \/ Enqueue(c) \/ StartThread(c)
  \/ \E w \in DOMAIN pool : Thread(w)

Spec == Init /\ [][Next]_vars

\* Every file and every duplicate makes one worker at most.
Workers == 1 .. Cardinality(Uploads) + MaxDuplicates

\* Threads run on, and the wait for a chunk ends after two minutes.
FairSpec ==
  /\ Spec
  /\ \A c \in Calls : WF_vars(Find(c) \/ Enqueue(c) \/ StartThread(c))
  /\ \A w \in Workers : WF_vars(w \in DOMAIN pool /\ Thread(w))

-----------------------------------------------------------------------------
(* Properties.                                                             *)

Stages ==
  {"none", "sent", "finds", "founds", "starts", "queued", "ok", "error", "refused"}

WorkerStates ==
  {"unstarted", "opening", "waiting", "writing", "closing", "drained", "finished"}

WorkerType ==
  [upload : Uploads, next : 0 .. FileChunks, chunks : Seq(Calls),
   state : WorkerStates]

\* Every variable has its type; a request that found a worker points to one
\* of its own upload, and so does the table.
TypeOK ==
  /\ status \in [Uploads -> {"queued", "uploading", "success", "error"}]
  /\ asked \in [Uploads -> Chunks]
  /\ stage \in [Calls -> Stages]
  /\ pool \in Seq(WorkerType)
  /\ holds \in [Calls -> 0 .. Len(pool)]
  /\ table \in [Uploads -> 0 .. Len(pool)]
  /\ \A c \in Calls : holds[c] # 0 => pool[holds[c]].upload = c.upload
  /\ \A u \in Uploads : table[u] # 0 => pool[table[u]].upload = u
  /\ remote \in [Uploads -> SUBSET Chunks]

Places(c) ==
  {p \in {<<w, i>> : w \in DOMAIN pool, i \in 1 .. FileChunks} :
     p[2] \in DOMAIN pool[p[1]].chunks /\ pool[p[1]].chunks[p[2]] = c}

\* A request waits in exactly one place of one worker until it is answered,
\* and is answered once: the callback of an HTTP request must not be called
\* twice, nor dropped.
HeldOnce ==
  \A c \in Calls :
    Cardinality(Places(c)) = IF stage[c] \in {"starts", "queued"} THEN 1 ELSE 0

\* No more than the limit of connections is open to the host at a time,
\* whatever requests create workers and whenever these end.
ConnectionsBounded ==
  Cardinality({w \in DOMAIN pool : ~Finished(w)}) <= HostLimit

\* The request of a chunk is answered "ok" only when the remote file has this
\* chunk and all before it, also when requests arrive twice or late.
AnsweredIsStored ==
  [][\A c \in Calls :
       stage[c] # "ok" /\ stage'[c] = "ok"
         => 0 .. c.chunk \subseteq remote'[c.upload]]_vars

\* A worker whose thread was started ends, and gives its place back.
WorkersEnd ==
  \A w \in Workers :
    (w \in DOMAIN pool /\ pool[w].state = "opening")
      ~> (w \in DOMAIN pool /\ Finished(w))

Accepting(w) == pool[w].state \in {"opening", "waiting", "writing", "closing"}

\* A chunk queued before the worker swaps its queue for the last time is
\* answered.
QueuedIsAnswered ==
  \A c \in Calls :
    (stage[c] = "queued" /\ Accepting(holds[c])) ~> stage[c] \in {"ok", "error"}

\* A tab that uploads no more files at a time than the host's limit is not
\* refused for the limit, as long as every file it sent was uploaded.
WithinLimitIsAccepted ==
  (\A u \in Uploads : status[u] # "error")
    => \A c \in Calls : stage[c] # "refused"

=============================================================================
