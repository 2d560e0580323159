------------------------- MODULE SftpUploadsProofs -------------------------
(* Theorems about the uploads of SftpUploads, for every number of files,   *)
(* chunks and repeated requests and every limit.                           *)
EXTENDS SftpUploads, FiniteSetTheorems, TLAPS

\* A request inside StartUploadChunk has a worker; the one that made it still
\* has to start its thread, and is the only one to do so; a worker that writes
\* has a chunk in its hands.
Placed ==
  /\ \A c \in Calls :
       stage[c] \in {"finds", "founds", "starts"} => holds[c] # 0
  /\ \A c \in Calls :
       stage[c] \in {"founds", "starts"} => pool[holds[c]].state = "unstarted"
  /\ \A c, d \in Calls :
       /\ stage[c] \in {"founds", "starts"} /\ stage[d] \in {"founds", "starts"}
       /\ holds[c] = holds[d]
       => c = d
  /\ \A w \in DOMAIN pool :
       pool[w].state = "writing" => pool[w].chunks # <<>>

\* A worker that has not finished is the one its upload has in the table.
Tabled ==
  \A w \in DOMAIN pool : ~Finished(w) => table[pool[w].upload] = w

\* The table never has more workers at work than the limit.
Limited == IsFiniteSet(Active) /\ Cardinality(Active) <= HostLimit

\* The chunks in the queue of a worker x follow each other, up to the next one
\* to come; while x has its file open, those before the queue are stored.
InOrder(x, stored) ==
  /\ Len(x.chunks) <= x.next
  /\ \A i \in 1 .. Len(x.chunks) :
       /\ x.chunks[i].upload = x.upload
       /\ x.chunks[i].chunk = x.next - Len(x.chunks) + i - 1
  /\ x.state \in {"unstarted", "opening"} => x.next = Len(x.chunks)
  /\ x.state \in {"waiting", "writing"} =>
       0 .. x.next - Len(x.chunks) - 1 \subseteq stored

Ordered == \A w \in DOMAIN pool : InOrder(pool[w], remote[pool[w].upload])

IInv == TypeOK /\ Placed /\ Tabled /\ Limited /\ Ordered

-----------------------------------------------------------------------------
(* What a step does to the workers *)

\* One worker goes on to the state s with the queue q and the next chunk n.
Changed(w, n, q, s) ==
  /\ pool' \in Seq(WorkerType)
  /\ DOMAIN pool' = DOMAIN pool
  /\ Len(pool') = Len(pool)
  /\ \A v \in DOMAIN pool : v # w => pool'[v] = pool[v]
  /\ pool'[w].upload = pool[w].upload
  /\ pool'[w].next = n
  /\ pool'[w].chunks = q
  /\ pool'[w].state = s

\* A worker that is replaced by one of the same upload.
LEMMA ReplaceWorker ==
  ASSUME pool \in Seq(WorkerType), NEW w \in DOMAIN pool,
         NEW n \in 0 .. FileChunks, NEW q \in Seq(Calls), NEW s \in WorkerStates,
         pool' = [pool EXCEPT ![w] =
                    [pool[w] EXCEPT !.next = n, !.chunks = q, !.state = s]]
  PROVE  Changed(w, n, q, s)
<1> DEFINE r == [pool[w] EXCEPT !.next = n, !.chunks = q, !.state = s]
<1>1. pool[w] \in WorkerType
  OBVIOUS
<1>2. r \in WorkerType
  BY <1>1 DEF WorkerType
<1>3. r.upload = pool[w].upload /\ r.next = n /\ r.chunks = q /\ r.state = s
  BY <1>1 DEF WorkerType
<1> HIDE DEF r
<1>4. pool' = [pool EXCEPT ![w] = r]
  BY DEF r
<1>5. /\ pool' \in Seq(WorkerType)
      /\ DOMAIN pool' = DOMAIN pool
      /\ Len(pool') = Len(pool)
      /\ pool'[w] = r
  BY <1>2, <1>4
<1>6. \A v \in DOMAIN pool : v # w => pool'[v] = pool[v]
  BY <1>4
<1> QED
  BY <1>3, <1>5, <1>6 DEF Changed

\* The same for a step that leaves the next chunk alone.
LEMMA ChangeQueue ==
  ASSUME pool \in Seq(WorkerType), NEW w \in DOMAIN pool,
         NEW q \in Seq(Calls), NEW s \in WorkerStates,
         pool' = [pool EXCEPT ![w].chunks = q, ![w].state = s]
  PROVE  Changed(w, pool[w].next, q, s)
<1>1. pool[w] \in WorkerType
  OBVIOUS
<1>2. [pool[w] EXCEPT !.chunks = q, !.state = s]
        = [pool[w] EXCEPT !.next = pool[w].next, !.chunks = q, !.state = s]
  BY <1>1 DEF WorkerType
<1>3. pool' = [pool EXCEPT ![w] = [pool[w] EXCEPT !.chunks = q, !.state = s]]
  OBVIOUS
<1>4. pool[w].next \in 0 .. FileChunks
  BY <1>1 DEF WorkerType
<1> QED
  BY <1>2, <1>3, <1>4, ReplaceWorker

\* The same for a step that changes the state only.
LEMMA ChangeState ==
  ASSUME pool \in Seq(WorkerType), NEW w \in DOMAIN pool, NEW s \in WorkerStates,
         pool' = [pool EXCEPT ![w].state = s]
  PROVE  Changed(w, pool[w].next, pool[w].chunks, s)
<1>1. pool[w] \in WorkerType
  OBVIOUS
<1>2. [pool[w] EXCEPT !.state = s]
        = [pool[w] EXCEPT !.next = pool[w].next, !.chunks = pool[w].chunks,
                          !.state = s]
  BY <1>1 DEF WorkerType
<1>3. pool' = [pool EXCEPT ![w] = [pool[w] EXCEPT !.state = s]]
  OBVIOUS
<1>4. pool[w].next \in 0 .. FileChunks /\ pool[w].chunks \in Seq(Calls)
  BY <1>1 DEF WorkerType
<1> QED
  BY <1>2, <1>3, <1>4, ReplaceWorker

\* A chunk in sequence is queued behind the others.
LEMMA ChangeAppend ==
  ASSUME pool \in Seq(WorkerType), NEW w \in DOMAIN pool, NEW c \in Calls,
         c.chunk = pool[w].next, ConstantsAssumption,
         pool' = [pool EXCEPT ![w].next = @ + 1, ![w].chunks = Append(@, c)]
  PROVE  Changed(w, pool[w].next + 1, Append(pool[w].chunks, c), pool[w].state)
<1>1. pool[w] \in WorkerType
  OBVIOUS
<1>2. pool' = [pool EXCEPT ![w] = [pool[w] EXCEPT !.next = pool[w].next + 1,
                                     !.chunks = Append(pool[w].chunks, c)]]
  OBVIOUS
<1>3. [pool[w] EXCEPT !.next = pool[w].next + 1, !.chunks = Append(pool[w].chunks, c)]
        = [pool[w] EXCEPT !.next = pool[w].next + 1,
                          !.chunks = Append(pool[w].chunks, c),
                          !.state = pool[w].state]
  BY <1>1 DEF WorkerType
<1>4. /\ pool[w].next + 1 \in 0 .. FileChunks
      /\ Append(pool[w].chunks, c) \in Seq(Calls)
      /\ pool[w].state \in WorkerStates
  <2>1. pool[w].next \in 0 .. FileChunks - 1
    BY DEF Calls, Chunks
  <2>2. FileChunks \in Nat
    BY DEF ConstantsAssumption
  <2> QED
    BY <1>1, <2>1, <2>2 DEF WorkerType
<1> QED
  BY <1>2, <1>3, <1>4, ReplaceWorker

\* What the type of pool says of one worker.
LEMMA WorkerTyped ==
  ASSUME TypeOK, NEW w \in DOMAIN pool
  PROVE  /\ pool[w].upload \in Uploads
         /\ pool[w].next \in 0 .. FileChunks
         /\ pool[w].chunks \in Seq(Calls)
         /\ pool[w].state \in WorkerStates
<1>1. pool[w] \in WorkerType
  BY DEF TypeOK
<1> QED
  BY <1>1 DEF WorkerType

-----------------------------------------------------------------------------
(* The table and the limit *)

\* A worker that goes on, and does not come back from "finished", keeps its
\* place in the table.
LEMMA TabledStep ==
  ASSUME TypeOK, Tabled, NEW w \in DOMAIN pool, NEW n, NEW q, NEW s,
         Changed(w, n, q, s), Finished(w) => s = "finished", table' = table
  PROVE  Tabled'
<1> SUFFICES ASSUME NEW v \in DOMAIN pool, ~Finished(v)'
             PROVE  table[pool'[v].upload] = v
  BY DEF Tabled, Changed
<1>1. ~Finished(v)
  BY DEF Changed, Finished
<1>2. pool'[v].upload = pool[v].upload
  BY DEF Changed
<1> QED
  BY <1>1, <1>2 DEF Tabled

\* Nor does it count more than before.
LEMMA LimitedStep ==
  ASSUME TypeOK, Limited, ConstantsAssumption, NEW w \in DOMAIN pool, NEW n, NEW q, NEW s,
         Changed(w, n, q, s), Finished(w) => s = "finished", table' = table
  PROVE  Limited'
<1>1. \A v \in DOMAIN pool : Finished(v) => Finished(v)'
  BY DEF Changed, Finished
<1>2. \A u \in Uploads : table[u] # 0 => table[u] \in DOMAIN pool
  BY DEF TypeOK
<1>3. \A u \in Uploads : StillThere(u)' # 0 => StillThere(u) # 0
  BY <1>1, <1>2 DEF StillThere
<1>4. Active' \in SUBSET Active
  BY <1>3 DEF Active
<1>5. IsFiniteSet(Active') /\ Cardinality(Active') <= Cardinality(Active)
  BY <1>4, FS_Subset DEF Limited
<1>6. Cardinality(Active) \in Nat /\ Cardinality(Active') \in Nat /\ HostLimit \in Nat
  BY <1>5, FS_CardinalityType DEF Limited, ConstantsAssumption
<1> QED
  BY <1>5, <1>6 DEF Limited

-----------------------------------------------------------------------------
(* The steps of the tab leave the server alone *)

\* The tab only changes what it shows and sends requests.
LEMMA TabStep ==
  ASSUME IInv, ConstantsAssumption, NEW u \in Uploads,
         StartFile(u) \/ NextChunk(u) \/ GiveUp(u) \/ Duplicate(u)
  PROVE  IInv'
<1> USE DEF IInv
<1>1. /\ pool' = pool /\ table' = table /\ holds' = holds /\ remote' = remote
      /\ status' \in [Uploads -> {"queued", "uploading", "success", "error"}]
      /\ asked' \in [Uploads -> Chunks]
  <2>1. CASE StartFile(u)
    BY <2>1 DEF StartFile, TypeOK
  <2>2. CASE NextChunk(u)
    <3>1. asked[u] + 1 # FileChunks => asked[u] + 1 \in Chunks
      BY DEF Chunks, ConstantsAssumption, TypeOK
    <3> QED
      BY <2>2, <3>1 DEF NextChunk, TypeOK
  <2>3. CASE GiveUp(u)
    BY <2>3 DEF GiveUp, TypeOK
  <2>4. CASE Duplicate(u)
    BY <2>4 DEF Duplicate, tabVars, TypeOK
  <2> QED
    BY <2>1, <2>2, <2>3, <2>4
<1>2. \A c \in Calls : stage'[c] \in {stage[c], "sent"}
  BY DEF TypeOK, StartFile, NextChunk, GiveUp, Duplicate
<1>3. stage' \in [Calls -> Stages]
  BY DEF TypeOK, StartFile, NextChunk, GiveUp, Duplicate, Stages
<1>4. TypeOK'
  BY <1>1, <1>3 DEF TypeOK
<1>5. Placed'
  BY <1>1, <1>2 DEF Placed
<1>6. Tabled' /\ Limited' /\ Ordered'
  BY <1>1 DEF Tabled, Limited, Active, StillThere, Finished, Ordered
<1> QED
  BY <1>4, <1>5, <1>6

-----------------------------------------------------------------------------
(* The steps of a request *)

\* The table without finished workers.
Kept == [v \in Uploads |-> StillThere(v)]

\* Erasing the entries of finished workers keeps the invariant.
LEMMA EraseStep ==
  ASSUME IInv, ConstantsAssumption, NEW c \in Calls, NEW x \in Stages, NEW h,
         h = holds[c] \/ h = Kept[c.upload], x = "finds" => h # 0,
         x \in {"finds", "error", "refused"},
         pool' = pool, remote' = remote, status' = status, asked' = asked,
         table' = Kept, stage' = [stage EXCEPT ![c] = x],
         holds' = [holds EXCEPT ![c] = h]
  PROVE  IInv'
<1> USE DEF IInv
<1>1. c.upload \in Uploads
  BY DEF Calls
<1>2. /\ Kept \in [Uploads -> 0 .. Len(pool)]
      /\ \A v \in Uploads : Kept[v] # 0 => Kept[v] = table[v] /\ ~Finished(Kept[v])
  BY DEF TypeOK, StillThere, Kept
<1>3. h \in 0 .. Len(pool) /\ (h # 0 => pool[h].upload = c.upload)
  BY <1>1, <1>2 DEF TypeOK
<1>4. TypeOK'
  BY <1>2, <1>3 DEF TypeOK
<1>5. Placed'
  BY <1>3 DEF Placed, TypeOK
<1>6. Tabled'
  <2> SUFFICES ASSUME NEW w \in DOMAIN pool, ~Finished(w)
               PROVE  Kept[pool[w].upload] = w
    BY DEF Tabled, Finished
  <2>1. pool[w].upload \in Uploads
    BY WorkerTyped
  <2>2. table[pool[w].upload] = w
    BY DEF Tabled
  <2> QED
    BY <2>1, <2>2 DEF Kept, StillThere
<1>7. \A v \in Uploads : StillThere(v)' = StillThere(v)
  BY DEF Kept, StillThere, Finished
<1>8. Limited'
  BY <1>7 DEF Limited, Active
<1>9. Ordered'
  BY DEF Ordered
<1> QED
  BY <1>4, <1>5, <1>6, <1>8, <1>9

\* A new worker takes the place of its upload in the table.
LEMMA CreateStep ==
  ASSUME IInv, ConstantsAssumption, NEW c \in Calls,
         stage[c] = "sent", Kept[c.upload] = 0, MayCreate,
         pool' = Append(pool, NewWorker(c.upload)),
         remote' = remote, status' = status, asked' = asked,
         table' = [Kept EXCEPT ![c.upload] = Len(pool) + 1],
         stage' = [stage EXCEPT ![c] = "founds"],
         holds' = [holds EXCEPT ![c] = Len(pool) + 1]
  PROVE  IInv'
<1> USE DEF IInv
<1> DEFINE u == c.upload
           w == Len(pool) + 1
<1>1. u \in Uploads
  BY DEF Calls
<1>2. /\ Kept \in [Uploads -> 0 .. Len(pool)]
      /\ \A v \in Uploads : Kept[v] # 0 => Kept[v] = table[v] /\ ~Finished(Kept[v])
  BY DEF TypeOK, StillThere, Kept
<1>3. NewWorker(u) \in WorkerType
  <2>1. 0 \in 0 .. FileChunks
    BY DEF ConstantsAssumption
  <2> QED
    BY <1>1, <2>1 DEF NewWorker, WorkerType, WorkerStates
<1>4. /\ pool' \in Seq(WorkerType)
      /\ Len(pool') = w /\ Len(pool) \in Nat
      /\ DOMAIN pool = 1 .. Len(pool) /\ DOMAIN pool' = 1 .. w
      /\ \A v \in 1 .. Len(pool) : pool'[v] = pool[v]
      /\ pool'[w] = NewWorker(u)
  BY <1>3 DEF TypeOK
<1>5. /\ pool'[w].upload = u /\ pool'[w].next = 0
      /\ pool'[w].chunks = <<>> /\ pool'[w].state = "unstarted"
  BY <1>4 DEF NewWorker
<1>6. TypeOK'
  <2>1. /\ stage' \in [Calls -> Stages]
        /\ holds' \in [Calls -> 0 .. Len(pool')]
        /\ table' \in [Uploads -> 0 .. Len(pool')]
    BY <1>1, <1>2, <1>4 DEF TypeOK, Stages
  <2>2. \A d \in Calls : holds'[d] # 0 => pool'[holds'[d]].upload = d.upload
    BY <1>4, <1>5 DEF TypeOK
  <2>3. \A v \in Uploads : table'[v] # 0 => pool'[table'[v]].upload = v
    BY <1>1, <1>2, <1>4, <1>5 DEF TypeOK
  <2> QED
    BY <1>4, <2>1, <2>2, <2>3 DEF TypeOK
<1>7. Placed'
  <2>1. \A d \in Calls : d # c => stage'[d] = stage[d] /\ holds'[d] = holds[d]
    BY DEF TypeOK
  <2>2. \A d \in Calls : holds[d] \in 0 .. Len(pool)
    BY DEF TypeOK
  <2>3. stage'[c] = "founds" /\ holds'[c] = w
    BY DEF TypeOK
  <2>4. \A d \in Calls :
          stage'[d] \in {"finds", "founds", "starts"} => holds'[d] # 0
    BY <1>4, <2>1, <2>3 DEF Placed
  <2>5. \A d \in Calls :
          stage'[d] \in {"founds", "starts"} => pool'[holds'[d]].state = "unstarted"
    BY <1>4, <1>5, <2>1, <2>2, <2>3 DEF Placed
  <2>6. \A d, e \in Calls :
          /\ stage'[d] \in {"founds", "starts"} /\ stage'[e] \in {"founds", "starts"}
          /\ holds'[d] = holds'[e]
          => d = e
    BY <1>4, <2>1, <2>2, <2>3 DEF Placed
  <2>7. \A v \in DOMAIN pool' :
          pool'[v].state = "writing" => pool'[v].chunks # <<>>
    BY <1>4, <1>5 DEF Placed
  <2> QED
    BY <2>4, <2>5, <2>6, <2>7 DEF Placed
<1>8. Tabled'
  <2> SUFFICES ASSUME NEW v \in 1 .. w, pool'[v].state # "finished"
               PROVE  table'[pool'[v].upload] = v
    BY <1>4 DEF Tabled, Finished
  <2>1. CASE v = w
    BY <1>1, <1>2, <1>5, <2>1
  <2>2. CASE v # w
    <3>1. v \in DOMAIN pool /\ pool'[v] = pool[v] /\ ~Finished(v)
      BY <1>4, <2>2 DEF Finished
    <3>2. pool[v].upload \in Uploads
      BY <3>1, WorkerTyped
    <3>3. table[pool[v].upload] = v
      BY <3>1 DEF Tabled
    <3>4. Kept[pool[v].upload] = v
      BY <3>1, <3>2, <3>3 DEF Kept, StillThere
    <3>5. pool[v].upload # u
      BY <1>4, <3>1, <3>4
    <3> QED
      BY <1>2, <3>1, <3>2, <3>4, <3>5
  <2> QED
    BY <2>1, <2>2
<1>9. Limited'
  <2>1. \A v \in Uploads \ {u} : StillThere(v)' = StillThere(v)
    BY <1>2, <1>4 DEF Kept, StillThere, Finished, TypeOK
  <2>2. StillThere(u)' # 0
    BY <1>1, <1>2, <1>4, <1>5 DEF StillThere, Finished
  <2>3. Active' = Active \cup {u}
    BY <1>1, <2>1, <2>2 DEF Active
  <2>4. /\ IsFiniteSet(Active')
        /\ Cardinality(Active') \in {Cardinality(Active), Cardinality(Active) + 1}
    BY <2>3, FS_AddElement DEF Limited
  <2>5. Cardinality(Active) \in Nat /\ HostLimit \in Nat
    BY FS_CardinalityType DEF Limited, ConstantsAssumption
  <2> QED
    BY <2>4, <2>5 DEF Limited, MayCreate
<1>10. Ordered'
  <2>1. InOrder(pool'[w], remote[u])
    BY <1>5 DEF InOrder
  <2>2. \A v \in DOMAIN pool : InOrder(pool'[v], remote[pool'[v].upload])
    BY <1>4 DEF Ordered
  <2> QED
    BY <1>4, <1>5, <2>1, <2>2 DEF Ordered
<1> QED
  BY <1>6, <1>7, <1>8, <1>9, <1>10

\* Every outcome of the uploads_mutex_ section of StartUploadChunk.
LEMMA FindStep ==
  ASSUME IInv, ConstantsAssumption, NEW c \in Calls, Find(c)
  PROVE  IInv'
<1>1. /\ stage[c] = "sent" /\ c.upload \in Uploads
      /\ UNCHANGED <<tabVars, remote>>
  BY DEF Find, Calls
<1>2. holds = [holds EXCEPT ![c] = holds[c]]
  BY DEF IInv, TypeOK
<1> DEFINE u == c.upload
<1>3. CASE Kept[u] # 0 /\ stage' = [stage EXCEPT ![c] = "finds"]
             /\ holds' = [holds EXCEPT ![c] = Kept[u]] /\ table' = Kept
             /\ UNCHANGED pool
  BY <1>1, <1>3, EraseStep DEF tabVars, Stages
<1>4. CASE \E x \in {"error", "refused"} : stage' = [stage EXCEPT ![c] = x]
             /\ table' = Kept /\ UNCHANGED <<holds, pool>>
  BY <1>1, <1>2, <1>4, EraseStep DEF tabVars, Stages
<1>5. CASE /\ Kept[u] = 0 /\ MayCreate
           /\ pool' = Append(pool, NewWorker(u))
           /\ stage' = [stage EXCEPT ![c] = "founds"]
           /\ holds' = [holds EXCEPT ![c] = Len(pool) + 1]
           /\ table' = [Kept EXCEPT ![u] = Len(pool) + 1]
  BY <1>1, <1>5, CreateStep DEF tabVars
<1> QED
  BY <1>3, <1>4, <1>5 DEF Find, Kept

\* A step of one worker keeps the order if it keeps that worker's, and takes
\* nothing from the files of the others.
LEMMA OrderedStep ==
  ASSUME TypeOK, Ordered, NEW w \in DOMAIN pool, NEW n, NEW q, NEW s,
         Changed(w, n, q, s),
         InOrder(pool'[w], remote'[pool[w].upload]),
         \A v \in DOMAIN pool :
           v # w /\ pool[v].state \in {"waiting", "writing"} =>
             remote[pool[v].upload] \subseteq remote'[pool[v].upload]
  PROVE  Ordered'
<1> SUFFICES ASSUME NEW v \in DOMAIN pool
             PROVE  InOrder(pool'[v], remote'[pool'[v].upload])
  BY DEF Ordered, Changed
<1>1. CASE v = w
  BY <1>1 DEF Changed
<1>2. CASE v # w
  <2>1. pool'[v] = pool[v] /\ InOrder(pool[v], remote[pool[v].upload])
    BY <1>2 DEF Changed, Ordered
  <2> QED
    BY <1>2, <2>1 DEF InOrder
<1> QED
  BY <1>1, <1>2

\* The types after a step of one worker that answers requests at most.
LEMMA TypedStep ==
  ASSUME TypeOK, NEW w \in DOMAIN pool, NEW n, NEW q, NEW s,
         Changed(w, n, q, s), stage' \in [Calls -> Stages],
         remote' \in [Uploads -> SUBSET Chunks],
         UNCHANGED <<tabVars, holds, table>>
  PROVE  TypeOK'
<1>1. pool' \in Seq(WorkerType) /\ Len(pool') = Len(pool)
  BY DEF Changed
<1>2. DOMAIN pool = 1 .. Len(pool)
  BY DEF TypeOK
<1>3. \A v \in DOMAIN pool : pool'[v].upload = pool[v].upload
  BY DEF Changed
<1>4. holds' = holds /\ table' = table /\ status' = status /\ asked' = asked
  BY DEF tabVars
<1>5. /\ holds' \in [Calls -> 0 .. Len(pool')]
      /\ table' \in [Uploads -> 0 .. Len(pool')]
  BY <1>1, <1>4 DEF TypeOK
<1>6. /\ \A c \in Calls : holds[c] # 0 => holds[c] \in DOMAIN pool
      /\ \A u \in Uploads : table[u] # 0 => table[u] \in DOMAIN pool
  BY <1>2 DEF TypeOK
<1>7. /\ \A c \in Calls : holds'[c] # 0 => pool'[holds'[c]].upload = c.upload
      /\ \A u \in Uploads : table'[u] # 0 => pool'[table'[u]].upload = u
  <2>1. /\ \A c \in Calls : holds[c] # 0 => pool[holds[c]].upload = c.upload
        /\ \A u \in Uploads : table[u] # 0 => pool[table[u]].upload = u
    BY DEF TypeOK
  <2> QED
    BY <1>3, <1>4, <1>6, <2>1
<1> QED
  BY <1>1, <1>4, <1>5, <1>7 DEF TypeOK

\* The section of the worker's mutex in StartUploadChunk: the chunk joins the
\* queue in its place, or the call throws.
LEMMA EnqueueStep ==
  ASSUME IInv, ConstantsAssumption, NEW c \in Calls, Enqueue(c)
  PROVE  IInv'
<1> USE DEF IInv
<1> DEFINE w == holds[c]
<1>1. /\ w \in DOMAIN pool /\ pool[w].upload = c.upload
      /\ stage[c] \in {"finds", "founds"}
      /\ UNCHANGED <<tabVars, holds, table, remote>>
  BY DEF Enqueue, Placed, TypeOK
<1>2. CASE stage' = [stage EXCEPT ![c] = "error"] /\ UNCHANGED pool
  <2>1. TypeOK' /\ Placed'
    BY <1>1, <1>2 DEF TypeOK, Placed, Stages, tabVars
  <2> QED
    BY <1>1, <1>2, <2>1 DEF Tabled, Limited, Active, StillThere, Finished, Ordered
<1>3. CASE /\ ~Finished(w) /\ InSequence(c)
           /\ pool' = [pool EXCEPT ![w].next = @ + 1, ![w].chunks = Append(@, c)]
           /\ stage' = [stage EXCEPT ![c] =
                          IF @ = "founds" THEN "starts" ELSE "queued"]
  <2> DEFINE n == pool[w].next
             q == pool[w].chunks
             s == pool[w].state
  <2>1. c.chunk = n
    BY <1>3 DEF InSequence
  <2>2. Changed(w, n + 1, Append(q, c), s)
    BY <1>1, <1>3, <2>1, ChangeAppend DEF TypeOK
  <2>3. n \in Nat /\ q \in Seq(Calls)
    BY <1>1, WorkerTyped
  <2>4. TypeOK'
    <3>1. stage' \in [Calls -> Stages]
      BY <1>3 DEF TypeOK, Stages
    <3> QED
      BY <1>1, <2>2, <3>1, TypedStep DEF TypeOK
  <2>5. Placed'
    <3>1. \A d \in Calls :
            /\ stage'[d] \in {"finds", "founds", "starts"} =>
                 stage[d] \in {"finds", "founds", "starts"}
            /\ stage'[d] \in {"founds", "starts"} => stage[d] \in {"founds", "starts"}
      BY <1>3 DEF TypeOK
    <3>2. \A v \in DOMAIN pool : pool'[v].state = pool[v].state
      BY <2>2 DEF Changed
    <3>3. \A v \in DOMAIN pool' :
            pool'[v].state = "writing" => pool'[v].chunks # <<>>
      <4>1. pool'[w].chunks # <<>>
        <5>1. pool'[w].chunks = Append(q, c)
          BY <2>2 DEF Changed
        <5>2. Append(q, c) # <<>>
          <6> HIDE DEF q
          <6> QED
            BY <2>3
        <5> QED
          BY <5>1, <5>2
      <4>2. DOMAIN pool' = DOMAIN pool /\ \A v \in DOMAIN pool : v # w => pool'[v] = pool[v]
        BY <2>2 DEF Changed
      <4> QED
        BY <4>1, <4>2 DEF Placed
    <3>4. \A d \in Calls : holds[d] # 0 => holds[d] \in DOMAIN pool
      BY DEF TypeOK
    <3> QED
      BY <1>1, <3>1, <3>2, <3>3, <3>4 DEF Placed
  <2>6. Tabled' /\ Limited'
    BY <1>1, <1>3, <2>2, TabledStep, LimitedStep
  <2>7. Ordered'
    <3>1. InOrder(pool[w], remote[pool[w].upload])
      BY <1>1 DEF Ordered
    <3>2. Len(Append(q, c)) = Len(q) + 1 /\ Len(q) \in Nat
      BY <2>3
    <3>3. \A i \in 1 .. Len(q) + 1 :
            Append(q, c)[i] = IF i = Len(q) + 1 THEN c ELSE q[i]
      BY <2>3
    <3>4. InOrder(pool'[w], remote[pool[w].upload])
      <4> DEFINE x == pool'[w]
      <4>1. /\ x.upload = c.upload /\ x.next = n + 1 /\ x.state = s
            /\ x.chunks = Append(q, c)
        BY <1>1, <2>2 DEF Changed
      <4> HIDE DEF x
      <4>2. /\ Len(q) <= n /\ (s \in {"unstarted", "opening"} => n = Len(q))
            /\ \A i \in 1 .. Len(q) :
                 q[i].upload = c.upload /\ q[i].chunk = n - Len(q) + i - 1
            /\ s \in {"waiting", "writing"} =>
                 0 .. n - Len(q) - 1 \subseteq remote[pool[w].upload]
        BY <1>1, <3>1 DEF InOrder
      <4> HIDE DEF n, q, s
      <4>3. n + 1 - (Len(q) + 1) = n - Len(q) /\ Len(q) + 1 <= n + 1
        BY <2>3, <3>2, <4>2
      <4>4. \A i \in 1 .. Len(q) + 1 :
              /\ Append(q, c)[i].upload = c.upload
              /\ Append(q, c)[i].chunk = n + 1 - (Len(q) + 1) + i - 1
        <5> SUFFICES ASSUME NEW i \in 1 .. Len(q) + 1
                     PROVE  /\ Append(q, c)[i].upload = c.upload
                            /\ Append(q, c)[i].chunk = n + 1 - (Len(q) + 1) + i - 1
          OBVIOUS
        <5>1. CASE i = Len(q) + 1
          <6>1. Append(q, c)[i] = c
            BY <3>3, <5>1
          <6> QED
            BY <2>1, <2>3, <3>2, <5>1, <6>1
        <5>2. CASE i # Len(q) + 1
          <6>1. Append(q, c)[i] = q[i] /\ i \in 1 .. Len(q)
            BY <3>2, <3>3, <5>2
          <6>2. n + 1 - (Len(q) + 1) + i - 1 = n - Len(q) + i - 1
            BY <2>3, <3>2
          <6> QED
            BY <4>2, <6>1, <6>2
        <5> QED
          BY <5>1, <5>2
      <4>5. Len(x.chunks) = Len(q) + 1
        BY <3>2, <4>1
      <4>6. /\ Len(x.chunks) <= x.next
            /\ x.state \in {"unstarted", "opening"} => x.next = Len(x.chunks)
        BY <4>1, <4>2, <4>3, <4>5
      <4>7. \A i \in 1 .. Len(x.chunks) :
              /\ x.chunks[i].upload = x.upload
              /\ x.chunks[i].chunk = x.next - Len(x.chunks) + i - 1
        BY <2>3, <3>2, <4>1, <4>4, <4>5
      <4>8. x.state \in {"waiting", "writing"} =>
              0 .. x.next - Len(x.chunks) - 1 \subseteq remote[pool[w].upload]
        <5>1. x.next - Len(x.chunks) = n - Len(q)
          BY <2>3, <3>2, <4>1, <4>3, <4>5
        <5> QED
          BY <4>1, <4>2, <5>1
      <4>9. InOrder(x, remote[pool[w].upload])
        BY <4>6, <4>7, <4>8 DEF InOrder
      <4> QED
        BY <4>9 DEF x
    <3> QED
      BY <1>1, <2>2, <3>4, OrderedStep
  <2> QED
    BY <2>4, <2>5, <2>6, <2>7
<1> QED
  BY <1>2, <1>3 DEF Enqueue

\* The thread is started by the one request that made the worker.
LEMMA StartThreadStep ==
  ASSUME IInv, ConstantsAssumption, NEW c \in Calls, StartThread(c)
  PROVE  IInv'
<1> USE DEF IInv
<1> DEFINE w == holds[c]
           n == pool[w].next
           q == pool[w].chunks
<1>1. /\ w \in DOMAIN pool /\ pool[w].state = "unstarted"
      /\ stage[c] = "starts" /\ stage' = [stage EXCEPT ![c] = "queued"]
      /\ UNCHANGED <<tabVars, holds, table, remote>>
  BY DEF StartThread, Placed, TypeOK
<1>2. Changed(w, n, q, "opening")
  BY <1>1, ChangeState DEF StartThread, TypeOK, WorkerStates
<1>3. TypeOK'
  <2>1. stage' \in [Calls -> Stages]
    BY <1>1 DEF TypeOK, Stages
  <2> QED
    BY <1>1, <1>2, <2>1, TypedStep DEF TypeOK
<1>4. Placed'
  <2>1. \A d \in Calls :
          stage'[d] \in {"finds", "founds", "starts"} => d # c /\ stage'[d] = stage[d]
    BY <1>1 DEF TypeOK
  <2>2. \A d \in Calls :
          d # c /\ stage[d] \in {"founds", "starts"} =>
            /\ holds[d] # w /\ holds[d] \in DOMAIN pool
            /\ pool'[holds[d]] = pool[holds[d]]
    BY <1>1, <1>2 DEF Placed, TypeOK, Changed
  <2>3. \A v \in DOMAIN pool' :
          pool'[v].state = "writing" => pool'[v].chunks # <<>>
    BY <1>2 DEF Placed, Changed
  <2> QED
    BY <1>1, <2>1, <2>2, <2>3 DEF Placed
<1>5. Tabled' /\ Limited'
  BY <1>1, <1>2, TabledStep, LimitedStep DEF Finished
<1>6. Ordered'
  <2>1. InOrder(pool[w], remote[pool[w].upload])
    BY <1>1 DEF Ordered
  <2>2. InOrder(pool'[w], remote[pool[w].upload])
    BY <1>1, <1>2, <2>1 DEF InOrder, Changed
  <2> QED
    BY <1>1, <1>2, <2>2, OrderedStep
<1> QED
  BY <1>3, <1>4, <1>5, <1>6

-----------------------------------------------------------------------------
(* The steps of a worker thread *)

\* What the steps of a worker thread have in common: they leave its next chunk
\* alone, answer requests at most, and take nothing from the files of others.
Advances(w, q, s) ==
  /\ Changed(w, pool[w].next, q, s)
  /\ pool[w].state # "unstarted" /\ pool[w].state # "finished"
  /\ s = "writing" => q # <<>>
  /\ stage' \in [Calls -> Stages]
  /\ \A c \in Calls : stage'[c] \in {stage[c], "ok", "error"}
  /\ UNCHANGED <<tabVars, holds, table>>
  /\ remote' \in [Uploads -> SUBSET Chunks]
  /\ InOrder(pool'[w], remote'[pool[w].upload])
  /\ \A v \in DOMAIN pool :
       v # w /\ pool[v].state \in {"waiting", "writing"} =>
         remote[pool[v].upload] \subseteq remote'[pool[v].upload]

\* A worker thread that advances keeps the invariant.
LEMMA ThreadStep ==
  ASSUME IInv, ConstantsAssumption, NEW w \in DOMAIN pool, NEW q, NEW s,
         Advances(w, q, s)
  PROVE  IInv'
<1> USE DEF IInv, Advances
<1>1. TypeOK'
  BY TypedStep
<1>2. Placed'
  <2>1. \A d \in Calls :
          stage'[d] \in {"finds", "founds", "starts"} => stage'[d] = stage[d]
    OBVIOUS
  <2>2. \A d \in Calls :
          stage[d] \in {"founds", "starts"} =>
            holds[d] # w /\ holds[d] \in DOMAIN pool
    BY DEF Placed, TypeOK
  <2>3. \A d \in Calls :
          stage[d] \in {"founds", "starts"} => pool'[holds[d]] = pool[holds[d]]
    BY <2>2 DEF Changed
  <2>4. \A v \in DOMAIN pool' :
          pool'[v].state = "writing" => pool'[v].chunks # <<>>
    BY DEF Placed, Changed
  <2>5. holds' = holds
    OBVIOUS
  <2> QED
    BY <2>1, <2>3, <2>4, <2>5 DEF Placed
<1>3. Tabled' /\ Limited'
  BY TabledStep, LimitedStep DEF Finished
<1>4. Ordered'
  BY OrderedStep
<1> QED
  BY <1>1, <1>2, <1>3, <1>4

\* Two workers of one upload that have not finished are one.
LEMMA OneWorker ==
  ASSUME Tabled, NEW v \in DOMAIN pool, NEW w \in DOMAIN pool,
         ~Finished(v), ~Finished(w), pool[v].upload = pool[w].upload
  PROVE  v = w
BY DEF Tabled

\* The file that is truncated belongs to no other worker at work.
LEMMA OpenFileStep ==
  ASSUME IInv, ConstantsAssumption, NEW w \in DOMAIN pool, OpenFile(w)
  PROVE  IInv'
<1> USE DEF IInv
<1> DEFINE u == pool[w].upload
<1>1. /\ pool[w].state = "opening" /\ u \in Uploads
      /\ remote' = [remote EXCEPT ![u] = {}]
      /\ UNCHANGED <<tabVars, stage, holds, table>>
  BY WorkerTyped DEF OpenFile
<1>2. Changed(w, pool[w].next, pool[w].chunks, "waiting")
  BY ChangeState DEF OpenFile, Goes, TypeOK, WorkerStates
<1>3. /\ remote' \in [Uploads -> SUBSET Chunks] /\ stage' \in [Calls -> Stages]
      /\ remote'[u] = {}
  BY <1>1 DEF TypeOK
<1>4. InOrder(pool'[w], remote'[u])
  <2>1. InOrder(pool[w], remote[u])
    BY DEF Ordered
  <2>2. pool[w].next = Len(pool[w].chunks) /\ Len(pool[w].chunks) \in Nat
    BY <1>1, <2>1, WorkerTyped DEF InOrder
  <2>3. 0 .. pool[w].next - Len(pool[w].chunks) - 1 = {}
    BY <2>2
  <2> QED
    BY <1>2, <2>1, <2>3 DEF InOrder, Changed
<1>5. \A v \in DOMAIN pool :
        v # w /\ pool[v].state \in {"waiting", "writing"} =>
          remote[pool[v].upload] \subseteq remote'[pool[v].upload]
  <2> SUFFICES ASSUME NEW v \in DOMAIN pool, v # w,
                      pool[v].state \in {"waiting", "writing"}
               PROVE  remote'[pool[v].upload] = remote[pool[v].upload]
    OBVIOUS
  <2>1. pool[v].upload # u
    BY <1>1, OneWorker DEF Finished
  <2> QED
    BY <1>1, <2>1 DEF TypeOK
<1>6. /\ \A c \in Calls : stage'[c] \in {stage[c], "ok", "error"}
      /\ UNCHANGED <<tabVars, holds, table>>
  BY <1>1
<1>7. Advances(w, pool[w].chunks, "waiting")
  BY <1>1, <1>2, <1>3, <1>4, <1>5, <1>6 DEF Advances
<1> QED
  BY <1>7, ThreadStep

\* The chunk at the head of the queue is the first one that is not stored.
LEMMA WriteStep ==
  ASSUME IInv, ConstantsAssumption, NEW w \in DOMAIN pool, Write(w) \/ WriteFails(w)
  PROVE  IInv'
<1> USE DEF IInv
<1> DEFINE u == pool[w].upload
           n == pool[w].next
           q == pool[w].chunks
           c == Head(q)
<1>1. /\ pool[w].state = "writing" /\ q # <<>> /\ q \in Seq(Calls)
      /\ u \in Uploads /\ n \in Nat
  BY WorkerTyped DEF Write, WriteFails, Placed
<1>2. c \in Calls /\ Tail(q) \in Seq(Calls) /\ Len(q) \in Nat \ {0}
      /\ Len(Tail(q)) = Len(q) - 1
      /\ c = q[1] /\ \A i \in 1 .. Len(Tail(q)) : Tail(q)[i] = q[i + 1]
  BY <1>1
<1>3. InOrder(pool[w], remote[u])
  BY DEF Ordered
<1>4. /\ Len(q) <= n
      /\ \A i \in 1 .. Len(q) : q[i].upload = u /\ q[i].chunk = n - Len(q) + i - 1
      /\ 0 .. n - Len(q) - 1 \subseteq remote[u]
  BY <1>1, <1>3 DEF InOrder
<1>5. c.upload = u /\ c.chunk = n - Len(q) /\ c.chunk \in Chunks
  <2>1. 1 \in 1 .. Len(q)
    BY <1>2
  <2>2. c.upload = u /\ c.chunk = n - Len(q) + 1 - 1
    BY <1>2, <1>4, <2>1
  <2>3. c.chunk \in Chunks
    BY <1>2 DEF Calls
  <2> QED
    BY <1>1, <1>2, <2>2, <2>3
<1> DEFINE s == pool'[w].state
           x == pool'[w]
<1>6. Changed(w, n, Tail(q), s) /\ s \in {"waiting", "closing"}
  <2>1. CASE Write(w)
    <3>1. Changed(w, n, Tail(q), AfterWrite(c))
      BY <1>2, <2>1, ChangeQueue DEF Write, TypeOK, AfterWrite, WorkerStates
    <3> QED
      BY <3>1 DEF Changed, AfterWrite
  <2>2. CASE WriteFails(w)
    <3>1. Changed(w, n, Tail(q), "closing")
      BY <1>2, <2>2, ChangeQueue DEF WriteFails, TypeOK, WorkerStates
    <3> QED
      BY <3>1 DEF Changed
  <2> QED
    BY <2>1, <2>2
<1>7. /\ stage' \in [Calls -> Stages]
      /\ \A d \in Calls : stage'[d] \in {stage[d], "ok", "error"}
      /\ UNCHANGED <<tabVars, holds, table>>
  BY DEF Write, WriteFails, TypeOK, Stages
<1>8. /\ remote' \in [Uploads -> SUBSET Chunks]
      /\ \A v \in Uploads : remote[v] \subseteq remote'[v]
      /\ s = "waiting" => remote'[u] = remote[u] \cup {c.chunk}
  <2>1. CASE Write(w)
    BY <1>1, <1>5, <2>1 DEF Write, Stored, TypeOK
  <2>2. CASE WriteFails(w)
    <3>1. Changed(w, n, Tail(q), "closing")
      BY <1>2, <2>2, ChangeQueue DEF WriteFails, TypeOK, WorkerStates
    <3> QED
      BY <2>2, <3>1 DEF WriteFails, TypeOK, Changed
  <2> QED
    BY <2>1, <2>2
<1>9. InOrder(pool'[w], remote'[u])
  <2>1. /\ x.upload = u /\ x.next = n /\ x.chunks = Tail(q) /\ x.state = s
    BY <1>6 DEF Changed
  <2> HIDE DEF x, s, u, n, q, c
  <2>2. n - Len(Tail(q)) = n - Len(q) + 1 /\ Len(Tail(q)) <= n
    BY <1>1, <1>2, <1>4
  <2>3. \A i \in 1 .. Len(Tail(q)) :
          Tail(q)[i].upload = u /\ Tail(q)[i].chunk = n - Len(Tail(q)) + i - 1
    <3> SUFFICES ASSUME NEW i \in 1 .. Len(Tail(q))
                 PROVE  /\ Tail(q)[i].upload = u
                        /\ Tail(q)[i].chunk = n - Len(Tail(q)) + i - 1
      OBVIOUS
    <3>1. Tail(q)[i] = q[i + 1] /\ i + 1 \in 1 .. Len(q)
      BY <1>2
    <3>2. n - Len(q) + (i + 1) - 1 = n - Len(Tail(q)) + i - 1
      BY <1>1, <1>2, <2>2
    <3> QED
      BY <1>4, <3>1, <3>2
  <2>4. s = "waiting" => 0 .. n - Len(Tail(q)) - 1 \subseteq remote'[u]
    <3>1. 0 .. n - Len(Tail(q)) - 1 = 0 .. n - Len(q)
      BY <1>1, <1>2, <2>2
    <3>2. 0 .. n - Len(q) \subseteq (0 .. n - Len(q) - 1) \cup {n - Len(q)}
      BY <1>1, <1>2
    <3> QED
      BY <1>4, <1>5, <1>8, <3>1, <3>2
  <2>5. InOrder(x, remote'[u])
    BY <1>6, <2>1, <2>2, <2>3, <2>4 DEF InOrder
  <2> QED
    BY <2>5 DEF x
<1>10. \A v \in DOMAIN pool : remote[pool[v].upload] \subseteq remote'[pool[v].upload]
  BY <1>8, WorkerTyped
<1>11. Advances(w, Tail(q), s)
  BY <1>1, <1>6, <1>7, <1>8, <1>9, <1>10 DEF Advances
<1> QED
  BY <1>11, ThreadStep

\* The steps that leave the remote file alone.
LEMMA OtherStep ==
  ASSUME IInv, ConstantsAssumption, NEW w \in DOMAIN pool,
         Fails(w) \/ Take(w) \/ Drain(w) \/ Finish(w)
  PROVE  IInv'
<1> USE DEF IInv
<1> DEFINE n == pool[w].next
           q == pool[w].chunks
<1>1. /\ n \in Nat /\ q \in Seq(Calls) /\ pool[w].upload \in Uploads
      /\ InOrder(pool[w], remote[pool[w].upload])
  BY WorkerTyped DEF Ordered
<1>2. remote' = remote /\ UNCHANGED <<tabVars, holds, table>>
  BY DEF Fails, Take, Drain, Finish
<1>3. /\ stage' \in [Calls -> Stages]
      /\ \A c \in Calls : stage'[c] \in {stage[c], "ok", "error"}
  BY DEF Fails, Take, Drain, Finish, TypeOK, Stages
<1>4. /\ remote' \in [Uploads -> SUBSET Chunks]
      /\ \A v \in DOMAIN pool : remote[pool[v].upload] \subseteq remote'[pool[v].upload]
  BY <1>2 DEF TypeOK
<1>5. CASE Fails(w)
  <2>1. Changed(w, n, q, "closing")
    BY <1>5, ChangeState DEF Fails, Goes, TypeOK, WorkerStates
  <2>2. InOrder(pool'[w], remote'[pool[w].upload])
    BY <1>1, <1>2, <2>1 DEF InOrder, Changed
  <2>3. pool[w].state \in {"opening", "waiting"}
    BY <1>5 DEF Fails, NoChunkInTime
  <2>4. Advances(w, q, "closing")
    BY <1>2, <1>3, <1>4, <2>1, <2>2, <2>3 DEF Advances
  <2> QED
    BY <2>4, ThreadStep
<1>6. CASE Take(w)
  <2>1. Changed(w, n, q, "writing")
    BY <1>6, ChangeState DEF Take, Goes, TypeOK, WorkerStates
  <2>2. InOrder(pool'[w], remote'[pool[w].upload])
    BY <1>1, <1>2, <1>6, <2>1 DEF InOrder, Changed, Take
  <2>3. pool[w].state = "waiting" /\ q # <<>>
    BY <1>6 DEF Take
  <2>4. Advances(w, q, "writing")
    BY <1>2, <1>3, <1>4, <2>1, <2>2, <2>3 DEF Advances
  <2> QED
    BY <2>4, ThreadStep
<1>7. CASE Drain(w)
  <2>1. Changed(w, n, <<>>, "drained")
    <3>1. <<>> \in Seq(Calls) /\ "drained" \in WorkerStates /\ pool \in Seq(WorkerType)
      BY DEF WorkerStates, TypeOK
    <3>2. pool' = [pool EXCEPT ![w].chunks = <<>>, ![w].state = "drained"]
      BY <1>7 DEF Drain
    <3> QED
      BY <3>1, <3>2, ChangeQueue
  <2>2. InOrder(pool'[w], remote'[pool[w].upload])
    BY <1>1, <2>1 DEF InOrder, Changed
  <2>3. pool[w].state = "closing"
    BY <1>7 DEF Drain
  <2>4. Advances(w, <<>>, "drained")
    BY <1>2, <1>3, <1>4, <2>1, <2>2, <2>3 DEF Advances
  <2> QED
    BY <2>4, ThreadStep
<1>8. CASE Finish(w)
  <2>1. Changed(w, n, q, "finished")
    BY <1>8, ChangeState DEF Finish, Goes, TypeOK, WorkerStates
  <2>2. InOrder(pool'[w], remote'[pool[w].upload])
    BY <1>1, <1>2, <2>1 DEF InOrder, Changed
  <2>3. pool[w].state = "drained"
    BY <1>8 DEF Finish
  <2>4. Advances(w, q, "finished")
    BY <1>2, <1>3, <1>4, <2>1, <2>2, <2>3 DEF Advances
  <2> QED
    BY <2>4, ThreadStep
<1> QED
  BY <1>5, <1>6, <1>7, <1>8

-----------------------------------------------------------------------------
(* The theorems *)

\* The invariant holds at the start.
LEMMA InvariantInit == ConstantsAssumption /\ Init => IInv
<1> SUFFICES ASSUME ConstantsAssumption, Init PROVE IInv
  OBVIOUS
<1>1. 0 \in Chunks /\ Len(pool) = 0 /\ DOMAIN pool = {} /\ pool \in Seq(WorkerType)
  BY DEF Init, Chunks, ConstantsAssumption
<1>2. TypeOK
  BY <1>1 DEF Init, TypeOK, Stages
<1>3. Placed /\ Tabled /\ Ordered
  BY <1>1 DEF Init, Placed, Tabled, Ordered
<1>4. Active = {}
  BY DEF Init, Active, StillThere
<1>5. Limited
  BY <1>4, FS_EmptySet DEF Limited, ConstantsAssumption
<1> QED
  BY <1>2, <1>3, <1>5 DEF IInv

\* Every step of the tab, of a request and of a worker keeps the invariant.
LEMMA InvariantStep == ConstantsAssumption /\ IInv /\ [Next]_vars => IInv'
<1> SUFFICES ASSUME ConstantsAssumption, IInv, [Next]_vars PROVE IInv'
  OBVIOUS
<1>1. CASE \E u \in Uploads : StartFile(u) \/ NextChunk(u) \/ GiveUp(u) \/ Duplicate(u)
  BY <1>1, TabStep
<1>2. CASE \E c \in Calls : Find(c) \/ Enqueue(c) \/ StartThread(c)
  BY <1>2, FindStep, EnqueueStep, StartThreadStep
<1>3. CASE \E w \in DOMAIN pool : Thread(w)
  BY <1>3, OpenFileStep, WriteStep, OtherStep DEF Thread
<1>4. CASE UNCHANGED vars
  BY <1>4 DEF vars, tabVars, IInv, TypeOK, Placed, Tabled, Limited, Active,
              StillThere, Finished, Ordered
<1> QED
  BY <1>1, <1>2, <1>3, <1>4 DEF Next

\* The invariant holds in every reachable state.
LEMMA InvariantHolds == Spec => []IInv
<1>1. ConstantsAssumption
  BY ConstantsAssumption
<1>2. Init => IInv
  BY <1>1, InvariantInit
<1>3. IInv /\ [Next]_vars => IInv'
  BY <1>1, InvariantStep
<1> QED
  BY <1>2, <1>3, PTL DEF Spec

\* The state of the tab, the requests and the workers has its type, for every
\* number of files and chunks.
THEOREM UploadTypes == Spec => []TypeOK
<1>1. IInv => TypeOK
  BY DEF IInv
<1> QED
  BY <1>1, InvariantHolds, PTL

\* The limit per host holds for every limit and any number of files, whatever
\* requests come twice or late: a worker that has not finished is the one in
\* the table for its upload, and the table is counted before one is added.
THEOREM LimitHolds == Spec => []ConnectionsBounded
<1>1. IInv => ConnectionsBounded
  <2> SUFFICES ASSUME IInv PROVE ConnectionsBounded
    OBVIOUS
  <2> DEFINE W == {w \in DOMAIN pool : ~Finished(w)}
             f == [w \in W |-> pool[w].upload]
  <2>1. \A w \in W : pool[w].upload \in Active
    <3> SUFFICES ASSUME NEW w \in W PROVE pool[w].upload \in Active
      OBVIOUS
    <3>1. w \in DOMAIN pool /\ ~Finished(w) /\ w # 0
      BY DEF IInv, TypeOK
    <3>2. pool[w].upload \in Uploads /\ table[pool[w].upload] = w
      BY <3>1, WorkerTyped DEF IInv, Tabled
    <3> QED
      BY <3>1, <3>2 DEF Active, StillThere
  <2>2. \A v, w \in W : pool[v].upload = pool[w].upload => v = w
    BY OneWorker DEF IInv
  <2>3. f \in Injection(W, Active)
    BY <2>1, <2>2 DEF Injection, IsInjective
  <2>4. IsFiniteSet(W) /\ Cardinality(W) <= Cardinality(Active)
    BY <2>3, FS_Injection DEF IInv, Limited
  <2>5. /\ Cardinality(W) \in Nat /\ Cardinality(Active) \in Nat
        /\ Cardinality(Active) <= HostLimit /\ HostLimit \in Nat
    BY <2>4, FS_CardinalityType, ConstantsAssumption
       DEF IInv, Limited, ConstantsAssumption
  <2> QED
    BY <2>4, <2>5 DEF ConnectionsBounded
<1> QED
  BY <1>1, InvariantHolds, PTL

\* A chunk is answered "ok" only when it and all before it are stored, for
\* files of any length and requests that arrive twice or late.
THEOREM AnswersAreTrue == Spec => AnsweredIsStored
<1> DEFINE A == \A c \in Calls : stage[c] # "ok" /\ stage'[c] = "ok"
                  => 0 .. c.chunk \subseteq remote'[c.upload]
<1>1. IInv /\ [Next]_vars => A
  <2> SUFFICES ASSUME IInv, [Next]_vars, NEW c \in Calls,
                      stage[c] # "ok", stage'[c] = "ok"
               PROVE  0 .. c.chunk \subseteq remote'[c.upload]
    OBVIOUS
  <2>1. PICK w \in DOMAIN pool : Write(w)
    <3> USE DEF IInv, TypeOK
    <3>1. ~ UNCHANGED vars
      BY DEF vars
    <3>2. ASSUME NEW u \in Uploads
          PROVE  ~ (StartFile(u) \/ NextChunk(u) \/ GiveUp(u) \/ Duplicate(u))
      BY DEF StartFile, NextChunk, GiveUp, Duplicate
    <3>3. ASSUME NEW d \in Calls
          PROVE  ~ (Find(d) \/ Enqueue(d) \/ StartThread(d))
      <4>1. ~ Find(d)
        BY DEF Find
      <4>2. ~ Enqueue(d)
        BY DEF Enqueue
      <4>3. ~ StartThread(d)
        BY DEF StartThread
      <4> QED
        BY <4>1, <4>2, <4>3
    <3>4. ASSUME NEW w \in DOMAIN pool, Thread(w)
          PROVE  Write(w)
      BY <3>4 DEF Thread, OpenFile, Fails, Take, WriteFails, Drain, Finish
    <3> HIDE DEF IInv, TypeOK
    <3> QED
      BY <3>1, <3>2, <3>3, <3>4 DEF Next
  <2> DEFINE q == pool[w].chunks
             n == pool[w].next
             u == pool[w].upload
  <2>2. /\ pool[w].state = "writing" /\ q # <<>> /\ q \in Seq(Calls)
        /\ n \in Nat /\ u \in Uploads
    BY <2>1, WorkerTyped DEF Write, IInv, Placed
  <2>3. c = Head(q)
    BY <2>1 DEF Write, IInv, TypeOK
  <2>4. c = q[1] /\ Len(q) \in Nat \ {0} /\ 1 \in 1 .. Len(q)
    BY <2>2, <2>3
  <2>5. InOrder(pool[w], remote[u])
    BY DEF IInv, Ordered
  <2>6. /\ c.upload = u /\ c.chunk = n - Len(q) /\ Len(q) <= n
        /\ 0 .. n - Len(q) - 1 \subseteq remote[u]
    <3>1. c.upload = u /\ c.chunk = n - Len(q) + 1 - 1
      BY <2>4, <2>5 DEF InOrder
    <3> QED
      BY <2>2, <2>4, <2>5, <3>1 DEF InOrder
  <2>7. remote'[u] = remote[u] \cup {c.chunk}
    BY <2>1, <2>2, <2>3, <2>6 DEF Write, Stored, IInv, TypeOK
  <2>8. 0 .. c.chunk \subseteq (0 .. n - Len(q) - 1) \cup {c.chunk}
    BY <2>2, <2>4, <2>6
  <2> QED
    BY <2>6, <2>7, <2>8
<1>2. Spec => [][A]_vars
  BY <1>1, InvariantHolds, PTL DEF Spec
<1> QED
  BY <1>2 DEF AnsweredIsStored
-----------------------------------------------------------------------------
(* Every request waits in one place *)

\* The chunks a file has yet to ask for were never sent.
Unasked ==
  \A u \in Uploads :
    /\ status[u] = "queued" => asked[u] = 0 /\ stage[Call(u, 0)] = "none"
    /\ \A k \in Chunks : k > asked[u] => stage[Call(u, k)] = "none"

Waits(c) == stage[c] \in {"starts", "queued"}

\* The chunks in a queue are those of the requests that wait for the worker.
Held ==
  /\ \A w \in DOMAIN pool : \A i \in 1 .. Len(pool[w].chunks) :
       Waits(pool[w].chunks[i]) /\ holds[pool[w].chunks[i]] = w
  /\ \A c \in Calls : Waits(c) =>
       /\ holds[c] \in DOMAIN pool
       /\ \E i \in 1 .. Len(pool[holds[c]].chunks) : pool[holds[c]].chunks[i] = c

\* A worker thread answers requests that wait for it.
LEMMA ThreadAnswers ==
  ASSUME IInv, Held, NEW w \in DOMAIN pool, Thread(w)
  PROVE  /\ UNCHANGED <<tabVars, holds>>
         /\ \A c \in Calls : stage'[c] # stage[c] => Waits(c)
<1> USE DEF Waits, IInv, TypeOK
<1>1. CASE OpenFile(w) \/ Fails(w) \/ Take(w) \/ Finish(w)
  BY <1>1 DEF OpenFile, Fails, Take, Finish
<1>2. CASE Write(w) \/ WriteFails(w)
  <2>1. pool[w].chunks # <<>> /\ pool[w].chunks \in Seq(Calls)
    BY <1>2, WorkerTyped DEF Write, WriteFails, Placed
  <2>2. Head(pool[w].chunks) = pool[w].chunks[1] /\ 1 \in 1 .. Len(pool[w].chunks)
    BY <2>1
  <2>3. Waits(pool[w].chunks[1])
    BY <2>2 DEF Held
  <2>4. \A c \in Calls : stage'[c] # stage[c] => c = Head(pool[w].chunks)
    BY <1>2 DEF Write, WriteFails
  <2> QED
    BY <1>2, <2>2, <2>3, <2>4 DEF Write, WriteFails
<1>3. CASE Drain(w)
  <2>1. \A c \in Calls : stage'[c] # stage[c] => c \in LeftOver(w)
    BY <1>3 DEF Drain
  <2>2. pool[w].chunks \in Seq(Calls)
    BY WorkerTyped
  <2>3. ASSUME NEW c \in LeftOver(w)
        PROVE  Waits(c)
    <3> HIDE DEF Waits, IInv, TypeOK
    <3>1. PICK i \in DOMAIN pool[w].chunks : c = pool[w].chunks[i]
      BY DEF LeftOver
    <3>2. i \in 1 .. Len(pool[w].chunks)
      BY <2>2, <3>1
    <3> QED
      BY <3>1, <3>2 DEF Held
  <2> QED
    BY <1>3, <2>1, <2>3 DEF Drain
<1> QED
  BY <1>1, <1>2, <1>3 DEF Thread

\* The tab asks for one chunk after the other, and only the tab sends them.
LEMMA UnaskedStep ==
  ASSUME IInv, Held, ConstantsAssumption, Unasked, [Next]_vars
  PROVE  Unasked'
<1> USE DEF Waits, IInv, TypeOK
<1>1. \A u \in Uploads, k \in Chunks : Call(u, k) \in Calls
  BY DEF Call, Calls
<1>2. \A u, v \in Uploads, k, l \in Chunks : Call(u, k) = Call(v, l) => u = v /\ k = l
  BY DEF Call
<1>3. 0 \in Chunks /\ \A k \in Chunks : k \in Nat
  BY DEF Chunks, ConstantsAssumption
<1>4. ASSUME NEW u \in Uploads, StartFile(u)
      PROVE  Unasked'
  <2>1. /\ status[u] = "queued" /\ status' = [status EXCEPT ![u] = "uploading"]
        /\ stage' = [stage EXCEPT ![Call(u, 0)] = "sent"] /\ asked' = asked
    BY <1>4 DEF StartFile
  <2> QED
    BY <1>1, <1>2, <1>3, <2>1 DEF Unasked
<1>5. ASSUME NEW u \in Uploads, NextChunk(u)
      PROVE  Unasked'
  <2>1. CASE asked[u] + 1 = FileChunks
    BY <1>5, <2>1 DEF NextChunk, Unasked
  <2>2. CASE asked[u] + 1 # FileChunks
    <3>1. /\ status[u] = "uploading" /\ status' = status
          /\ asked' = [asked EXCEPT ![u] = asked[u] + 1]
          /\ stage' = [stage EXCEPT ![Call(u, asked[u] + 1)] = "sent"]
      BY <1>5, <2>2 DEF NextChunk
    <3>2. asked[u] \in Nat /\ asked[u] + 1 \in Chunks
      BY <2>2 DEF Chunks, ConstantsAssumption
    <3>3. \A v \in Uploads, k \in Chunks :
            v # u \/ k > asked[u] + 1 =>
              stage'[Call(v, k)] = stage[Call(v, k)]
      <4>1. \A v \in Uploads, k \in Chunks :
              v # u \/ k > asked[u] + 1 => Call(v, k) # Call(u, asked[u] + 1)
        BY <1>2, <1>3, <3>2
      <4> QED
        BY <1>1, <3>1, <4>1
    <3>4. asked'[u] = asked[u] + 1 /\ \A v \in Uploads : v # u => asked'[v] = asked[v]
      BY <3>1
    <3>5. \A v \in Uploads : status'[v] = "queued" =>
            asked'[v] = 0 /\ stage'[Call(v, 0)] = "none"
      BY <1>3, <3>1, <3>3, <3>4 DEF Unasked
    <3>6. \A k \in Chunks : k > asked[u] + 1 => k > asked[u]
      BY <1>3, <3>2
    <3>7. \A v \in Uploads, k \in Chunks :
            k > asked'[v] => stage'[Call(v, k)] = "none"
      <4> SUFFICES ASSUME NEW v \in Uploads, NEW k \in Chunks, k > asked'[v]
                   PROVE  stage'[Call(v, k)] = "none"
        OBVIOUS
      <4>1. stage'[Call(v, k)] = stage[Call(v, k)] /\ k > asked[v]
        BY <3>3, <3>4, <3>6
      <4> QED
        BY <4>1 DEF Unasked
    <3> QED
      BY <3>5, <3>7 DEF Unasked
  <2> QED
    BY <2>1, <2>2
<1>6. ASSUME NEW u \in Uploads, GiveUp(u)
      PROVE  Unasked'
  BY <1>6 DEF GiveUp, Unasked
<1>7. ASSUME NEW u \in Uploads, Duplicate(u)
      PROVE  Unasked'
  <2> DEFINE again == [Call(u, asked[u]) EXCEPT !.copy = "second"]
  <2>1. \A v \in Uploads, k \in Chunks : Call(v, k) # again
    BY DEF Call
  <2>2. stage' = [stage EXCEPT ![again] = "sent"] /\ UNCHANGED tabVars
    BY <1>7 DEF Duplicate
  <2> HIDE DEF again
  <2> QED
    BY <1>1, <1>3, <2>1, <2>2 DEF Unasked, tabVars
<1>8. ASSUME UNCHANGED tabVars,
             \A c \in Calls : stage[c] = "none" => stage'[c] = "none"
      PROVE  Unasked'
  BY <1>1, <1>3, <1>8 DEF Unasked, tabVars
<1>9. ASSUME NEW c \in Calls, Find(c) \/ Enqueue(c) \/ StartThread(c)
      PROVE  Unasked'
  <2>1. /\ UNCHANGED tabVars
        /\ \A d \in Calls : stage[d] = "none" => stage'[d] = "none"
    BY <1>9 DEF Find, Enqueue, StartThread
  <2> QED
    BY <1>8, <2>1
<1>10. ASSUME NEW w \in DOMAIN pool, Thread(w)
       PROVE  Unasked'
  <2>1. UNCHANGED tabVars /\ \A d \in Calls : stage'[d] # stage[d] => Waits(d)
    BY <1>10, ThreadAnswers
  <2> QED
    BY <1>8, <2>1 DEF Waits
<1>11. CASE UNCHANGED vars
  BY <1>8, <1>11 DEF vars, tabVars
<1> QED
  BY <1>4, <1>5, <1>6, <1>7, <1>9, <1>10, <1>11 DEF Next

\* A step that neither queues nor answers a chunk.
LEMMA HeldFrame ==
  ASSUME TypeOK, Held, DOMAIN pool \subseteq DOMAIN pool',
         \A w \in DOMAIN pool : pool'[w].chunks = pool[w].chunks,
         \A w \in DOMAIN pool' \ DOMAIN pool : pool'[w].chunks = <<>>,
         \A c \in Calls : Waits(c)' <=> Waits(c),
         \A c \in Calls : Waits(c) => holds'[c] = holds[c]
  PROVE  Held'
<1> USE DEF Waits
<1>1. \A w \in DOMAIN pool : pool[w].chunks \in Seq(Calls)
  BY WorkerTyped
<1>2. ASSUME NEW w \in DOMAIN pool', NEW i \in 1 .. Len(pool'[w].chunks)
      PROVE  /\ stage'[pool'[w].chunks[i]] \in {"starts", "queued"}
             /\ holds'[pool'[w].chunks[i]] = w
  <2>1. w \in DOMAIN pool
    BY <1>2
  <2>2. pool[w].chunks[i] \in Calls /\ i \in 1 .. Len(pool[w].chunks)
    BY <1>1, <1>2, <2>1
  <2>3. Waits(pool[w].chunks[i]) /\ holds[pool[w].chunks[i]] = w
    BY <2>1, <2>2 DEF Held
  <2> QED
    BY <2>1, <2>2, <2>3
<1>3. ASSUME NEW c \in Calls, Waits(c)'
      PROVE  /\ holds'[c] \in DOMAIN pool'
             /\ \E i \in 1 .. Len(pool'[holds'[c]].chunks) :
                  pool'[holds'[c]].chunks[i] = c
  BY <1>3 DEF Held
<1> QED
  BY <1>2, <1>3 DEF Held

\* The tab and the network send requests that wait nowhere.
LEMMA HeldByTab ==
  ASSUME IInv, ConstantsAssumption, Unasked, Held, NEW u \in Uploads,
         StartFile(u) \/ NextChunk(u) \/ GiveUp(u) \/ Duplicate(u)
  PROVE  Held'
<1> USE DEF Waits, IInv
<1>1. pool' = pool /\ holds' = holds
  BY DEF StartFile, NextChunk, GiveUp, Duplicate
<1>2. \A c \in Calls :
        stage'[c] = stage[c] \/ (stage[c] = "none" /\ stage'[c] = "sent")
  <2>1. CASE StartFile(u)
    BY <2>1 DEF StartFile, Unasked, TypeOK
  <2>2. CASE NextChunk(u)
    <3>1. CASE asked[u] + 1 = FileChunks
      BY <2>2, <3>1 DEF NextChunk
    <3>2. CASE asked[u] + 1 # FileChunks
      <4>1. asked[u] + 1 \in Chunks /\ asked[u] + 1 > asked[u]
        BY <3>2 DEF Chunks, ConstantsAssumption, TypeOK
      <4>2. stage[Call(u, asked[u] + 1)] = "none"
        BY <4>1 DEF Unasked
      <4> QED
        BY <2>2, <3>2, <4>2 DEF NextChunk, TypeOK
    <3> QED
      BY <3>1, <3>2
  <2>3. CASE GiveUp(u)
    BY <2>3 DEF GiveUp
  <2>4. CASE Duplicate(u)
    BY <2>4 DEF Duplicate, TypeOK
  <2> QED
    BY <2>1, <2>2, <2>3, <2>4
<1> QED
  BY <1>1, <1>2, HeldFrame DEF Waits

\* A request looks for its worker; one that has just been made has no chunks.
LEMMA HeldByFind ==
  ASSUME IInv, Held, NEW c \in Calls, Find(c)
  PROVE  Held'
<1> USE DEF Waits, IInv
<1>1. stage[c] = "sent"
      /\ \E x \in {"finds", "founds", "error", "refused"} :
           stage' = [stage EXCEPT ![c] = x]
  BY DEF Find
<1>2. \A d \in Calls : d # c => holds'[d] = holds[d]
  BY DEF Find, TypeOK
<1>3. \A d \in Calls : (Waits(d)' <=> Waits(d)) /\ (Waits(d) => d # c)
  BY <1>1 DEF Waits, TypeOK
<1>4. pool' = pool \/ pool' = Append(pool, NewWorker(c.upload))
  BY DEF Find
<1>5. pool \in Seq(WorkerType) /\ NewWorker(c.upload).chunks = <<>>
  BY DEF TypeOK, NewWorker
<1>6. /\ DOMAIN pool \subseteq DOMAIN pool'
      /\ \A w \in DOMAIN pool : pool'[w].chunks = pool[w].chunks
      /\ \A w \in DOMAIN pool' \ DOMAIN pool : pool'[w].chunks = <<>>
  BY <1>4, <1>5
<1> QED
  BY <1>2, <1>3, <1>6, HeldFrame

\* A chunk is queued behind the others of its worker, or its request fails.
LEMMA HeldByEnqueue ==
  ASSUME IInv, ConstantsAssumption, Held, NEW c \in Calls, Enqueue(c)
  PROVE  Held'
<1> USE DEF Waits, IInv
<1> DEFINE w == holds[c]
<1>1. /\ w \in DOMAIN pool /\ stage[c] \in {"finds", "founds"} /\ holds' = holds
  BY DEF Enqueue, Placed, TypeOK
<1>2. CASE stage' = [stage EXCEPT ![c] = "error"] /\ UNCHANGED pool
  BY <1>1, <1>2, HeldFrame DEF Waits, TypeOK
<1>3. CASE /\ ~Finished(w) /\ InSequence(c)
           /\ pool' = [pool EXCEPT ![w].next = @ + 1, ![w].chunks = Append(@, c)]
           /\ stage' = [stage EXCEPT ![c] =
                          IF @ = "founds" THEN "starts" ELSE "queued"]
  <2> DEFINE q == pool[w].chunks
  <2>1. Changed(w, pool[w].next + 1, Append(q, c), pool[w].state)
    BY <1>1, <1>3, ChangeAppend DEF TypeOK, InSequence
  <2>2. \A v \in DOMAIN pool : pool[v].chunks \in Seq(Calls)
    BY WorkerTyped
  <2>3. /\ Len(Append(q, c)) = Len(q) + 1 /\ Len(q) \in Nat
        /\ \A i \in 1 .. Len(q) : Append(q, c)[i] = q[i]
        /\ Append(q, c)[Len(q) + 1] = c
    BY <1>1, <2>2
  <2>4. Waits(c)' /\ ~Waits(c) /\ \A d \in Calls : d # c => (Waits(d)' <=> Waits(d))
    BY <1>1, <1>3 DEF Waits, TypeOK
  <2>5. ASSUME NEW v \in DOMAIN pool', NEW i \in 1 .. Len(pool'[v].chunks)
        PROVE  /\ stage'[pool'[v].chunks[i]] \in {"starts", "queued"}
               /\ holds'[pool'[v].chunks[i]] = v
    <3>1. CASE v # w
      <4>1. v \in DOMAIN pool /\ pool'[v] = pool[v]
        BY <2>1, <3>1 DEF Changed
      <4>2. Waits(pool[v].chunks[i]) /\ holds[pool[v].chunks[i]] = v
        BY <2>5, <4>1 DEF Held
      <4>3. pool[v].chunks[i] \in Calls
        BY <2>2, <2>5, <4>1
      <4> QED
        BY <1>1, <2>4, <4>1, <4>2, <4>3
    <3>2. CASE v = w
      <4>1. pool'[v].chunks = Append(q, c)
        BY <2>1, <3>2 DEF Changed
      <4>2. CASE i = Len(q) + 1
        BY <1>1, <2>3, <2>4, <3>2, <4>1, <4>2
      <4>3. CASE i # Len(q) + 1
        <5>1. i \in 1 .. Len(q) /\ pool'[v].chunks[i] = q[i]
          BY <2>3, <2>5, <4>1, <4>3
        <5>2. Waits(q[i]) /\ holds[q[i]] = w /\ q[i] \in Calls
          BY <1>1, <2>2, <5>1 DEF Held
        <5> QED
          BY <1>1, <2>4, <3>2, <5>1, <5>2
      <4> QED
        BY <4>2, <4>3
    <3> QED
      BY <3>1, <3>2
  <2>6. ASSUME NEW d \in Calls, Waits(d)'
        PROVE  /\ holds'[d] \in DOMAIN pool'
               /\ \E i \in 1 .. Len(pool'[holds'[d]].chunks) :
                    pool'[holds'[d]].chunks[i] = d
    <3>1. CASE d = c
      <4>1. pool'[w].chunks = Append(q, c) /\ w \in DOMAIN pool'
        BY <1>1, <2>1 DEF Changed
      <4>2. Len(q) + 1 \in 1 .. Len(pool'[w].chunks)
        BY <2>3, <4>1
      <4> QED
        BY <1>1, <2>3, <3>1, <4>1, <4>2
    <3>2. CASE d # c
      <4>1. Waits(d)
        BY <2>4, <2>6, <3>2
      <4>2. holds[d] \in DOMAIN pool
        BY <4>1 DEF Held
      <4>3. PICK i \in 1 .. Len(pool[holds[d]].chunks) : pool[holds[d]].chunks[i] = d
        BY <4>1 DEF Held
      <4>4. CASE holds[d] = w
        <5>1. pool'[w].chunks = Append(q, c)
          BY <2>1 DEF Changed
        <5>2. i \in 1 .. Len(pool'[w].chunks) /\ pool'[w].chunks[i] = d
          BY <2>3, <4>3, <4>4, <5>1
        <5> QED
          BY <1>1, <2>1, <4>4, <5>2 DEF Changed
      <4>5. CASE holds[d] # w
        BY <1>1, <2>1, <4>2, <4>3, <4>5 DEF Changed
      <4> QED
        BY <4>4, <4>5
    <3> QED
      BY <3>1, <3>2
  <2> QED
    BY <2>5, <2>6 DEF Held
<1> QED
  BY <1>2, <1>3 DEF Enqueue

\* The request goes on waiting when the thread has started.
LEMMA HeldByStart ==
  ASSUME IInv, Held, NEW c \in Calls, StartThread(c)
  PROVE  Held'
<1> USE DEF Waits, IInv
<1>1. /\ stage[c] = "starts" /\ stage' = [stage EXCEPT ![c] = "queued"]
      /\ holds' = holds /\ holds[c] \in DOMAIN pool
      /\ pool' = [pool EXCEPT ![holds[c]].state = "opening"]
  BY DEF StartThread, Placed, TypeOK
<1>2. Changed(holds[c], pool[holds[c]].next, pool[holds[c]].chunks, "opening")
  BY <1>1, ChangeState DEF TypeOK, WorkerStates
<1> QED
  BY <1>1, <1>2, HeldFrame DEF Changed, Waits, TypeOK

\* Two places of one queue hold different chunks.
LEMMA PlacesDiffer ==
  ASSUME TypeOK, Ordered, NEW w \in DOMAIN pool,
         NEW i \in 1 .. Len(pool[w].chunks), NEW j \in 1 .. Len(pool[w].chunks),
         pool[w].chunks[i] = pool[w].chunks[j]
  PROVE  i = j
<1>1. InOrder(pool[w], remote[pool[w].upload])
  BY DEF Ordered
<1>2. pool[w].next \in Nat /\ Len(pool[w].chunks) \in Nat
  BY WorkerTyped
<1>3. pool[w].next - Len(pool[w].chunks) + i - 1
        = pool[w].next - Len(pool[w].chunks) + j - 1
  BY <1>1 DEF InOrder
<1> QED
  BY <1>2, <1>3

\* The chunk that is answered is the first in the queue, and nowhere else.
LEMMA HeldByWrite ==
  ASSUME IInv, ConstantsAssumption, Held, NEW w \in DOMAIN pool,
         Write(w) \/ WriteFails(w)
  PROVE  Held'
<1> USE DEF Waits, IInv
<1> DEFINE q == pool[w].chunks
           c == Head(q)
<1>1. /\ q # <<>> /\ holds' = holds
      /\ \A v \in DOMAIN pool : pool[v].chunks \in Seq(Calls)
  BY WorkerTyped DEF Write, WriteFails, Placed
<1>2. /\ c = q[1] /\ c \in Calls /\ 1 \in 1 .. Len(q) /\ Len(q) \in Nat
      /\ Len(Tail(q)) = Len(q) - 1 /\ Tail(q) \in Seq(Calls)
      /\ \A i \in 1 .. Len(Tail(q)) : Tail(q)[i] = q[i + 1]
  BY <1>1
<1>3. /\ DOMAIN pool' = DOMAIN pool /\ pool'[w].chunks = Tail(q)
      /\ \A v \in DOMAIN pool : v # w => pool'[v] = pool[v]
  <2>1. CASE Write(w)
    <3>1. Changed(w, pool[w].next, Tail(q), AfterWrite(c))
      BY <1>2, <2>1, ChangeQueue DEF Write, TypeOK, AfterWrite, WorkerStates
    <3> QED
      BY <3>1 DEF Changed
  <2>2. CASE WriteFails(w)
    <3>1. Changed(w, pool[w].next, Tail(q), "closing")
      BY <1>2, <2>2, ChangeQueue DEF WriteFails, TypeOK, WorkerStates
    <3> QED
      BY <3>1 DEF Changed
  <2> QED
    BY <2>1, <2>2
<1>4. /\ holds[c] = w /\ stage'[c] \notin {"starts", "queued"}
      /\ \A d \in Calls : d # c => stage'[d] = stage[d]
  <2>1. holds[q[1]] = w
    BY <1>2 DEF Held
  <2>2. CASE Write(w)
    BY <1>2, <2>1, <2>2 DEF Write, TypeOK
  <2>3. CASE WriteFails(w)
    BY <1>2, <2>1, <2>3 DEF WriteFails, TypeOK
  <2> QED
    BY <2>2, <2>3
<1>5. ASSUME NEW v \in DOMAIN pool', NEW i \in 1 .. Len(pool'[v].chunks)
      PROVE  /\ stage'[pool'[v].chunks[i]] \in {"starts", "queued"}
             /\ holds'[pool'[v].chunks[i]] = v
  <2>1. CASE v # w
    <3>1. v \in DOMAIN pool /\ pool'[v] = pool[v]
      BY <1>3, <2>1
    <3>2. /\ Waits(pool[v].chunks[i]) /\ holds[pool[v].chunks[i]] = v
          /\ pool[v].chunks[i] \in Calls
      BY <1>1, <1>5, <3>1 DEF Held
    <3> QED
      BY <1>1, <1>4, <2>1, <3>1, <3>2
  <2>2. CASE v = w
    <3>1. i \in 1 .. Len(Tail(q)) /\ pool'[v].chunks = Tail(q)
      BY <1>3, <1>5, <2>2
    <3> HIDE DEF q
    <3>2. pool'[v].chunks[i] = q[i + 1] /\ i + 1 \in 1 .. Len(q) /\ i + 1 # 1
      BY <1>2, <3>1
    <3>3. Waits(q[i + 1]) /\ holds[q[i + 1]] = w /\ q[i + 1] \in Calls
      BY <1>1, <3>2 DEF Held, q
    <3>4. q[i + 1] # c
      <4>1. q[i + 1] # q[1]
        BY <1>2, <3>2, PlacesDiffer DEF q
      <4> QED
        BY <1>2, <4>1
    <3> QED
      BY <1>1, <1>4, <2>2, <3>2, <3>3, <3>4
  <2> QED
    BY <2>1, <2>2
<1>6. ASSUME NEW d \in Calls, Waits(d)'
      PROVE  /\ holds'[d] \in DOMAIN pool'
             /\ \E i \in 1 .. Len(pool'[holds'[d]].chunks) :
                  pool'[holds'[d]].chunks[i] = d
  <2>1. d # c /\ Waits(d)
    BY <1>4, <1>6
  <2>2. holds[d] \in DOMAIN pool
    BY <2>1 DEF Held
  <2>3. PICK i \in 1 .. Len(pool[holds[d]].chunks) : pool[holds[d]].chunks[i] = d
    BY <2>1 DEF Held
  <2>4. CASE holds[d] = w
    <3>1. i # 1 /\ i - 1 \in 1 .. Len(Tail(q)) /\ (i - 1) + 1 = i
      BY <1>2, <2>1, <2>3, <2>4
    <3>2. Tail(q)[i - 1] = d
      BY <1>2, <2>3, <2>4, <3>1
    <3> QED
      BY <1>1, <1>3, <2>4, <3>1, <3>2
  <2>5. CASE holds[d] # w
    BY <1>1, <1>3, <2>2, <2>3, <2>5
  <2> QED
    BY <2>4, <2>5
<1> QED
  BY <1>5, <1>6 DEF Held

\* At the end all that wait for the worker are answered.
LEMMA HeldByDrain ==
  ASSUME IInv, Held, NEW w \in DOMAIN pool, Drain(w)
  PROVE  Held'
<1> USE DEF Waits, IInv
<1>1. holds' = holds /\ \A v \in DOMAIN pool : pool[v].chunks \in Seq(Calls)
  BY WorkerTyped DEF Drain
<1>2. Changed(w, pool[w].next, <<>>, "drained")
  <2>1. <<>> \in Seq(Calls) /\ "drained" \in WorkerStates /\ pool \in Seq(WorkerType)
    BY DEF WorkerStates, TypeOK
  <2>2. pool' = [pool EXCEPT ![w].chunks = <<>>, ![w].state = "drained"]
    BY DEF Drain
  <2> QED
    BY <2>1, <2>2, ChangeQueue
<1>3. \A d \in Calls : d \in LeftOver(w) <=> Waits(d) /\ holds[d] = w
  BY <1>1 DEF LeftOver, Held
<1>4. \A d \in Calls : Waits(d)' <=> Waits(d) /\ holds[d] # w
  <2>1. \A d \in Calls : stage'[d] = IF d \in LeftOver(w) THEN "error" ELSE stage[d]
    BY DEF Drain
  <2> QED
    BY <1>3, <2>1 DEF Waits
<1>5. ASSUME NEW v \in DOMAIN pool', NEW i \in 1 .. Len(pool'[v].chunks)
      PROVE  /\ stage'[pool'[v].chunks[i]] \in {"starts", "queued"}
             /\ holds'[pool'[v].chunks[i]] = v
  <2>1. v # w /\ v \in DOMAIN pool /\ pool'[v] = pool[v]
    BY <1>2, <1>5 DEF Changed
  <2>2. /\ Waits(pool[v].chunks[i]) /\ holds[pool[v].chunks[i]] = v
        /\ pool[v].chunks[i] \in Calls
    BY <1>1, <1>5, <2>1 DEF Held
  <2> QED
    BY <1>1, <1>4, <2>1, <2>2
<1>6. ASSUME NEW d \in Calls, Waits(d)'
      PROVE  /\ holds'[d] \in DOMAIN pool'
             /\ \E i \in 1 .. Len(pool'[holds'[d]].chunks) :
                  pool'[holds'[d]].chunks[i] = d
  <2>1. Waits(d) /\ holds[d] # w
    BY <1>4, <1>6
  <2> QED
    BY <1>1, <1>2, <2>1 DEF Held, Changed
<1> QED
  BY <1>5, <1>6 DEF Held

\* The other steps of a worker thread leave its queue alone.
LEMMA HeldByOther ==
  ASSUME IInv, Held, NEW w \in DOMAIN pool,
         OpenFile(w) \/ Fails(w) \/ Take(w) \/ Finish(w)
  PROVE  Held'
<1> USE DEF Waits, IInv
<1>1. stage' = stage /\ holds' = holds
  BY DEF OpenFile, Fails, Take, Finish
<1>2. PICK s \in WorkerStates : pool' = [pool EXCEPT ![w].state = s]
  BY DEF OpenFile, Fails, Take, Finish, Goes, WorkerStates
<1>3. Changed(w, pool[w].next, pool[w].chunks, s)
  BY <1>2, ChangeState DEF TypeOK
<1> QED
  BY <1>1, <1>3, HeldFrame DEF Changed, Waits

\* Every step keeps the requests in their queues.
LEMMA HeldStep ==
  ASSUME IInv, ConstantsAssumption, Unasked, Held, [Next]_vars
  PROVE  Held'
<1>1. CASE \E u \in Uploads : StartFile(u) \/ NextChunk(u) \/ GiveUp(u) \/ Duplicate(u)
  BY <1>1, HeldByTab
<1>2. CASE \E c \in Calls : Find(c) \/ Enqueue(c) \/ StartThread(c)
  BY <1>2, HeldByFind, HeldByEnqueue, HeldByStart
<1>3. CASE \E w \in DOMAIN pool : Thread(w)
  BY <1>3, HeldByOther, HeldByWrite, HeldByDrain DEF Thread
<1>4. CASE UNCHANGED vars
  BY <1>4 DEF vars, Held, Waits
<1> QED
  BY <1>1, <1>2, <1>3, <1>4 DEF Next

\* A request that waits is in one place, and the others are in none.
LEMMA HeldIsOnce ==
  ASSUME IInv, Held
  PROVE  HeldOnce
<1> USE DEF Waits, IInv
<1>1. SUFFICES ASSUME NEW c \in Calls
               PROVE  Cardinality(Places(c)) =
                        IF stage[c] \in {"starts", "queued"} THEN 1 ELSE 0
  BY DEF HeldOnce
<1>2. \A w \in DOMAIN pool :
        /\ pool[w].chunks \in Seq(Calls)
        /\ Len(pool[w].chunks) \in Nat /\ Len(pool[w].chunks) <= FileChunks
        /\ DOMAIN pool[w].chunks = 1 .. Len(pool[w].chunks)
  <2> SUFFICES ASSUME NEW w \in DOMAIN pool
               PROVE  /\ pool[w].chunks \in Seq(Calls)
                      /\ Len(pool[w].chunks) \in Nat
                      /\ Len(pool[w].chunks) <= FileChunks
                      /\ DOMAIN pool[w].chunks = 1 .. Len(pool[w].chunks)
    OBVIOUS
  <2>1. pool[w].chunks \in Seq(Calls) /\ pool[w].next \in 0 .. FileChunks
    BY WorkerTyped
  <2>2. Len(pool[w].chunks) <= pool[w].next
    BY DEF Ordered, InOrder
  <2> QED
    BY <2>1, <2>2, ConstantsAssumption DEF ConstantsAssumption
<1>3. \A p \in Places(c) :
        /\ p = <<p[1], p[2]>> /\ p[1] \in DOMAIN pool
        /\ p[2] \in 1 .. Len(pool[p[1]].chunks) /\ pool[p[1]].chunks[p[2]] = c
  BY <1>2 DEF Places
<1>4. \A p \in Places(c) : Waits(c) /\ p[1] = holds[c]
  BY <1>3 DEF Held
<1>5. CASE Waits(c)
  <2>1. holds[c] \in DOMAIN pool
    BY <1>5 DEF Held
  <2>2. PICK i \in 1 .. Len(pool[holds[c]].chunks) : pool[holds[c]].chunks[i] = c
    BY <1>5 DEF Held
  <2>3. i \in 1 .. FileChunks
    BY <1>2, <2>1, <2>2, ConstantsAssumption DEF ConstantsAssumption
  <2>4. <<holds[c], i>> \in Places(c)
    BY <1>2, <2>1, <2>2, <2>3 DEF Places
  <2>5. \A p \in Places(c) : p = <<holds[c], i>>
    <3> SUFFICES ASSUME NEW p \in Places(c) PROVE p = <<holds[c], i>>
      OBVIOUS
    <3>1. p = <<p[1], p[2]>> /\ p[1] = holds[c]
      BY <1>3, <1>4
    <3>2. p[2] = i
      BY <1>3, <2>1, <2>2, <3>1, PlacesDiffer
    <3> QED
      BY <3>1, <3>2
  <2>6. Places(c) = {<<holds[c], i>>}
    BY <2>4, <2>5
  <2> QED
    BY <1>5, <2>6, FS_Singleton DEF Waits
<1>6. CASE ~Waits(c)
  <2>1. Places(c) = {}
    BY <1>4, <1>6
  <2> QED
    BY <1>6, <2>1, FS_EmptySet DEF Waits
<1> QED
  BY <1>5, <1>6

\* Every request waits in one place of one worker until it is answered, and is
\* then in none: no HTTP callback is called twice or dropped, for every number
\* of files, chunks and repeated requests.
THEOREM RequestsHeldOnce == Spec => []HeldOnce
<1>1. ConstantsAssumption
  BY ConstantsAssumption
<1>2. Init => Unasked /\ Held
  <2> SUFFICES ASSUME Init PROVE Unasked /\ Held
    OBVIOUS
  <2>1. \A u \in Uploads, k \in Chunks : Call(u, k) \in Calls
    BY DEF Call, Calls
  <2>2. 0 \in Chunks
    BY <1>1 DEF Chunks, ConstantsAssumption
  <2>3. Unasked
    BY <2>1, <2>2 DEF Init, Unasked
  <2>4. Held
    BY DEF Init, Held, Waits
  <2> QED
    BY <2>3, <2>4
<1>3. IInv /\ Unasked /\ Held /\ [Next]_vars => Unasked' /\ Held'
  BY <1>1, UnaskedStep, HeldStep
<1>4. IInv /\ Held => HeldOnce
  BY HeldIsOnce
<1> QED
  BY <1>2, <1>3, <1>4, InvariantHolds, PTL DEF Spec
=============================================================================
