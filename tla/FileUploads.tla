------------------------------ MODULE FileUploads ------------------------------
(***************************************************************************)
(* Uploads of the file manager (WriteUploadChunk in                        *)
(* files/file_manager_service.cpp and uploadLocalFile in api.ts).  A file  *)
(* comes in chunks, one request each, which are appended to a file of the  *)
(* upload; the last one renames it to the destination.  No lock is held:   *)
(* every step on the file system can meet those of another request.        *)
(*                                                                         *)
(* The stream a chunk is written to is tested before it is closed: what it *)
(* still had in its buffer can get lost in closing without being noticed.  *)
(*                                                                         *)
(* All uploads have the same destination.  A browser repeats a request     *)
(* whose connection is reset before the answer, so a chunk may arrive a    *)
(* second time, at once or late.                                           *)
(***************************************************************************)
EXTENDS Integers, Sequences, FiniteSets

CONSTANTS
  LocalUploads,  \* upload ids
  LocalChunks,   \* chunks of a file
  MaxRepeats     \* bound: requests that arrive a second time

ASSUME UploadAssumption == LocalChunks \in Nat

VARIABLES
  tab,         \* an upload in the tab: sending, done or error
  sentChunks,  \* chunks of it that were answered
  visit,       \* where a request is: absent, new, empty, fits, stored, ready, yes, no
  partFile,    \* the temporary file of an upload, or NoPart
  published,   \* the destination: the upload and its chunks, or NoPart
  raced,       \* history: uploads whose file changed under another request
  unnoticed    \* history: uploads that lost the end of a chunk in closing

uploadVars == <<tab, sentChunks, visit, partFile, published, raced, unnoticed>>
marks == <<raced, unnoticed>>

Arrivals == [upload : LocalUploads, chunk : 1 .. LocalChunks, copy : {1, 2}]
NoPart == [of |-> {}, chunks |-> <<>>]
CutShort == 0  \* the piece a chunk leaves that was not written to its end

UploadInit ==
  /\ tab = [u \in LocalUploads |-> "sending"]
  /\ sentChunks = [u \in LocalUploads |-> 0]
  /\ visit = [r \in Arrivals |-> "absent"]
  /\ partFile = [u \in LocalUploads |-> NoPart]
  /\ published = NoPart
  /\ raced = {} /\ unnoticed = {}

Moved(r, from, to) == visit[r] = from /\ visit' = [visit EXCEPT ![r] = to]

\* A request that has tested the size, or appended, goes by what it saw.
Relies(r) == visit[r] \in {"fits", "stored", "ready"}

\* The temporary file changes, perhaps under another request.
Changes(r, part) ==
  /\ partFile' = [partFile EXCEPT ![r.upload] = part]
  /\ raced' = IF \E o \in Arrivals \ {r} : o.upload = r.upload /\ Relies(o)
              THEN raced \cup {r.upload} ELSE raced

-----------------------------------------------------------------------------
(* The tab: one chunk after the other, until an answer is an error.        *)

SendLocalChunk(u) ==
  LET r == [upload |-> u, chunk |-> sentChunks[u] + 1, copy |-> 1] IN
  /\ tab[u] = "sending" /\ sentChunks[u] < LocalChunks
  /\ Moved(r, "absent", "new")
  /\ UNCHANGED <<tab, sentChunks, partFile, published, marks>>

Repeat(r) ==
  /\ r.copy = 2 /\ visit[[r EXCEPT !.copy = 1]] # "absent"
  /\ Cardinality({o \in Arrivals : o.copy = 2 /\ visit[o] # "absent"}) < MaxRepeats
  /\ Moved(r, "absent", "new")
  /\ UNCHANGED <<tab, sentChunks, partFile, published, marks>>

\* The tab hears one of the answers.
TakeAnswer(r) ==
  /\ tab[r.upload] = "sending" /\ r.chunk = sentChunks[r.upload] + 1
  /\ \/ /\ visit[r] = "yes"
        /\ sentChunks' = [sentChunks EXCEPT ![r.upload] = @ + 1]
        /\ tab' = [tab EXCEPT ![r.upload] = IF r.chunk = LocalChunks THEN "done" ELSE @]
     \/ /\ visit[r] = "no"
        /\ tab' = [tab EXCEPT ![r.upload] = "error"]
        /\ UNCHANGED sentChunks
  /\ UNCHANGED <<visit, partFile, published, marks>>

-----------------------------------------------------------------------------
(* WriteUploadChunk.                                                       *)

\* The first chunk empties the temporary file.
EmptyPart(r) ==
  /\ Moved(r, "new", "empty") /\ r.chunk = 1
  /\ Changes(r, [of |-> {r.upload}, chunks |-> <<>>])
  /\ UNCHANGED <<tab, sentChunks, published, unnoticed>>

\* Mutant: it is enough that the temporary file is there.
IsThere(r) == partFile[r.upload] # NoPart
\* The temporary file ends where the chunk begins.
SizeFits(r) ==
  /\ partFile[r.upload] # NoPart
  /\ Len(partFile[r.upload].chunks) = r.chunk - 1
  /\ \A i \in DOMAIN partFile[r.upload].chunks : partFile[r.upload].chunks[i] # CutShort

TestSize(r) ==
  /\ \/ r.chunk > 1 /\ visit[r] = "new"
     \/ visit[r] = "empty"
  /\ visit' = [visit EXCEPT ![r] = IF SizeFits(r) THEN "fits" ELSE "no"]
  /\ UNCHANGED <<tab, sentChunks, partFile, published, marks>>

\* Opening the file to append to it makes it again if it is gone.  All of the
\* chunk is written, a piece of it or nothing; an end that is lost when the
\* stream is closed is not noticed.
AppendChunk(r, piece, noticed) ==
  LET whole == piece = <<r.chunk>> IN
  /\ Moved(r, "fits", IF ~whole /\ noticed THEN "no"
                     ELSE IF r.chunk = LocalChunks THEN "stored" ELSE "yes")
  /\ Changes(r, [of |-> {r.upload}, chunks |-> partFile[r.upload].chunks \o piece])
  /\ unnoticed' = IF whole \/ noticed THEN unnoticed ELSE unnoticed \cup {r.upload}
  /\ UNCHANGED <<tab, sentChunks, published>>

\* The destination goes first ...
RemoveOld(r) ==
  /\ Moved(r, "stored", "ready")
  /\ published' = NoPart
  /\ UNCHANGED <<tab, sentChunks, partFile, marks>>

\* ... then the new file takes its name, if it is still there.
RenamePart(r) ==
  /\ Moved(r, "ready", IF partFile[r.upload] = NoPart THEN "no" ELSE "yes")
  /\ published' = IF partFile[r.upload] = NoPart THEN published ELSE partFile[r.upload]
  /\ Changes(r, NoPart)
  /\ UNCHANGED <<tab, sentChunks, unnoticed>>

\* The temporary file cannot be made, the destination cannot be removed or is
\* a directory, or the renaming fails.
FileSystemFails(r) ==
  /\ visit[r] \in {"stored", "ready"} \/ (visit[r] = "new" /\ r.chunk = 1)
  /\ visit' = [visit EXCEPT ![r] = "no"]
  /\ UNCHANGED <<tab, sentChunks, partFile, published, marks>>

UploadNext ==
  \/ \E u \in LocalUploads : SendLocalChunk(u)
  \/ \E r \in Arrivals :
       \/ Repeat(r) \/ TakeAnswer(r) \/ EmptyPart(r) \/ TestSize(r)
       \/ \E piece \in {<<r.chunk>>, <<CutShort>>, <<>>}, noticed \in BOOLEAN :
            AppendChunk(r, piece, noticed)
       \/ RemoveOld(r) \/ RenamePart(r) \/ FileSystemFails(r)

UploadSpec == UploadInit /\ [][UploadNext]_uploadVars

-----------------------------------------------------------------------------
UploadTypeOK ==
  /\ tab \in [LocalUploads -> {"sending", "done", "error"}]
  /\ sentChunks \in [LocalUploads -> 0 .. LocalChunks]
  /\ visit \in [Arrivals -> {"absent", "new", "empty", "fits", "stored", "ready", "yes", "no"}]
  /\ raced \subseteq LocalUploads /\ unnoticed \subseteq LocalUploads

\* The destination is a whole file of one upload, chunk by chunk, although
\* chunks are repeated, late, or refused half-written, with two exceptions:
\* its temporary file was changed while another request had tested it (then a
\* chunk can be appended twice), or the end of its last chunk, and of no other
\* chunk, was lost when the stream was closed, which nobody notices.
UploadedWholeOrLostAtClose ==
  (published # NoPart /\ published.of \cap raced = {}) =>
    /\ Len(published.chunks) \in {LocalChunks - 1, LocalChunks}
    /\ \A i \in 1 .. Len(published.chunks) :
         published.chunks[i] = i \/ (i = LocalChunks /\ published.chunks[i] = CutShort)
    /\ published.chunks = [i \in 1 .. LocalChunks |-> i] \/ published.of \subseteq unnoticed
=============================================================================
