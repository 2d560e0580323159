----------------------------- MODULE SftpDownloads -----------------------------
(***************************************************************************)
(* Downloads over SFTP: the tab (SftpPanel.vue, streamSftpDownload in      *)
(* api.ts), the record of a download and its thread (StartDownload,        *)
(* DownloadState and RemoveDownload in ssh/sftp_service.cpp).  The data go *)
(* to the browser on a stream; whether they were all, the tab learns by    *)
(* asking for the status.                                                  *)
(***************************************************************************)
EXTENDS Integers, FiniteSets

CONSTANTS
  Downloads,      \* download ids
  AtOnce,         \* maximumConcurrentDownloads
  MaxPieces       \* bound: pieces of a remote file

ASSUME DownloadAssumption == IsFiniteSet(Downloads) /\ {AtOnce, MaxPieces} \subseteq Nat

VARIABLES
  panel,     \* a download in the tab: none, queued, downloading, success, error, dismissed
  stream,    \* none, requested, open, closed, broken
  carried,   \* pieces the thread has put on the stream
  saved,     \* pieces the browser has saved as a file, Unsaved before
  status,    \* the record: none, busy (queued or downloading), success, error
  copying,   \* the thread: none, starting, reading, completing, reporting, ended
  failure,   \* error_message is not empty
  remote,    \* pieces the remote file has
  total      \* what fstat said

downloadVars == <<panel, stream, carried, saved, status, copying, failure, remote, total>>

Unsaved == -1

DownloadInit ==
  /\ panel = [d \in Downloads |-> "none"]
  /\ stream = [d \in Downloads |-> "none"]
  /\ carried = [d \in Downloads |-> 0]
  /\ saved = [d \in Downloads |-> Unsaved]
  /\ status = [d \in Downloads |-> "none"]
  /\ copying = [d \in Downloads |-> "none"]
  /\ failure = [d \in Downloads |-> FALSE]
  /\ remote = [d \in Downloads |-> MaxPieces]
  /\ total = [d \in Downloads |-> 0]

-----------------------------------------------------------------------------
(* The tab.                                                                *)

With(p, value) == {d \in Downloads : p[d] = value}
Fewer(a, b) == IF a < b THEN a ELSE b

\* pumpDownloadQueue: queued downloads start while there is room.
Pump(p) ==
  \E S \in SUBSET With(p, "queued") :
    /\ Cardinality(S) = Fewer(Cardinality(With(p, "queued")),
                              AtOnce - Cardinality(With(p, "downloading")))
    /\ panel' = [d \in Downloads |-> IF d \in S THEN "downloading" ELSE p[d]]
    /\ stream' = [d \in Downloads |-> IF d \in S THEN "requested" ELSE stream[d]]

DownloadItem(d) ==
  /\ panel[d] = "none"
  /\ Pump([panel EXCEPT ![d] = "queued"])
  /\ UNCHANGED <<carried, saved, status, copying, failure, remote, total>>

\* The status is asked for until the download is over.
PollDownload(d) ==
  /\ panel[d] = "downloading" /\ status[d] \in {"success", "error"}
  /\ Pump([panel EXCEPT ![d] = status[d]])
  /\ UNCHANGED <<carried, saved, status, copying, failure, remote, total>>

\* A poll also starts what is queued.
PumpQueue ==
  /\ With(panel, "queued") # {} /\ Cardinality(With(panel, "downloading")) < AtOnce
  /\ Pump(panel)
  /\ UNCHANGED <<carried, saved, status, copying, failure, remote, total>>

\* Twenty questions without an answer that knows the download.
GiveUpPolling(d) ==
  /\ panel[d] = "downloading"
  /\ Pump([panel EXCEPT ![d] = "error"])
  /\ UNCHANGED <<carried, saved, status, copying, failure, remote, total>>

\* The stream has come to its end: what there is becomes a file.
SaveStream(d) ==
  /\ stream[d] = "closed" /\ saved[d] = Unsaved
  /\ saved' = [saved EXCEPT ![d] = carried[d]]
  /\ UNCHANGED <<panel, stream, carried, status, copying, failure, remote, total>>

\* The connection breaks before that: the fetch fails, and the next poll
\* lets another download begin.
BreakStream(d) ==
  /\ stream[d] \in {"requested", "open", "closed"} /\ saved[d] = Unsaved
  /\ stream' = [stream EXCEPT ![d] = "broken"]
  /\ panel' = [panel EXCEPT ![d] = IF @ = "downloading" THEN "error" ELSE @]
  /\ UNCHANGED <<carried, saved, status, copying, failure, remote, total>>

\* The record goes with it unless the thread still works.
Dismiss(d) ==
  /\ panel[d] \in {"success", "error"}
  /\ panel' = [panel EXCEPT ![d] = "dismissed"]
  /\ status' = [status EXCEPT ![d] = IF @ \in {"success", "error"} THEN "none" ELSE @]
  /\ UNCHANGED <<stream, carried, saved, copying, failure, remote, total>>

-----------------------------------------------------------------------------
(* The server.                                                             *)

\* A second request with the same id would be refused; the tab makes none.
StartDownload(d) ==
  /\ stream[d] = "requested" /\ status[d] = "none"
  /\ stream' = [stream EXCEPT ![d] = "open"]
  /\ status' = [status EXCEPT ![d] = "busy"]
  /\ copying' = [copying EXCEPT ![d] = "starting"]
  /\ UNCHANGED <<panel, carried, saved, failure, remote, total>>

\* A connection of its own, the file and its size.
OpenRemote(d) ==
  /\ copying[d] = "starting"
  /\ total' = [total EXCEPT ![d] = remote[d]]
  /\ copying' = [copying EXCEPT ![d] = "reading"]
  /\ UNCHANGED <<panel, stream, carried, saved, status, failure, remote>>

CopyPiece(d) ==
  /\ copying[d] = "reading" /\ carried[d] < remote[d]
  /\ carried' = [carried EXCEPT ![d] = @ + 1]
  /\ UNCHANGED <<panel, stream, saved, status, copying, failure, remote, total>>

\* Mutant: the end of the file is the end of the download.
Anything(d) == TRUE
\* Nothing is missing of what fstat announced, and nothing is too much.
IsComplete(d) == carried[d] = total[d]

EndOfFile(d) ==
  /\ copying[d] = "reading" /\ carried[d] >= remote[d]
  /\ copying' = [copying EXCEPT ![d] = "completing"]
  /\ failure' = [failure EXCEPT ![d] = ~IsComplete(d)]
  /\ UNCHANGED <<panel, stream, carried, saved, status, remote, total>>

\* The SSH connection, the remote file or the stream to the browser fails.
DownloadFails(d) ==
  /\ copying[d] \in {"starting", "reading"}
  /\ copying' = [copying EXCEPT ![d] = "completing"]
  /\ failure' = [failure EXCEPT ![d] = TRUE]
  /\ UNCHANGED <<panel, stream, carried, saved, status, remote, total>>

\* on_complete closes the stream, whatever the outcome ...
CloseStream(d) ==
  /\ copying[d] = "completing"
  /\ copying' = [copying EXCEPT ![d] = "reporting"]
  /\ stream' = [stream EXCEPT ![d] = IF @ = "open" THEN "closed" ELSE @]
  /\ UNCHANGED <<panel, carried, saved, status, failure, remote, total>>

\* ... and only then the status tells it.
Report(d) ==
  /\ copying[d] = "reporting"
  /\ copying' = [copying EXCEPT ![d] = "ended"]
  /\ status' = [status EXCEPT ![d] = IF failure[d] THEN "error" ELSE "success"]
  /\ UNCHANGED <<panel, stream, carried, saved, failure, remote, total>>

\* Somebody writes to the remote file.
ChangeRemote(d) ==
  /\ copying[d] = "reading" /\ remote[d] = total[d]
  /\ remote' \in {[remote EXCEPT ![d] = n] : n \in 0 .. MaxPieces + 1}
  /\ UNCHANGED <<panel, stream, carried, saved, status, copying, failure, total>>

DownloadNext ==
  \/ PumpQueue
  \/ \E d \in Downloads :
    \/ DownloadItem(d) \/ PollDownload(d) \/ GiveUpPolling(d) \/ SaveStream(d)
    \/ BreakStream(d) \/ Dismiss(d)
    \/ StartDownload(d) \/ OpenRemote(d) \/ CopyPiece(d) \/ EndOfFile(d)
    \/ DownloadFails(d) \/ CloseStream(d) \/ Report(d) \/ ChangeRemote(d)

DownloadSpec == DownloadInit /\ [][DownloadNext]_downloadVars

-----------------------------------------------------------------------------
DownloadTypeOK ==
  /\ panel \in [Downloads -> {"none", "queued", "downloading", "success", "error", "dismissed"}]
  /\ stream \in [Downloads -> {"none", "requested", "open", "closed", "broken"}]
  /\ status \in [Downloads -> {"none", "busy", "success", "error"}]
  /\ copying \in [Downloads -> {"none", "starting", "reading", "completing", "reporting",
                               "ended"}]
  /\ carried \in [Downloads -> 0 .. MaxPieces + 1]
  /\ saved \in [Downloads -> {Unsaved} \cup 0 .. MaxPieces + 1]
  /\ Cardinality(With(panel, "downloading")) <= AtOnce

\* A download that the tab calls successful was put on the stream as a whole,
\* and a file the browser saved of it is that whole: a file that was cut
\* short, which is saved as well, is never called a success.
DownloadedIsWhole ==
  \A d \in Downloads :
    panel[d] = "success" => carried[d] = total[d] /\ saved[d] \in {Unsaved, total[d]}
=============================================================================
