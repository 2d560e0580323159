# Space Station in TLA+

Space Station is a C++ backend (drogon, libssh2, QuickJS) with a Vue front end: SSH, Telnet and serial
terminals in the browser, SFTP and delta file transfer, terminal plugins in JavaScript, and a set of
smaller tools. This directory holds TLA+ models of the parts of it in which several threads, connections
or messages meet, the TLC runs that check them, and proofs checked by TLAPS. Paths below are relative to
`src/`; `B/` stands for `backend/src/`.

    tlc -workers 2 -config <file>.cfg <Module>     model-check one run
    tlapm <Module>Proofs.tla                       check the proofs of a module

`PROJECT.json` lists the components, the runs, for every property a mutation of the model that the run
must detect, the source lines behind every definition, the findings, the hazards and the theorems.

## 1. Inventory

### Threads

- At least two drogon event loops, one per core (`http_server.cpp:357`). The handlers of one WebSocket
  run one after the other on its loop; handlers of different connections and of HTTP requests run in
  parallel.
- The main loop of drogon, where timers fire (`app().getLoop()->runAfter`).
- One `std::jthread` per SSH, Telnet and serial session; one for the cleanup of SSH sessions; one for the
  plugin runtimes; one per SFTP upload, download and port forward; a detached one per plugin HTTP
  request.
- Threads of the transfer server: one per listener and one per connection. Threads of a network scan: one
  that runs it and up to 128 that probe.
- The main thread, which starts the services and, at the end, stops them (`HttpServer::Stop`).

### Components

| Component | State it keeps | Operations | Talks to |
|---|---|---|---|
| SSH controller, `B/ssh/ssh_websocket.cpp` | `resumable_sessions_` (token -> session), `cleanup_queue_`, a `WebSocketState` per connection | connect, resume, terminate, close, expiry timer, HTTP terminate, StopAll | SSH sessions, main loop, HTTP server |
| SSH session, `B/ssh/ssh_session.cpp` | worker and stop source, attached connection, numbered output buffer of 4 MiB, command queue | Start, RequestStop, Stop, Attach, Detach, Write, Resize, ConfirmHostKey; the loop `Run` | controller, plugins, configuration store |
| Terminal tab, `frontend/src/components/tools/SshTool.vue` | resume token, last sequence, status | open, reconnect, resume, show, terminate | SSH controller |
| Terminal plugins, `B/plugins/terminal_plugin_service.cpp` | event queue, table of sessions, one JavaScript runtime per plugin with its pending HTTP requests | RegisterSession, UnregisterSession, OnOutput, SavePlugin, DeletePlugin, Reload, Start, Stop | every kind of terminal, HTTP server |
| SFTP, `B/ssh/sftp_service.cpp`, `SftpPanel.vue`, `api.ts` | upload workers, downloads, connection pool, port forwards | upload in chunks, download, directory operations, forwards | configuration store, browser |
| Local serial ports, `B/serial/serial_service.cpp` | ports in use, shared sessions, subscribers, backlog, write queue | Attach, Detach, Write; the reader thread | plugins, serial WebSocket |
| Browser serial sharing, `B/serial/browser_serial_share_*.cpp` | shares, their subscribers, roles of connections | Publish, Update, Subscribe, OwnerData, writes, Unpublish, Detach | plugins, WebSockets |
| Delta transfer, `B/transfer/transfer.cpp`, `transfer_manager.cpp` | listeners, workers, partial files with a signature journal | server Start and Stop, client Send with resume | configuration store |
| Telnet, `B/telnet/` | worker, option parser, command queue | connect, input, resize, close | plugins |
| Configuration store, `B/config/config_store.cpp` | one JSON file and a vault, behind one mutex | load-modify-save of every setting and credential | all services |
| Network scan, `B/network/` | one thread pool per connection | scan, cancel, close | - |
| File manager, certificates, authenticator, logger, HTTP routes | none, or a file per request | one request, one call | configuration store |
| Browser tools, `frontend/src/` | the data of one user in one browser | forms, comparison in web workers | HTTP routes |

### What is hard, and what would make it right

- **SSH controller.** A session must survive the loss of its WebSocket for 90 seconds, but no longer.
  Connect, resume, terminate, close, expiry and shutdown take two or three locks in turn and interleave.
  Right means: every started worker is joined, off the event loops; a token leads to one session and a
  session has one token; a timer never stops a session a client holds; an abandoned session is stopped.
- **SSH output.** Messages are numbered, buffered while no tab is attached and replayed on resume. Right
  means: the tab shows every message once and in order, and is told when the buffer lost some.
- **Plugins.** Terminals, callers of reload, HTTP threads and `Stop` meet in one queue. Right means: a
  runtime hears of a session before its output and not again after its end, also across a reload (of a
  serial port, whose reader outlasts its registration, one piece of output at most); a response meets the
  promise it belongs to; a save that returned is in effect; `Stop` returns.
- **SFTP uploads.** Chunks come in requests of their own, are queued for a worker and may come twice or
  too late. Right means: an answered chunk is stored, each request is answered once, workers end, and the
  limit per host neither leaks nor refuses a client that keeps to it.
- **SFTP connections, downloads, forwards.** Right means: a removal is not repeated, and a renaming, which
  calls twice, is not carried out twice; an operation runs on a connection to settings that were saved at
  some moment since it was asked for; a download is called a success only when it is whole; a relay loses
  nothing when a write takes only a part.
- **SSH worker.** It waits for the user, for the remote end and for the keyboard. Right means: it ends
  after a stop request wherever it waits, and repeats a write that was not taken with the same data.
- **Serial ports and shares.** Several viewers join and leave one port while data flows. Right means: a
  viewer gets each piece of the stream once, keeps the session it was given, and the last one to leave
  frees the port; what is shared reaches only those it was shared with, and input only an owner who
  allowed it.
- **Transfer.** `Stop` must end connections accepted a moment before; the destination must become a whole
  file or stay as it is, although the block search guesses, connections break and sources change.
- **Configuration store.** A crash between two writes must not lose what was saved before.
- **Telnet.** The remote's bytes come in pieces cut anywhere, with negotiation in between. Right means:
  the user sees the data and nothing else, and the remote reads what was typed and nothing else.
- **Network scan.** Workers share one cursor while the user cancels or starts again. Right means: a scan
  reported as complete has each address once with its true answer.
- **Uploads of the file manager.** Chunks are appended without a lock, may come twice, and may lose their
  end when their stream is closed. Right means: what is published under the file's name is whole, as far
  as the server can know.

`PROJECT.json` lists 40 hazards at their lines. Four have no property, because no document promises the
opposite of what the code does: a late `Attach` of a superseded connection (`ssh_websocket.cpp:372`), an
SFTP chunk queued after the worker took its queue for the last time (`sftp_service.cpp:961`), a late
duplicate of the first chunk of an upload (`sftp_service.cpp:896`), and a crash while `config.json` is
rewritten (`config_store.cpp:1189`). All four can
happen in the models, and the note of each entry says where.

## 2. Modules

| Module | Contents |
|---|---|
| `SshSessions` | SSH controller, session ownership, expiry, cleanup worker, shutdown |
| `MCSshSessions` | the symmetry set of `SshSessions` for TLC |
| `SshSessionsProofs` | the theorems about `SshSessions` |
| `TerminalOutput` | abstract: what a terminal promises its user about output |
| `SshStream`, `SshStreamProofs` | the output of SSH sessions over a network that breaks, down to the tab; implements `TerminalOutput` |
| `SshWorker` | the worker thread of one SSH session: host key, authentication, input, resize, stop |
| `PluginService`, `PluginServiceProofs` | the terminal plugin service |
| `MCPluginService` | `PluginService` for TLC, with an SSH session or with a serial port |
| `SftpUploads` | SFTP uploads from the tab's loop to the worker thread |
| `SftpUploadsProofs` | the theorems about `SftpUploads` |
| `SftpPool` | the pooled SFTP connections and the operations that use them |
| `SftpDownloads` | SFTP downloads from the tab's queue to the thread that copies |
| `PortForwards` | one port forward: listener, relay, stop |
| `SerialPorts` | shared serial ports: viewers, reader thread, failure, destruction |
| `BrowserShares` | serial ports of a browser, shared with others through the server |
| `TransferServer` | listeners, workers and `Stop` of the transfer server, with the manager |
| `DeltaTransfer` | the protocol that sends a file as differences, client and server |
| `RollingScan` | the search of a block in a file with a rolling checksum |
| `ConfigStore` | the files of the configuration store, with crashes |
| `Telnet`, `TelnetProofs` | the Telnet parser, negotiation, login and the tab's commands |
| `NetworkScan` | the scan of a network by several threads |
| `FileUploads` | uploads of the file manager |
| `MCThreads`, `ThreadsProofs` | `SerialPorts`, `SshWorker` and `TransferServer` in one run, and the theorems about them |
| `MCData`, `DataProofs` | the ten machines that carry or keep data in one run, and the theorems about them and about their composition |
| `Induction` | induction over the natural numbers, for the proofs |

`MCThreads` and `MCData` check machines that do not interact: the value of `part`, chosen in the first
state, says which machine a behaviour is about, and the others rest in their first state. The state graph
is the disjoint union of theirs, so a property of one machine says in the composite what it says alone.
`MCData` uses one set of names for the browsers, clients, threads, requests, uploads and so on of its
machines, which are only ever compared, so one symmetry serves them all.

All models follow one rule: **an action is one critical section** (or one step between two points at
which another thread can be seen), and a handler that takes several locks in turn is several actions,
with a variable (`stage`, `worker`, `stopper`, `owner`, ...) that says where it is. What a handler does
while it holds a lock is one action, unless another thread can act on something the lock does not
protect; then the lock itself is a variable (`mutex` in `SshSessions`, the state `"deciding"` of the
plugin worker).

### SshSessions

| Variables | Code |
|---|---|
| `cstate`, `bound`, `held`, `terminating` | the connection and its `WebSocketState`: `session`, `resume_token`, `terminate_requested` |
| `timer`, `elapsed`, `detachedBy` | the timer `handleConnectionClosed` arms, and `detached_at_` |
| `resumable`, `issued`, `mutex` | `resumable_sessions_`, the tokens drawn, `sessions_mutex_` |
| `worker`, `stopping`, `attached` | `worker_`, `stop_source_`, `connection_id_` of a session |
| `queue`, `cleaning` | `cleanup_queue_` and the session `CleanupSessions` is stopping |
| `phase` | the progress of `HttpServer::Stop` and `StopAll` |
| `stage`, `hand`, `expiring` | program counters and local variables of the handlers |
| `lastHolder`, `reason` | history, for the properties |

`ConnectRegister` and `ConnectStart` are `HandleConnect`, `ResumeRotate` and `ResumeAttach` are
`HandleResume`, `Terminate*` are `HandleTerminate`, `Close` is `handleConnectionClosed`, `HttpTerminate`
is `TerminateSession`, `ExpireCheck` and `ExpireErase` are `ExpireDetachedSession`, `QueueStop*` are
`QueueStop`, `Cleaner*` are `CleanupSessions`, `StopAll*` are `StopAll`. Tokens are never drawn twice
(they are 32 random bytes).

### SshStream and TerminalOutput

A tab (`TabReady` ... `TabClosed` are the cases of `handleSocketMessage`; `TabOpens` stands for the first
connection, the reconnect timer and the button) opens connections one after another. Each has a FIFO
channel in both directions; `TabLoses` empties the one to the tab, and the server may notice much later
(`ServerClosed`). The server side is `Emit` (`SendOutput`, `SendEvent`), `ServerConnect`, `ServerResume`,
`ServerAttach`, `ServerGap`, `ServerRefuse`, `ServerTerminate`. The buffer is not stored: it always is
the messages from `front` on. A message is its size; sequence numbers are positions.

`TerminalOutput` says what the user sees: a terminal shows the messages of one session, the next one each
time, and skips ahead only when more than `BufferLimit` bytes were waiting. The refinement mapping is
`session <- showing`, the rest by name.

### PluginService

`registered` is the table `sessions_`; `queueSet`, `accepting`, `queue` are the queue; `worker` is the
position of `WorkerLoop`, with the test of the wait predicate (`Test`) and the sleep (`Sleep`) as two
steps, since `notify_all` may come in between. `Dispatch`, `CompleteHttp`, `ReloadLoad`, `ReloadCopy`,
`ReloadOpen`, `ReloadDone` are the cases of `Dispatch` in the code. `Save`, `Delete`, `Reload` and the
time-out are the callers; `HttpReturns` is the detached thread; the five `Stop*` actions are `Stop`. The
JavaScript is a choice: it may start an HTTP request, and it may leave a continuation when the execution
deadline cuts `DrainJobs`.

Who calls `UnregisterSession`, and when, differs: an SSH session joins its worker first, and the share of
a browser is given up when the messages of its connection are through; the destructor of a serial port
unregisters first and stops and joins its reader after (`serial_service.cpp:259`). Sessions in `Shared`
are of the last kind: their output thread may have looked the session up before it is unregistered and
post its piece behind the `Close`. `ClosedIsOver` says that this is all that can follow.

### SftpUploads

`StartFile`, `NextChunk`, `GiveUp` are the loop of `SftpPanel.vue` and `api.ts`; `Duplicate` is a request
that reaches the server twice; `Find`, `Enqueue`, `StartThread` are the critical sections of
`StartUploadChunk`; `OpenFile` to `Finish` are the worker thread.

### SshWorker

`Connects`, `ChecksHostKey`, `Authenticates` are the stages of `Run`, `Fails` the exits of each. The wait
for the user's answer (`TestAnswer`, `FallAsleep`) tests its predicate and falls asleep in two steps
under the mutex (`mutexHeld`); `RequestStop` is `AskStop` and `NotifyStop`, and the first can only happen
while the mutex is free. The loop is `TakeCommands`, `AskRemoteSize`, `WriteChannel`, `ReadChannel`
(`round` says which comes next). `call` is the last operation on the channel: libssh2 must be called
again with the same arguments after `LIBSSH2_ERROR_EAGAIN`, which is `call.done = FALSE`.

### SerialPorts

`sess` holds the `Session` objects made so far, `table` is `sessions_[port]`, `subs` is `subscriptions_`,
`serviceLock` is `SerialService::mutex_`. `uses` and `waits` stand for the `shared_ptr` in the hands of a
handler and for the destructor it runs when it lets the last one go; `copy`, `since` and `got` are the
copied backlog and what a browser received. `AskOpen`, `OpenDevice`, `OpenFails`, `AddViewer`, `Answer`
are `Attach` with its parts under and outside the locks; `DetachViewer`, `FindSession` and `QueueWrite`
are the other handlers; `ReadPiece` to `TellFailure` are the reader thread; `CloseDevice` is the
destructor after its join. A browser may be sent the backlog after newer pieces, since `Attach` sends it
after the unlock; `EachPieceOnce` therefore speaks of sets and lengths, not of the order.

### BrowserShares

One share id. `period` counts publications and changes of what is visible, `joined` is the period a
viewer came in, `job` is what a handler has decided to send to whom and sends after the unlock.
`Publish`, `Update`, `OwnerData`, `Subscribe`, `SubscriberWrite`, `Unpublish`, `DetachBrowser`,
`ListShares` are the methods of the service; `RegisterShare`, `Unregister` and `UnregisterStale` its
calls of the plugin service after the unlock; `SendData`, `AnswerViewer`, `Forward` the sending.

### TransferServer, DeltaTransfer, RollingScan

`TransferServer`: `settings`, `current`, `starting` are the manager; a server has listeners, an accept
thread and `active_` sockets; a worker has a descriptor, which the system gives out again after it is
closed (the lowest free one). `Accept` and `Register` are two steps, as in the code; `CloseListeners`,
`SweepSockets` and `JoinThreads` are `Stop`.

`DeltaTransfer`: any number of clients send a file of one name. `BuildSignatures` to `TakeResult` are
`Client::Send`, `LockDestination` to `Rename` are `HandleFile`; there is at most one message on the wire
of a client, since the protocol alternates or, for the data, the order is that of one stream.
`EditSource` changes the client's file at any time. Hashes are the contents they are taken of: SHA-256 is
trusted to tell files apart.

`RollingScan`: the search in one candidate file with the ring buffer and the weak checksum of the code,
over bytes and a modulus small enough for the checksum to collide and to wrap around.

### ConfigStore

An operation is a list of writes in `todo`, made one by one with `MakeWrite` under `storeMutex`;
`CrashStore` drops the rest of all lists at any point. A file is truncated by one write and filled by the
next; a commit of SQLite is one write. `owed` is history: the credentials whose saving was answered for.

### SftpPool, SftpDownloads, PortForwards

`SftpPool`: one entry of `ConnectionPool`. The settings are parts (the host, its credential, the jump
host, its credential), each read from the store by a call of its own. A request waits for the entry
(`LockEntry`), reads the parts for the digest (`ReadRevision`), compares it with the label of the
connection (`CheckRevision`), uses that connection or reads the parts once more (`ReadForOpening`) and
opens one, operates, and may be retried once on a new connection if the old one was reused and the
operation is a listing. A digest is equal to another exactly when the settings are, so settings that are
saved back bring it back: a connection that was opened on what was saved between the two reads then
passes for one to the settings of its label. `overtaken` remembers, as history, the parts to which that
has happened, and `UsesSavedHost` makes an exception for them and for nothing else. `Rename` calls once
more after any failure of its first call (`RenameAgain`), also when that was carried out and only its
answer was lost; the second call then finds the name gone, unless somebody made it again (`MakeAgain`).
Which host is the jump host does not change, and SHA-256 has no collisions.

`SftpDownloads`: `DownloadItem`, `PollDownload`, `SaveStream`, `Dismiss` and so on are the panel and the
browser; `StartDownload`, `OpenRemote`, `CopyPiece`, `EndOfFile`, `DownloadFails` are the thread;
`Report` is the status route. `ChangeRemote` lets the file grow or shrink meanwhile.

`PortForwards`: the two directions of `RelayForward` are records of what was said, taken, is pending and
was got; `RelayRound` is one round of the loop with reads and writes of any length.

### Telnet, NetworkScan, FileUploads

`Telnet`: the remote sends items (data with an escaped 255, negotiations, subnegotiations, prompts) which
are bytes in `toCome`; `Receive(n)` feeds the next `n` to the parser, `Byte` is its step. `sent` is read
back with the same parser.

`NetworkScan`: `ExpandCidr` is arithmetic on addresses of `Width` bits. `FetchAddress`, `SeeStopScan`,
`Probe`, `CountHost` and `SendResult` are a worker, `ReportVerdict` the end of `RunScan`; `CancelScan`,
`ReplaceScan`, `CloseScanner` are the handlers, the last two of which wait for the scan.

`FileUploads`: `EmptyPart` to `RenamePart` are the steps of `WriteUploadChunk` on the file system, which
can meet those of another request; `Repeat` is a request the browser sends again. `AppendChunk` writes
the chunk, a piece of it or nothing. The stream is tested after the write and closed after the test, so
what it lost is noticed or not; unnoticed, the request goes on as if all was written. `raced` and
`unnoticed` are history: the uploads whose temporary file was changed under a request that had tested it,
and those that lost the end of a chunk like that.

## 3. Runs

| Run | What it asks | Bounds |
|---|---|---|
| `ssh_sessions` | Safety of the controller: `WorkersOwned`, `OneTokenPerSession`, `ExpiredMeansAbandoned`, `ShutdownJoinsAll`, `SupersededCloseIsHarmless` | 2 connections, 2 sessions, 3 tokens, all requests |
| `ssh_sessions_live` | `StopCompletes`, `AbandonedIsStopped` under fairness | 3 connections, 1 session, 3 tokens, no explicit terminate |
| `ssh_stream` | `NoHoleInStream`, `GapNoticeIsTrue`, the refinement `ImplementsTerminal`, and `OutputArrives` | 3 connections, 2 sessions, 4 messages, a buffer of 2 |
| `plugin_service` | `AnnouncedFirst`, `ClosedIsOver`, `ResponseMeetsItsRequest`, `SlotsAreFreed`, `SaveTakesEffect`, `EverySessionAnnounced` | 2 HTTP requests, 1 at a time; an SSH session with 2 callers and 1 output, or a serial port with 1 caller and 2 outputs |
| `sftp_uploads` | `HeldOnce`, `ConnectionsBounded`, `AnsweredIsStored`, `WorkersEnd`, `QueuedIsAnswered` | 2 files of 2 chunks, limit 1, 1 duplicate |
| `threads_that_end` | Shared things stay, threads end: `SharedIsSafe`, `PortIsReleased`, `RetriesTheSameWrite`, `StopEndsWorker`, `SweptMeansStopped` | serial: 2 viewers, 2 sessions, 1 piece, a backlog of 1, 1 queued write; SSH worker: 2 sizes, 3 commands; transfer server: 2 servers, 2 workers, 2 descriptors |
| `data_that_stays` | Data are not lost, repeated or mixed up: `SharesAreKeptApart`, `FilesArrive`, `CredentialsAreSafe`, `PoolIsSafe`, `StreamsAreTransparent`, `CompleteIsComplete`, `DestinationIsSafe` | see below |
| `ssh_session_leak`, `ssh_resume_refused`, `plugin_stop`, `plugin_write`, `sftp_upload_limit` | the disagreements of section 6: each finds one property violated | the smallest instance that shows it |

Why the bounds are enough. In `ssh_sessions` two connections compete for a session while a third actor
(HTTP, the main loop, the cleanup worker) holds a stale reference to it, and a second session lets the
queue hold two entries and the map change under an iteration. A third connection adds a chain of resumes;
`ssh_sessions_live` has it, because liveness is where chains matter (a timer armed by the first
connection, a session resumed by the second, closed by the third). Terminate is left out of that run
because of the first finding of section 6: with it `AbandonedIsStopped` would speak of the same flaw. In
`ssh_stream` three connections give a resume after a resume, four messages and a buffer of two an
overflow before and after a replay, two sessions the change from one to the next. In `plugin_service`
(3.1 million states) two callers give overlapping reloads and a retry after a time-out, with a limit of one
request and two of them the second must wait for the slot or be refused; two pieces of output of a serial
port tell the one that may follow its end from the next one. In `sftp_uploads` the limit of one is reached by
the second file, and two chunks tell the first, which creates the worker, from the last, which ends it.

`threads_that_end` (263 thousand states). Serial: one viewer leaves while the other joins, and a session
is destroyed while its successor waits for the device; a backlog of one piece overflows only with more
pieces, but one piece already tells "in the backlog" from "sent". SSH worker: three commands make a
write, a resize and a second write that could overtake the first. Transfer server: a server that stops
while its successor runs, with descriptors that are used again.

`data_that_stays` (1.8 million states), machine by machine:

| Machine | Bounds | The case they allow |
|---|---|---|
| `BrowserShares` | 3 browsers, 2 periods | two owners in turn and a viewer of both; a viewer of a share that was made private |
| `RollingScan` | bytes 0 to 2, modulus 3, blocks of 2, files up to 4 | collisions of the checksum, a ring that wraps, a match at either end or none |
| `DeltaTransfer` | 2 clients, 2 blocks, 2 contents, 1 change of a source | two clients race for one name; a block is found, announced or missing; the source changes between any two reads |
| `ConfigStore` | 2 threads, 1 host, 2 directories, 2 keys | a crash in every list of writes, in both directories, and a repair after it |
| `SftpPool` | 2 requests, 2 parts with 2 settings each | a request reuses what the other opened; a save, and a save back, before, between and after the two reads of either part; a renaming whose name is made again |
| `PortForwards` | 3 units in each direction | a partial write with more to come |
| `Telnet` | 2 items, 1 command of the tab, heights 24 and 255 | any cut of any item, also inside a subnegotiation; a window size that must be escaped |
| `NetworkScan` | addresses of 3 bits, at most 2 hosts, 2 threads | networks with and without a broadcast address; a stop during a probe; a second scan |
| `FileUploads` | 2 uploads of 3 chunks, 1 repeat | a late or early second copy of the first, a middle or the last chunk, each whole, cut short or empty, noticed or not |
| `SftpDownloads` | 2 downloads, 1 at a time, 1 piece | a queue; a file that grows or shrinks; a status that comes late |

Deadlock is not checked: clients may stop asking and the server may have stopped, so that all of these
systems have states without a successor. That something does go on is stated by the liveness properties
instead.

## 4. Fairness

Only threads the backend itself runs are fair, and clients never:

- `SshSessions`: a handler that has begun finishes its next critical section (event loops do not block
  elsewhere in it); a due timer fires; the cleanup worker takes the next entry; `Run` ends after a stop
  request. The last one, `WorkerExits`, is an assumption about the worker loop; `StopEndsWorker` of
  `SshWorker` shows it, if the remote end pauses now and then (next item).
- `SshWorker`: the worker thread runs, and whoever requested the stop goes on to notify. The reading of
  the channel is the exception: the loop at `ssh_session.cpp:837` goes on as long as the remote sends, so
  fairness is asked of `RunStep`, the steps other than a read that returned data. A remote that never
  pauses would keep a stopped worker; the hazard is listed.
- `SshStream`: the server handles what it has received, and the network delivers what a live connection
  carries. Losing a connection is always possible and never required.
- `PluginService`: the worker thread, a terminal inside `RegisterSession` or `UnregisterSession`, and a
  `Stop` that has begun. HTTP requests may hang for ever.
- `SftpUploads`: a request inside `StartUploadChunk`, and the worker threads; a worker that waits for a
  chunk gives up after two minutes, so its failure is a step it must take when nothing comes.
- `SerialPorts`: handlers and reader threads go on. The close handler of a lost connection competes with
  the handlers of others for the service's mutex and may lose many times but not always: strong fairness.
  Devices, lines and users owe nothing, so a device that takes no more data must not stop the release.
- `TransferServer`: the threads go on, and a worker whose socket was shut down leaves its read or write.
  Nothing is assumed of clients; a connection that is never shut down may stay for ever.
- The machines of `MCData` have safety properties only, and no fairness.

## 5. Proofs

Every safety property that a run checks, invariant or action property, is also a theorem for every value
of the constants, and so is the refinement of `TerminalOutput`. Seven modules hold theorems;
`Induction` holds lemmas for them.

    tlapm <Module>.tla        SshSessionsProofs, SshStreamProofs, PluginServiceProofs,
                              SftpUploadsProofs, ThreadsProofs, TelnetProofs, DataProofs

| Module | Theorem | Statement |
|---|---|---|
| `SshSessionsProofs` | `TypeCorrect` | `Spec => []TypeOK` |
| | `WorkersNeverLost` | `Spec => []WorkersOwned` |
| | `SingleToken` | `Spec => []OneTokenPerSession` |
| | `ShutdownIsClean` | `Spec => []ShutdownJoinsAll` |
| | `ExpiryIsRightful` | `Spec => []ExpiredMeansAbandoned` |
| | `AttachmentPromise` | `Spec => SupersededCloseIsHarmless`, an action property |
| `SshStreamProofs` | `StreamTypes` | `Spec => []TypeOK` |
| | `StreamPromise` | `Spec => []NoHoleInStream` |
| | `GapPromise` | `Spec => []GapNoticeIsTrue` |
| | `TerminalPromise` | `Spec => ImplementsTerminal`, the refinement |
| `PluginServiceProofs` | `PluginTypes` | `Spec => []TypeOK` |
| | `AnnouncementPromise` | `Spec => []AnnouncedFirst` |
| | `ClosePromise` | `Spec => []ClosedIsOver` |
| | `ResponsePromise` | `Spec => []ResponseMeetsItsRequest` |
| | `SlotsPromise` | `Spec => []SlotsAreFreed` |
| | `SavePromise` | `Spec => []SaveTakesEffect` |
| `SftpUploadsProofs` | `UploadTypes` | `Spec => []TypeOK` |
| | `LimitHolds` | `Spec => []ConnectionsBounded` |
| | `AnswersAreTrue` | `Spec => AnsweredIsStored`, an action property |
| | `RequestsHeldOnce` | `Spec => []HeldOnce` |
| `ThreadsProofs` | `ThreadTypes` | `Spec => []TypeOK` |
| | `SharingPromise` | `Spec => []SharedIsSafe` |
| | `RetryPromise` | `Spec => RetriesTheSameWrite`, an action property |
| `TelnetProofs` | `TelnetPromise` | `TelnetSpec => [](TelnetTypeOK /\ TelnetIsTransparent)` |
| `DataProofs` | `SharesPromise` | `SharesSpec => []SharesAreKeptApart` |
| | `DestinationPromise` | `DeltaSpec => DestinationIsSafe`, an action property |
| | `PoolPromise` | `PoolSpec => []PoolIsSafe` |
| | `CredentialsPromise` | `StoreSpec => []CredentialsAreSafe` |
| | `ScanPromise` | `NetworkSpec => []CompleteIsComplete` |
| | `UploadPromise` | `UploadSpec => [](UploadTypeOK /\ UploadedWholeOrLostAtClose)` |
| | `DownloadPromise` | `DownloadSpec => [](DownloadTypeOK /\ DownloadedIsWhole)` |
| | `ForwardPromise` | `ForwardSpec => [](ForwardTypeOK /\ RelayedInOrder)` |
| | `SearchPromise` | `ScanSpec => [](ScanTypeOK /\ ScanIsExact)` |
| | `PartsPromise` | `Spec` of `MCData` implies the specification of each of its machines |
| | `DataTypes`, `FilesPromise`, `StreamsPromise` | `Spec => []TypeOK`, `[]FilesArrive`, `[]StreamsAreTransparent` |

### Assumptions

The constants are assumed to be what their names say, and no more: numbers are natural (a limit, a modulus
or a block length not zero), a null value is none of the things it stands beside, `DefaultDirectory` is a
directory, a byte is smaller than the modulus of the checksum (`ScanAssumption`; 255 and 65536 in the
code). Two sets must be finite, because the proofs count in them: `Probers`, which is not empty either
since the code clamps the number of workers to one at least, and `Downloads`. Sessions, connections,
tokens, files, requests, browsers, clients, hosts and sizes may be infinitely many. The two loops of
`SshSessions` are different actors that are no connections. Only `PowersAssumption` of
`NetworkScan` is arithmetic: the number of addresses of a network is a natural number that is not zero and
divides that of all addresses. It is true of powers of two, and assumed because the provers have no
facts about exponents. TLC evaluates all of these for the values of the runs.

### Arguments

In all proofs there is one step per action, and lemmas for what several actions have in common
(`OwnershipFrame`, `ThreadStep`, `Changed`, `HandlerStep`).

**SshSessions.** The inductive invariant is `IInv == Typed /\ Protected /\ WorkersOwned /\
OneTokenPerSession`.

- `Typed` adds to the types what the position of a handler says about its local variables (`StageOK`): a
  handler about to stop a session has one in hand, a timer that is armed has a session and a token.
- `WorkersOwned` alone is not inductive. In a state in which a registered session has no worker yet, an
  HTTP terminate could take it out of the map, the cleanup worker could "join" it, and `Start` would then
  make a worker nobody owns. `Protected` excludes the state: an unstarted session is known to one handler
  only, and that handler holds `sessions_mutex_`. This is the reason for the lock the code takes around
  `Start`, and its comment there ("An HTTP terminate request must not reach this session until Start has
  initialized the worker and its cancellation source").
- `ShutdownJoinsAll` follows: in phase `"stopped"` the map, the hands, the queue and the cleanup worker
  are empty, so no session is owned, so no worker is started and unjoined.
- `ExpiredMeansAbandoned` needs `Claimed` (a token in the map is the one that the last holder of its
  session keeps, and no two connections keep the same) and `Expired` (what the main loop has in hand, or
  was the first to stop, is abandoned). A resume between the timer's check and its erasure takes the token
  away, and with it the timer's claim.

**SshStream.** `StreamInv` speaks of the whole way of a message. `Acknowledged`: no number that the tab
ever sends is ahead of its terminal, so what a buffer drops was shown or too much was waiting.
`ControlFits`: on the connection the tab listens to, control messages come first and say what the server
has in mind. `StreamFits`: the numbered messages on it follow one another, begin where the terminal goes on
(or may skip to), and end with the last message of a session that is attached. `GapFits`: a notice is behind
output that shows the hole. Messages to connections that the tab has given up are of no concern, which is
what makes `Attach` before or after the loss of a connection harmless. `TokensCounted` bounds the tokens:
each is for a session or for a connection. For the refinement, every step is a step of `TerminalOutput`
or leaves its variables alone: showing a message is the one that needs `StreamFits`. The bytes that wait
are a recursive function; that it exists and adds up (`SumsExist`) is proved by induction.

**PluginService.** `IInv == Typed /\ Traced /\ Announced /\ Closing /\ Numbered /\ SlotsAreFreed /\ Applied`.
`AnnouncedFirst` looks at one event, the invariant at the whole queue: for every output in it the runtime
knows the terminal already, or an `Open` or a reload stands before it (`Known`), where a
reload that is still to copy the table counts, and so does one with the terminal in its copy. `Traced` says how far the thread of a terminal is
when something is known of its session. `Closing` says of each place of a `Close`, in the queue or in the
worker's hand, that neither an `Open` nor another `Close` of the session stands behind it, and no output
but one piece of a serial port, where the hand of the thread that reports output counts as the last place
(`Over`): a reader that finds its session gone reports nothing more. `Numbered`: a
promise and an answer with one number belong together, wherever the answer is. `Applied`: a reload that is
past its load has loaded what its caller wrote, as the numbers of changes only grow.

**SftpUploads.** `IInv == TypeOK /\ Placed /\ Tabled /\ Limited /\ Ordered`.

- `ConnectionsBounded` counts threads, the code counts table entries. `Tabled` connects them: a worker
  that has not finished is the one its upload has in the table, hence the map from workers at work to
  their uploads is injective and their number is at most that of the entries (`Limited`). The delicate
  step is `Find`, which erases entries and adds one in one section: only entries of finished workers go.
- `AnswersAreTrue` rests on `Ordered`: the chunks in a queue follow each other, and those before the
  queue are stored while the file is open. A worker that truncates the file of another would break it; by
  `Tabled` two workers of one upload are never at work together.
- `Placed` says what a request between two critical sections may rely on, among others that exactly one
  request will start a thread.
- `RequestsHeldOnce` needs two more facts, proved on top of that invariant: a request that was not sent
  is nowhere (`Unasked`), and one that is held is held in one place (`Held`).

**Serial ports, SSH worker, transfer server** (`ThreadsProofs`). Each machine has an invariant of its own,
and a step of one leaves the others alone.

- `SerialInv`: the handler between `AskOpen` and `Answer` has the mutex, and what it found stays in the
  table (`Locking`); a browser is a viewer of its own session only (`Loyal`); the backlog is the end of
  what was read (`Backlogs`); and a browser has, before its answer, the pieces read since it was added, and
  a copy of the backlog that ends where they begin (`Delivered`). The answer joins the two, which is why no
  piece is missing or doubled although `Add` and the sending of the thread interleave.
- `WorkerInv`: a write that libssh2 has begun is what the input buffer holds, and until it is complete
  the loop gets no further than to the writing (`WriteIsPending`). Its type also needs that the commands
  waiting are no more than were given.
- `TransferInv`: every handle refers to a server that exists, and `RunningUsesSettings` is inductive
  with that.

**Telnet.** The parser is a loop over bytes. By induction on their number, what it does to two pieces one
after the other is what it does to them joined (`ParseJoined`), so the cuts of the remote's stream do not
matter: `ReadSoFar` says that the parser, what was shown and what is still to come are those of one
uncut stream. For the other direction `Takes(s, x, t, d)` says that the bytes `x` take a reader from the state
`s` to `t` and are the data `d` to it; what is typed (`EscapeIac`), a window size, an answer and a login
each are shown to take it from `"Data"` to `"Data"`, and such pieces compose.

**The search of a block.** `SearchPromise` rests on `RollIs`: moving the window by one byte changes the
checksum as `Roll` does, modulo any modulus and for any length. By induction on the bytes the sums of
the two windows differ by what the old byte added and by one of each byte in between. With it, `weak`
is the checksum of what the ring holds, and the ring holds the window that ends at `position`, at each
step (`ScanWindow`), so no match is passed over; a collision finds nothing, since the bytes are compared.

**The other machines of `DataProofs`.**

- SFTP pool: `PoolExclusive` (only the request with the entry's lock is at work), `ReadsAgree` (where a
  connection leads elsewhere than its label says, the part was saved between the two reads of it), and for
  each request `UpToDate` (what it read for the digest was in the store since it was asked, and is the
  label of the connection it operates on) and `CarriedOutOnce` (a renaming that calls again has moved
  nothing, or the name is gone, or was made again).
- Browser shares: everything is sent after the unlock, so the invariant speaks of what handlers
  have in hand: `Periods` (a viewer and what is on its way to it belong to one period), `Writes` (whom
  input goes to has allowed it) and `Sessions` (what the plugins know). It rests on roles being taken
  once per connection.
- Delta transfer: from the test of the destination to the renaming, the server holds the
  destination's mutex, so nothing appeared there that the test did not see (`Locked`); the hash the
  server verified is the one the client computed before it asked (`Started`, `Checked`). File length,
  contents and number of changes are arbitrary.
- Configuration store: the crash may cut a list of writes anywhere, so the invariant says of every
  remaining write that it is sound where it stands (`Planned`): a row is written with the key that is
  there by then and keeps what is owed, and a key is written only where the vault is empty and its row
  follows. Losing the order "key first" breaks it, which is what the mutation of the run does.
- Network scan: as long as nobody asked for a stop, the hosts taken are those the cursor has passed, each
  is in the hands of one worker or among the results (`Distinct`), what was found out is true
  (`Truthful`), and the totals are the cardinalities of the sets of hosts whose workers have passed the
  counting (`Totals`). With every worker through, these sets are the whole network. A stop ends the claim, and
  the verdict says so. The bounds of the cursor and of the totals hold after a stop, too, by counting the
  workers at each place (`TotalsBounded`): a worker passes the last address at most once.
- Uploads of the file manager: the chunks of a partial file are the first ones, in order, or pieces of
  them (`ChunksInOrder`), and what a request found fitting still fits when it appends and when the file
  takes its name (`SizeStillFits`), unless the upload is marked as `raced`: a change by another request
  would have marked it.
- Downloads: a success at any stage (thread, status, panel) means that all of the file was carried
  (`Sound`). The number of downloads at once is that of the panels the queue was pumped to (`PumpEffect`).
- Port forwards: what was got, with what is pending, is the numbered sequence of what was taken.

**Composition.** Every step of `MCData` is a step of one machine or leaves it alone (`PartsMove`), so a
behaviour of it is one of every machine, and the theorems of the machines give `TypeOK`,
`FilesArrive` and `StreamsAreTransparent` of the run.

### What is only model-checked

The liveness properties, nine in all (`StopCompletes`, `AbandonedIsStopped`, `OutputArrives`,
`EverySessionAnnounced`, `WorkersEnd`, `QueuedIsAnswered`, `PortIsReleased`, `StopEndsWorker`,
`SweptMeansStopped`): proofs under fairness need `ENABLED`, which the prover does not handle. The findings of
section 6 are counterexamples and need no proof.

Induction over data is done in one form only. The induction theorems of the library take an operator as a
parameter, which the provers here cannot instantiate; `Induction` therefore derives from
`WellFoundedInduction` that a set that contains 0 and each successor contains all natural numbers
(`SetInduction`). A recursive function of a model (`Parse`, `WeakChecksum`, `InputsOfFirst`, the bytes
waiting in `SshStream`) is first shown to exist in this way, and then to compute what it should.


## 6. Where code and documents disagree

1. `ssh_session_leak`: a terminate on a connection without a session sets `terminate_requested` for good
   (`ssh_websocket.cpp:391`); a session connected afterwards is neither detached nor expired when the
   connection closes, and runs until the server stops. The log text at line 433 and `resumeWindowSeconds`
   promise 90 seconds.
2. `ssh_resume_refused`: `HandleResume` replaces the token before the client is known to have the new
   one. If the answer is lost, the next resume is told that the window has expired, and the shell is
   lost.
3. `plugin_stop`: `Stop` sets the stop token and notifies without the queue mutex
   (`terminal_plugin_service.cpp:547`); a worker between its test and its sleep misses both, and the
   shutdown hangs in `join`. `ssh_session.cpp:507` takes the mutex for this very reason.
4. `plugin_write`: continuations cut off by the execution deadline run under the session of the next
   event; `terminal-plugins.md:44` says that a write goes to the terminal of the triggering event.
5. `sftp_upload_limit`: a worker that has answered its last chunk still counts against the limit while it
   closes its connection, so that a tab that keeps to the limit (`SftpPanel.vue:162`) is refused.

Two races in the SFTP upload worker, one in the resume and the rewriting of `config.json` are reachable
in the models but break no promise a document makes; they are among the hazards, each with the action
that reaches it. Five properties carry a condition for the same reason: `SweptMeansStopped` speaks of a
sweep that has met every connection; `UploadedWholeOrLostAtClose` excepts uploads whose file changed under
a request and a last chunk that lost its end in the closing of its stream; `ClosedIsOver` excepts one piece
of output of a serial port; `UsesSavedHost` excepts a part that was saved while the connection was opened
and saved back; and `EachPieceOnce` does not speak of the order. Without the conditions they do not hold; the
hazards at these lines say why.

## 7. What is not modelled

Abstracted on purpose: SSH and TLS themselves, the contents of messages, credentials, paths, formatting,
logging, time other than "the window is over". Left out:

- Plugins: manifests, target matching, the QuickJS API beyond `http.request` and `terminal.write`, the
  list of several plugins (they share nothing but the queue).
- Transfer: several files and directories on one connection, frames and TLS, the cancellation of the
  sending side; the client jobs of the manager, which are a list of states for display; the command line
  tools.
- SFTP: the destructor of the service and the parsing of names and attributes.
- Configuration store: the normalisation of values, the migration of old files; the vault of the
  authenticator, which is kept like that of the credentials.
- Shares: the broadcasts of how many viewers there are.
- Terminal tab: heartbeat, recording, search, splits and credential prompts.
- Certificates, authenticator, logger, network helpers, HTTP routes and the browser tools: sequential
  code on the data of one request or one user, without state that two actors share. `PROJECT.json` gives
  the reason for each.

What would come next: an abstract specification of a saved setting that `ConfigStore` implements, and of a
delivered file that `DeltaTransfer` implements; a plugin service with two plugins; two files of one
transfer connection.
