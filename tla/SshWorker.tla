------------------------------ MODULE SshWorker ------------------------------
(***************************************************************************)
(* The thread of one SSH terminal (SshSession::Run in ssh/ssh_session.cpp) *)
(* with the calls that reach it: Write, Resize, ConfirmHostKey and         *)
(* RequestStop.  Who may call them, and when, is in SshSessions; what      *)
(* happens to the output is in SshStream.                                  *)
(*                                                                         *)
(* libssh2 does not block.  What has answered EAGAIN must be called again  *)
(* with the same arguments: `call` is the last operation on the channel.   *)
(***************************************************************************)
EXTENDS Integers, Sequences

CONSTANTS
  Sizes,       \* terminal sizes, natural numbers
  MaxCommands  \* bound: inputs and resizes asked for

ASSUME WorkerAssumption == MaxCommands \in Nat

VARIABLES
  hostKey,   \* the key of the host: as saved, changed, or unknown
  stage,     \* where Run is, up to the terminal
  round,     \* where it is in the loop of the terminal
  sleeper,   \* the wait for the answer about the host key
  mutexHeld, \* the worker has mutex_ between its test and its sleep
  answered, trusted,  \* trust_answered_, host_trusted_
  stopping,  \* the stop token
  notified,  \* RequestStop has notified, too
  given,     \* commands given so far
  commands,  \* commands_
  input,     \* pending_input from pending_offset on
  resize,    \* pending_resize, 0 for none
  retrying,  \* retrying_input_write
  call,      \* the last channel operation, and whether it is done
  screen     \* the size the remote terminal has, 0 for the first one

requestVars == <<answered, trusted, stopping, notified, given>>
loopVars == <<round, commands, input, resize, retrying, call, screen>>
waitVars == <<sleeper, mutexHeld>>
workerThreadVars == <<hostKey, stage, requestVars, loopVars, waitVars>>

NoCall == [op |-> "none", args |-> <<>>, done |-> TRUE]

WorkerInit ==
  /\ hostKey \in {"saved", "changed", "unknown"}
  /\ stage = "transport" /\ round = "top"
  /\ sleeper = "awake" /\ mutexHeld = FALSE
  /\ answered = FALSE /\ trusted = FALSE
  /\ stopping = FALSE /\ notified = FALSE
  /\ given = 0 /\ commands = <<>> /\ input = <<>>
  /\ resize = 0 /\ retrying = FALSE
  /\ call = NoCall /\ screen = 0

Ended == stage \in {"closed", "failed"}
MutexFree == ~mutexHeld

-----------------------------------------------------------------------------
(* The calls of other threads.                                             *)

WakeUp == sleeper' = IF sleeper = "asleep" THEN "awake" ELSE sleeper

\* An input is known by its number, which is 0 for a resize.
GiveCommand(number, size) ==
  /\ MutexFree /\ given < MaxCommands
  /\ given' = given + 1
  /\ commands' = Append(commands, [number |-> number, size |-> size])
  /\ WakeUp
  /\ UNCHANGED <<hostKey, stage, answered, trusted, stopping, notified, round, input, resize,
                 retrying, call, screen, mutexHeld>>
WriteInput == GiveCommand(given + 1, 0)
ResizeTo(size) == GiveCommand(0, size)

ConfirmHostKey(answer) ==
  /\ MutexFree
  /\ answered' = TRUE /\ trusted' = answer
  /\ WakeUp
  /\ UNCHANGED <<hostKey, stage, stopping, notified, given, loopVars, mutexHeld>>

\* Mutant: the stop source is told without the mutex.
NoMutex == TRUE
MayStop == MutexFree

AskStop ==
  /\ ~stopping /\ MayStop
  /\ stopping' = TRUE
  /\ UNCHANGED <<hostKey, stage, answered, trusted, notified, given, loopVars, waitVars>>

NotifyStop ==
  /\ stopping /\ ~notified
  /\ notified' = TRUE
  /\ WakeUp
  /\ UNCHANGED <<hostKey, stage, answered, trusted, stopping, given, loopVars, mutexHeld>>

-----------------------------------------------------------------------------
(* Run, up to the terminal.                                                *)

Goes(from, to) == stage = from /\ stage' = to

\* Connecting, over the jump host if there is one, and the SSH handshake.
Connects ==
  /\ ~stopping
  /\ Goes("transport", "handshake")
  /\ UNCHANGED <<hostKey, requestVars, loopVars, waitVars>>

ChecksHostKey ==
  /\ stage = "handshake" /\ ~stopping
  /\ stage' = CASE hostKey = "saved" -> "authentication"
                [] hostKey = "changed" -> "closed"
                [] hostKey = "unknown" -> "host-key"
  /\ UNCHANGED <<hostKey, requestVars, loopVars, waitVars>>

\* condition_.wait: the predicate is tested under the mutex, which the sleep
\* gives back.
HeardAboutKey == answered \/ stopping

TestAnswer ==
  /\ stage = "host-key" /\ sleeper = "awake" /\ MutexFree
  /\ IF HeardAboutKey
       THEN /\ stage' = IF ~stopping /\ trusted THEN "authentication" ELSE "closed"
            /\ UNCHANGED waitVars
       ELSE /\ sleeper' = "dozing" /\ mutexHeld' = TRUE
            /\ UNCHANGED stage
  /\ UNCHANGED <<hostKey, requestVars, loopVars>>

FallAsleep ==
  /\ sleeper = "dozing"
  /\ sleeper' = "asleep" /\ mutexHeld' = FALSE
  /\ UNCHANGED <<hostKey, stage, requestVars, loopVars>>

\* Authentication (the fingerprint of a trusted host is saved before it, the
\* credential after it), then the channel with its pty and shell.
Authenticates ==
  /\ ~stopping
  /\ Goes("authentication", "connected")
  /\ UNCHANGED <<hostKey, requestVars, loopVars, waitVars>>

\* Every wait of these stages has a deadline and tests the stop token.
Fails ==
  /\ stage \in {"transport", "handshake", "authentication"}
  /\ stage' = "failed"
  /\ UNCHANGED <<hostKey, requestVars, loopVars, waitVars>>

-----------------------------------------------------------------------------
(* The loop of the terminal.                                               *)

At(place) == stage = "connected" /\ round = place

\* The remote end may have closed the channel, which ends the loop, too.
LeaveLoop ==
  /\ At("top")
  /\ stage' = "closed"
  /\ UNCHANGED <<hostKey, requestVars, loopVars, waitVars>>

\* Mutant: new commands are taken in every round.
Always == TRUE
MayTakeCommands == ~retrying

\* What is typed is appended command by command, a resize only remembered.
InputsOfFirst(cs) ==
  LET typed[k \in 0 .. Len(cs)] ==
        IF k = 0 THEN <<>>
        ELSE IF cs[k].number = 0 THEN typed[k - 1]
        ELSE Append(typed[k - 1], cs[k].number)
  IN typed
Inputs(cs) == InputsOfFirst(cs)[Len(cs)]
LastSize(cs, before) ==
  LET resizes == {i \in DOMAIN cs : cs[i].number = 0}
  IN IF resizes = {} THEN before
     ELSE cs[CHOOSE i \in resizes : \A k \in resizes : k <= i].size

TakeCommands ==
  /\ At("top") /\ ~stopping
  /\ IF MayTakeCommands
       THEN /\ input' = input \o Inputs(commands)
            /\ resize' = LastSize(commands, resize)
            /\ commands' = <<>>
       ELSE UNCHANGED <<input, resize, commands>>
  /\ round' = "resizing"
  /\ UNCHANGED <<hostKey, stage, requestVars, waitVars, retrying, call, screen>>

\* A request that libssh2 has begun is completed as it was begun, whatever
\* the arguments of the call that completes it.
AskRemoteSize ==
  /\ At("resizing")
  /\ IF resize = 0 \/ retrying
       THEN round' = "writing" /\ UNCHANGED <<resize, call, screen>>
       ELSE \/ /\ call' = [op |-> "resize", args |-> <<resize>>, done |-> TRUE]
               /\ screen' = IF call.op = "resize" /\ ~call.done THEN call.args[1] ELSE resize
               /\ resize' = 0 /\ round' = "writing"
            \/ /\ call' = IF call.op = "resize" /\ ~call.done THEN call
                          ELSE [op |-> "resize", args |-> <<resize>>, done |-> FALSE]
               /\ round' = "top"
               /\ UNCHANGED <<resize, screen>>
            \/ /\ call' = NoCall  \* it fails, which is only logged
               /\ resize' = 0 /\ round' = "writing"
               /\ UNCHANGED screen
  /\ UNCHANGED <<hostKey, stage, requestVars, waitVars, commands, input, retrying>>

\* The first n inputs of the buffer are taken, or none: then the round ends,
\* without reading from the channel.
WriteChannel(n) ==
  /\ At("writing") /\ input # <<>>
  /\ input' = SubSeq(input, n + 1, Len(input))
  /\ call' = [op |-> "write", args |-> input, done |-> n > 0]
  /\ IF n > 0 THEN UNCHANGED <<round, retrying>> ELSE round' = "top" /\ retrying' = TRUE
  /\ UNCHANGED <<hostKey, stage, requestVars, waitVars, commands, resize, screen>>

WritesDone ==
  /\ At("writing") /\ input = <<>>
  /\ retrying' = FALSE /\ round' = "reading"
  /\ UNCHANGED <<hostKey, stage, requestVars, waitVars, commands, input, resize, call, screen>>

\* Output is read until there is none; then the loop waits, for 20 ms at
\* most, unless it has read something.
ReadChannel ==
  /\ At("reading")
  /\ call' = [op |-> "read", args |-> <<>>, done |-> TRUE]
  /\ UNCHANGED <<hostKey, stage, requestVars, waitVars, round, commands, input, resize, retrying,
                 screen>>

NothingToRead ==
  /\ At("reading")
  /\ round' = "top"
  /\ call' = [op |-> "read", args |-> <<>>, done |-> TRUE]
  /\ UNCHANGED <<hostKey, stage, requestVars, waitVars, commands, input, resize, retrying, screen>>

\* A write, a read or the keep-alive fails.
ChannelFails ==
  /\ stage = "connected" /\ round \in {"writing", "reading"}
  /\ stage' = "failed"
  /\ UNCHANGED <<hostKey, requestVars, loopVars, waitVars>>

-----------------------------------------------------------------------------
RunStep ==
  \/ Connects \/ ChecksHostKey \/ TestAnswer \/ FallAsleep \/ Authenticates \/ Fails
  \/ LeaveLoop \/ TakeCommands \/ AskRemoteSize
  \/ (\E n \in 0 .. Len(input) : WriteChannel(n))
  \/ WritesDone \/ NothingToRead \/ ChannelFails

WorkerNext ==
  \/ WriteInput \/ (\E s \in Sizes : ResizeTo(s))
  \/ (\E a \in BOOLEAN : ConfirmHostKey(a))
  \/ AskStop \/ NotifyStop
  \/ RunStep \/ ReadChannel

\* The thread runs, who asked for the stop goes on to notify, and the remote
\* end pauses now and then: without that the reading never ends.
WorkerFairness == WF_workerThreadVars(RunStep) /\ WF_workerThreadVars(NotifyStop)

WorkerSpec == WorkerInit /\ [][WorkerNext]_workerThreadVars /\ WorkerFairness

-----------------------------------------------------------------------------
WorkerTypeOK ==
  /\ hostKey \in {"saved", "changed", "unknown"}
  /\ stage \in {"transport", "handshake", "host-key", "authentication", "connected",
                "closed", "failed"}
  /\ round \in {"top", "resizing", "writing", "reading"}
  /\ sleeper \in {"awake", "dozing", "asleep"}
  /\ {mutexHeld, answered, trusted, stopping, notified, retrying, call.done} \subseteq BOOLEAN
  /\ given \in 0 .. MaxCommands
  /\ Len(commands) <= given /\ Len(input) <= given
  /\ {resize, screen} \subseteq Sizes \cup {0}

\* A write that libssh2 could not complete is the next thing done on the
\* channel, with the same data, whatever is typed or resized meanwhile (the
\* comment before the loop's first step asks for it).
RetriesTheSameWrite ==
  [][(call.op = "write" /\ ~call.done /\ call' # call)
       => (call'.op = "write" /\ call'.args = call.args)]_workerThreadVars

\* A stop request ends the thread, also while it waits for the user's answer
\* about the host key or for the remote end to take its input.
StopEndsWorker == stopping ~> Ended
=============================================================================
