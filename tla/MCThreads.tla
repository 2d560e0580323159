------------------------------- MODULE MCThreads -------------------------------
(* Three independent machines with threads that must end, in one run: `part`  *)
(* says which of them a behaviour is about, and the others rest.              *)
EXTENDS SerialPorts, SshWorker, TransferServer

VARIABLE part

threadsVars == <<part, serialVars, workerThreadVars, transferVars>>

(* A worker whose thread has ended; the other machines start with no thread.  *)
WorkerAtRest ==
  /\ hostKey = "saved" /\ stage = "closed" /\ round = "top"
  /\ sleeper = "awake" /\ mutexHeld = FALSE
  /\ answered = FALSE /\ trusted = FALSE /\ stopping = FALSE /\ notified = FALSE
  /\ given = 0 /\ commands = <<>> /\ input = <<>>
  /\ resize = 0 /\ retrying = FALSE /\ call = NoCall /\ screen = 0

Init ==
  /\ part \in {"serial port", "SSH worker", "transfer server"}
  /\ SerialInit /\ TransferInit
  /\ IF part = "SSH worker" THEN WorkerInit ELSE WorkerAtRest
  /\ part # "transfer server" => settings = CHOOSE s \in Settings : TRUE

Next ==
  /\ UNCHANGED part
  /\ \/ /\ part = "serial port" /\ SerialNext
        /\ UNCHANGED <<workerThreadVars, transferVars>>
     \/ /\ part = "SSH worker" /\ WorkerNext
        /\ UNCHANGED <<serialVars, transferVars>>
     \/ /\ part = "transfer server" /\ TransferNext
        /\ UNCHANGED <<serialVars, workerThreadVars>>

(* A machine at rest enables no step that fairness asks for.                  *)
Fairness == SerialFairness /\ WorkerFairness /\ TransferFairness

Spec == Init /\ [][Next]_threadsVars /\ Fairness

\* The types of the three machines.
TypeOK == SerialTypeOK /\ WorkerTypeOK /\ TransferTypeOK

\* What several users share stays what they were told: the session of a
\* serial port, and the settings of the transfer server.
SharedIsSafe == SharedPortIsSafe /\ RunningUsesSettings
=============================================================================
