-------------------------- MODULE MCPluginService --------------------------
(* PluginService for TLC, twice in one run: `part` says who takes part in a *)
(* behaviour.  Either an SSH session meets callers whose saves overlap, or a *)
(* serial port, whose output may follow its end, meets one of them.          *)
EXTENDS PluginService

VARIABLE part

AllCallers == [sessions |-> Sessions \ Shared, callers |-> Callers, outputs |-> 1]

SerialPort ==
  [sessions |-> Shared, callers |-> {CHOOSE c \in Callers : TRUE},
   outputs |-> MaxOutputs]

MCInit == Init /\ part \in {AllCallers, SerialPort}

\* The others stay where Init has put them.
MCNext ==
  /\ Next
  /\ UNCHANGED part
  /\ \A s \in Sessions \ part.sessions : owner'[s] = "new"
  /\ \A c \in Callers \ part.callers : call'[c] = "idle"
  /\ outputs' <= part.outputs

MCSpec == MCInit /\ [][MCNext]_<<vars, part>> /\ Fairness

=============================================================================
