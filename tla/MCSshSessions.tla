--------------------------- MODULE MCSshSessions ---------------------------
(* Instances of SshSessions for TLC.                                       *)
EXTENDS SshSessions, TLC

Symmetry ==
  Permutations(Conns) \cup Permutations(Sessions) \cup Permutations(Tokens)

=============================================================================
