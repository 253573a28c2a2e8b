--------------------------- MODULE MCDesktopClient ---------------------------
(***************************************************************************)
(* Instances of DesktopClient for TLC.                                     *)
(***************************************************************************)
EXTENDS DesktopClient

CONSTANTS c1, c2, k1, k2, s1, s2, n1, n2

\* Nothing tells apart two commands, clients, sessions or responses.  Only for
\* a run without liveness.
Symmetry ==
  Permutations(Commands) \cup Permutations(McpClients)
    \cup Permutations(SessionIds) \cup Permutations(Conns)

=============================================================================
