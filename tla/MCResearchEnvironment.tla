----------------------- MODULE MCResearchEnvironment -----------------------
(* The desktop app and the headless server, for TLC. *)
EXTENDS ResearchEnvironment, TLC

CONSTANTS desktop, server

MCProcs == {desktop, server}
Symmetry == Permutations(MCProcs)
=============================================================================
