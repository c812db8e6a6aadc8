--------------------------- MODULE MCAgentProcessor ---------------------------
(***************************************************************************)
(* Instances of AgentProcessor for TLC.                                    *)
(***************************************************************************)
EXTENDS AgentProcessor, TLC

Symmetry == Permutations(Requests) \cup Permutations(Auctions)
=============================================================================
