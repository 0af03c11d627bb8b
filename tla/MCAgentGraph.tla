---------------------------- MODULE MCAgentGraph ----------------------------
(* Instances of AgentGraph for TLC. *)
EXTENDS AgentGraph, TLC

CONSTANTS safe, staged, reader, writer

\* A call that needs no Approval, one that does between two that do not, and
\* a batch that asks twice.
MixedBatches == {<<safe>>, <<safe, staged, safe>>, <<staged, staged>>}

\* The writer may stage, and asks for more than that.
MCGrants == [a \in Agents |-> IF a = reader THEN {safe} ELSE {staged}]

Symmetry == Permutations(Runs) \cup Permutations(Approvals)
=============================================================================
