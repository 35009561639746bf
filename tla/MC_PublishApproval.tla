------------------------- MODULE MC_PublishApproval -------------------------
(* Instantiates PublishApproval for TLC: two application ids, one editor,  *)
(* two concurrent sys-approve requests, one workflow and one agent version. *)
EXTENDS PublishApproval, TLC

CONSTANTS a1, a2, u1, r1, r2, w1, g1

MCAppIds == {a1, a2}
MCAccounts == {u1}
MCReqs == {r1, r2}
MCWorkflowVersions == {w1}
MCAgentVersions == {g1}
\* "3" is a string the parser accepts that names no ApplyAppType member.
MCTypeInputs == {"1", "2", "3"}
\* The default "" and the tenant both versions and the administrator are in.
MCTenantInputs == {"", "t1"}
MCVersionTenant == [v \in MCWorkflowVersions \cup MCAgentVersions |-> "t1"]

\* Application ids and request threads are interchangeable.
MCSymmetry == Permutations(MCAppIds) \cup Permutations(MCReqs)
=============================================================================
