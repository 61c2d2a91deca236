------------------------------ MODULE MCFleet -------------------------------
(* Two scrub nodes, one agent, two interfaces and two edge nodes. *)
EXTENDS Fleet

CONSTANTS n1, n2

MCOrder == <<n1, n2>>

\* A reload drops a node, drains one and flips dry_run, or whitelists the victim.
Both == [nodes |-> {n1, n2}, eligible |-> {n1, n2}, policy |-> "flowspec",
         whitelisted |-> FALSE, dryRun |-> FALSE]
MCConfSet == {
  Both,
  [Both EXCEPT !.nodes = {n2}, !.eligible = {n2}, !.policy = "blackhole"],
  [Both EXCEPT !.eligible = {n1}, !.policy = "withdraw", !.dryRun = TRUE],
  [Both EXCEPT !.whitelisted = TRUE]}
=============================================================================
