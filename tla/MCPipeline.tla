----------------------------- MODULE MCPipeline -----------------------------
(***************************************************************************)
(* One host attacked in both directions, or one host and the carpet prefix  *)
(* around it; reloads switch banning off, or whitelist the host.            *)
(***************************************************************************)
EXTENDS Pipeline

CONSTANTS h1, p1

Carpeted == [p \in {p1} |-> {h1}]
NoCarpet == [p \in {} |-> {}]
MCSpan   == [t \in Host \cup Prefix |-> 1]

Blackhole ==
  [ dryRun |-> FALSE, whitelist |-> {}, networks |-> Host \cup Prefix, ttl |-> 1,
    fallback |-> TRUE, banEnabled |-> TRUE,
    ladder |-> << [after |-> 0, action |-> "blackhole"] >>,
    carpet |-> "blackhole", maxActive |-> 1, maxPrefix |-> 1, maxAddresses |-> 0,
    maxPerWindow |-> 0, window |-> 1 ]

\* Runs MCPipeline, MCCarpet and PhantomHold.
HostPolicies   == {Blackhole, [Blackhole EXCEPT !.banEnabled = FALSE],
                              [Blackhole EXCEPT !.whitelist = {h1}]}
CarpetPolicies == {Blackhole, [Blackhole EXCEPT !.banEnabled = FALSE, !.carpet = "alert"],
                              [Blackhole EXCEPT !.whitelist = {h1}]}
OnePolicy      == {Blackhole}
=============================================================================
