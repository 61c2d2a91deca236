------------------------------ MODULE MCTables ------------------------------
(***************************************************************************)
(* Both ban tables at their limits: two hosts and two prefixes, of which    *)
(* the caps allow one each and the blast radius only some pairs; reloads    *)
(* whitelist a host inside a prefix or drop a target from the networks.     *)
(***************************************************************************)
EXTENDS Mitigator

CONSTANTS h1, h2, p1, p2, w1, sweeper, none

MCHost    == {h1, h2}
MCPrefix  == {p1, p2}
MCMembers == [p \in MCPrefix |-> IF p = p1 THEN {h1} ELSE {h1, h2}]
MCSpan    == [t \in {h1, h2, p1, p2} |-> CASE t = p1 -> 2 [] t = p2 -> 3 [] OTHER -> 1]

Base ==
  [ dryRun |-> FALSE, whitelist |-> {}, networks |-> {h1, h2, p1, p2}, ttl |-> 2,
    fallback |-> TRUE, banEnabled |-> TRUE, ladder |-> << [after |-> 0, action |-> "dataplane"] >>,
    carpet |-> "dataplane", maxActive |-> 1, maxPrefix |-> 1, maxAddresses |-> 3,
    maxPerWindow |-> 1, window |-> 1 ]

MCConfig == {Base, [Base EXCEPT !.whitelist = {h2}, !.networks = @ \ {h1},
                            !.carpet = "alert"]}
=============================================================================
