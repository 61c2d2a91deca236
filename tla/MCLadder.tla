------------------------------ MODULE MCLadder ------------------------------
(***************************************************************************)
(* One host on the full ladder, backends that may refuse a call, reloads    *)
(* that take the host out of the networks.                                  *)
(***************************************************************************)
EXTENDS Mitigator

CONSTANTS h1, w1, sweeper, none

MCHost    == {h1}
MCMembers == [p \in {} |-> {}]
MCSpan    == [t \in {h1} |-> 1]

Full == << [after |-> 0, action |-> "dataplane"],
           [after |-> 1, action |-> "flowspec"],
           [after |-> 2, action |-> "divert"],
           [after |-> 3, action |-> "blackhole"] >>

Base ==
  [ dryRun |-> FALSE, whitelist |-> {}, networks |-> {h1}, ttl |-> 2,
    fallback |-> TRUE, banEnabled |-> TRUE, ladder |-> Full, carpet |-> "alert", maxActive |-> 1,
    maxPrefix |-> 1, maxAddresses |-> 0, maxPerWindow |-> 0, window |-> 1 ]

MCConfig == {Base, [Base EXCEPT !.networks = {}]}
=============================================================================
