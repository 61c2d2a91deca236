------------------------------ MODULE MCRenewal -----------------------------
(***************************************************************************)
(* A host and a carpet prefix, each banned in the kernel for a ttl of which  *)
(* a half is more than a second, so that the heartbeats of one come while    *)
(* those of the other pause.                                                 *)
(***************************************************************************)
EXTENDS Mitigator

CONSTANTS h1, p1, w1, sweeper, none

MCHost    == {h1}
MCPrefix  == {p1}
MCMembers == [p \in MCPrefix |-> {}]
MCSpan    == [t \in {h1, p1} |-> 1]

Base ==
  [ dryRun |-> FALSE, whitelist |-> {}, networks |-> {h1, p1}, ttl |-> 4,
    fallback |-> TRUE, banEnabled |-> TRUE,
    ladder |-> << [after |-> 0, action |-> "flowspec"], [after |-> 2, action |-> "dataplane"] >>,
    carpet |-> "dataplane", maxActive |-> 1, maxPrefix |-> 1, maxAddresses |-> 0,
    maxPerWindow |-> 0, window |-> 1 ]

MCConfig == {Base, [Base EXCEPT !.networks = {p1}]}
=============================================================================
