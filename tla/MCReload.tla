------------------------------ MODULE MCReload ------------------------------
(***************************************************************************)
(* One host, and what changes under a live ban: a reload flips dry_run, or  *)
(* whitelists the host while the operator bans it again.                    *)
(***************************************************************************)
EXTENDS Mitigator

CONSTANTS h1, w1, sweeper, none

MCHost    == {h1}
MCMembers == [p \in {} |-> {}]
MCSpan    == [t \in {h1} |-> 1]

Base ==
  [ dryRun |-> FALSE, whitelist |-> {}, networks |-> {h1}, ttl |-> 4,
    fallback |-> TRUE, banEnabled |-> TRUE,
    ladder |-> << [after |-> 0, action |-> "dataplane"],
                  [after |-> 1, action |-> "blackhole"] >>,
    carpet |-> "alert", maxActive |-> 1, maxPrefix |-> 1, maxAddresses |-> 0,
    maxPerWindow |-> 0, window |-> 1 ]

\* No attack, only the operator: bans and re-bans, reloads, and the sweep.
OperatorNext ==
  \/ \E w \in Caller : Begin(w)
  \/ \E w \in Worker, h \in Host : ManualBan(w, h)
  \/ Sweep
  \/ Reload
  \/ Tick
OperatorSpec == Init /\ [][OperatorNext]_vars

\* It starts as a trial run.  A reload finds no call of a worker in progress, and the
\* second that a sweep reads with its configuration is still the one it works in.
TrialInit == Init /\ cfg.dryRun
TrialNext ==
  \/ \E w \in Caller : Begin(w)
  \/ \E w \in Worker, h \in Host : ManualBan(w, h)
  \/ Sweep
  \/ (\A w \in Caller : held[w] = NoConfig) /\ (Reload \/ Tick)
TrialSpec == TrialInit /\ [][TrialNext]_vars

DryRunFlip      == {Base, [Base EXCEPT !.dryRun = TRUE]}
WhitelistReload == {Base, [Base EXCEPT !.whitelist = {h1}]}
=============================================================================
