----------------------------- MODULE ScrubNodes -----------------------------
(***************************************************************************)
(* Managed scrubbing nodes: the brain's presence table (mitigate/nodes.go), *)
(* the choice of a node for a divert ban and the loss sweep that moves or   *)
(* degrades the ban (mitigate/nodeselect.go), for one victim.               *)
(*                                                                         *)
(* A node's only sign of life is its long-poll: open while one is parked,   *)
(* seen afterwards.  Ages are kept as distances from now, capped where the  *)
(* code stops telling them apart.                                           *)
(***************************************************************************)
EXTENDS Integers, FiniteSets, Sequences, SequencesExt

CONSTANTS
  Order,      \* the node names, in configuration order
  Stale,      \* scrubbing.stale_after_seconds
  Slack,      \* nodePollSlack
  MaxOpen,    \* polls of one node open at once (a timed-out one and its retry)
  ConfSet,    \* the configurations a reload may install
  NoNode      \* no managed node

Node == Range(Order)

NodesAssumption ==
  /\ Stale \in Nat \ {0} /\ Slack \in Nat /\ MaxOpen \in Nat \ {0}
  /\ NoNode \notin Node /\ Order \in Seq(Node)
  /\ \A c \in ConfSet :
       c.nodes \subseteq Node /\ c.eligible \subseteq Node /\ c.dryRun \in BOOLEAN

VARIABLES
  conf,     \* eligible nodes, nodes configured, last resort, whitelist, dry_run
  open,     \* open[n]: polls of n being served
  seen,     \* seen[n]: now - lastSeen; -1 if it never polled this process
  grace,    \* grace[n]: graceUntil - now; Unset before the first judgment
  held,     \* the divert ban of the victim
  route,    \* where its host route points
  rules,    \* its flowspec rules are up
  quiet     \* quiet[n]: time since n's last contact, or since this process
            \* could first have heard of it (not in the code)

nodeVars == <<open, seen, grace>>
vars == <<conf, nodeVars, held, route, rules, quiet>>

Never == -1
Unset == Stale + Slack + 1
Lapsed == -1
NoHold == [active |-> FALSE, dryRun |-> FALSE, node |-> NoNode, method |-> "none"]

---------------------------------------------------------------------------
(* Presence.                                                               *)

\* Only the name of a configured node is accepted.
NodePollStarted(n) ==
  /\ n \in conf.nodes /\ open[n] < MaxOpen
  /\ open' = [open EXCEPT ![n] = @ + 1]
  /\ seen' = [seen EXCEPT ![n] = 0]
  /\ quiet' = [quiet EXCEPT ![n] = 0]
  /\ UNCHANGED <<conf, grace, held, route, rules>>

PolledLess(n) == [open EXCEPT ![n] = @ - 1]

NodePollEnded(n) ==
  /\ open[n] > 0
  /\ open' = PolledLess(n)
  /\ seen' = [seen EXCEPT ![n] = 0]
  /\ quiet' = [quiet EXCEPT ![n] = 0]
  /\ UNCHANGED <<conf, grace, held, route, rules>>

NodeAlive(n) == open[n] > 0 \/ (seen[n] # Never /\ seen[n] < Stale)

\* Wrong variant: no allowance for a node the process has never heard.
NodeLostAtOnce(n, g) ==
  /\ open[n] = 0
  /\ IF seen[n] # Never THEN seen[n] >= Stale ELSE TRUE

\* Wrong variant: a node never heard is never lost.
NodeLostIfHeard(n, g) == open[n] = 0 /\ seen[n] # Never /\ seen[n] >= Stale

\* A node that polled is lost staleAfter after its last poll; one never heard
\* gets that and a poll cycle, from the first sweep that judged it.
NodeLost(n, g) ==
  /\ open[n] = 0
  /\ IF seen[n] # Never THEN seen[n] >= Stale ELSE g[n] = Lapsed

\* Judging a node that was never heard starts its allowance.
Judged == [n \in Node |->
             IF n \in conf.nodes /\ open[n] = 0 /\ seen[n] = Never /\ grace[n] = Unset
             THEN Stale + Slack ELSE grace[n]]

---------------------------------------------------------------------------
(* Selection.                                                              *)

\* Affinity: the first in configuration order.
First(S) == CHOOSE n \in S : \A m \in S : \E i, j \in DOMAIN Order :
              Order[i] = n /\ Order[j] = m /\ i <= j

SelectScrubNode(preferred, aliveOnly) ==
  LET eligible == conf.eligible
      alive == {n \in eligible : NodeAlive(n)}
  IN IF preferred \in eligible /\ ~aliveOnly THEN preferred
     ELSE IF alive # {} THEN First(alive)
     ELSE IF aliveOnly \/ eligible = {} THEN NoNode
     ELSE First(eligible)

---------------------------------------------------------------------------
(* The ban.                                                                *)

\* An announce that goes through replaces the host route; one that fails
\* changes nothing.  Dry-run announces nothing.
Diverted(n, ok) ==
  /\ ok \/ ~conf.dryRun
  /\ route' = IF ok /\ ~conf.dryRun THEN n ELSE route

\* A divert the peer rejects falls back to a blackhole.
Ban ==
  LET n == SelectScrubNode(NoNode, FALSE)
  IN /\ ~held.active /\ ~conf.whitelisted
     /\ \/ /\ Diverted(n, TRUE)
           /\ held' = [active |-> TRUE, dryRun |-> conf.dryRun, node |-> n, method |-> "divert"]
        \/ /\ ~conf.dryRun
           /\ route' = "hole"
           /\ held' = [active |-> TRUE, dryRun |-> FALSE, node |-> n, method |-> "blackhole"]
     /\ UNCHANGED <<conf, nodeVars, rules, quiet>>

\* The withdrawal is gated on the frozen flag.
TakeDown ==
  /\ held' = NoHold
  /\ IF held.dryRun THEN UNCHANGED <<route, rules>>
     ELSE /\ route' = IF held.method \in {"divert", "blackhole"} THEN "none" ELSE route
          /\ rules' = IF held.method = "flowspec" THEN FALSE ELSE rules

\* Attack over, ttl, operator.
Unban ==
  /\ held.active /\ TakeDown
  /\ UNCHANGED <<conf, nodeVars, quiet>>

---------------------------------------------------------------------------
(* The loss sweep.                                                         *)

Judge == grace' = Judged /\ UNCHANGED <<conf, open, seen, quiet>>

\* The divert must go: its node was dropped from the configuration or is lost.
Stranded(g) ==
  /\ held.active /\ held.method = "divert" /\ held.node # NoNode
  /\ held.node \notin conf.nodes \/ NodeLost(held.node, g)

\* Wrong variant: the choice is recorded whether or not the announce went out.
RelocatedAnyway(n, ok) == [held EXCEPT !.node = n]

Relocated(n, ok) == IF ok THEN [held EXCEPT !.node = n] ELSE held

MoveTo(n) ==
  \E ok \in BOOLEAN :
     /\ Diverted(n, ok)
     /\ held' = Relocated(n, ok)
     /\ UNCHANGED rules

\* on_all_nodes_lost; a failed announce waits for the next tick.
LastResort ==
  \/ /\ conf.policy = "blackhole"
     /\ route' = IF conf.dryRun THEN route ELSE "hole"
     /\ held' = [held EXCEPT !.method = "blackhole"]
     /\ UNCHANGED rules
  \/ /\ conf.policy = "flowspec"
     /\ rules' = ~conf.dryRun
     /\ route' = IF held.dryRun THEN route ELSE "none"
     /\ held' = [held EXCEPT !.method = "flowspec"]
  \/ /\ conf.policy # "withdraw" /\ ~conf.dryRun
     /\ UNCHANGED <<held, route, rules>>
  \/ conf.policy = "withdraw" /\ TakeDown

Waiting(g) ==
  \/ held.dryRun # conf.dryRun
  \/ /\ SelectScrubNode(NoNode, TRUE) = NoNode
     /\ \E n \in conf.eligible : ~NodeLost(n, g)

Sweep ==
  /\ Judge
  /\ \/ ~Stranded(Judged) /\ UNCHANGED <<held, route, rules>>
     \/ Stranded(Judged) /\ conf.whitelisted /\ TakeDown
     \/ /\ Stranded(Judged) /\ ~conf.whitelisted /\ Waiting(Judged)
        /\ UNCHANGED <<held, route, rules>>
     \/ /\ Stranded(Judged) /\ ~conf.whitelisted /\ ~Waiting(Judged)
        /\ LET n == SelectScrubNode(NoNode, TRUE)
           IN IF n # NoNode THEN MoveTo(n) ELSE LastResort

---------------------------------------------------------------------------
(* Environment.                                                            *)

\* Neither a sweep nor a poll of this process has named the node yet.
Unheard(n) == seen[n] = Never /\ grace[n] = Unset

\* A node the configuration drops may not poll any more; its parked poll ends
\* as NodePollEnded.
Reload ==
  /\ conf' \in ConfSet \ {conf}
  /\ quiet' = [n \in Node |-> IF Unheard(n) THEN 0 ELSE quiet[n]]
  /\ UNCHANGED <<nodeVars, held, route, rules>>

\* Nobody has been heard by the new process; the persisted ban keeps its node
\* while it is still eligible, and is announced again (dropped if that fails).
Restart ==
  LET n == SelectScrubNode(held.node, FALSE)
      on == IF held.method = "divert" THEN n ELSE "hole"
  IN /\ open' = [m \in Node |-> 0] /\ seen' = [m \in Node |-> Never]
     /\ grace' = [m \in Node |-> Unset] /\ quiet' = [m \in Node |-> 0]
     /\ IF held.active /\ ~conf.whitelisted
        THEN /\ held' = [held EXCEPT !.node = n, !.dryRun = conf.dryRun]
             /\ route' = IF conf.dryRun \/ held.method = "flowspec" THEN "none" ELSE on
             /\ rules' = (held.method = "flowspec" /\ ~conf.dryRun)
        ELSE held' = NoHold /\ route' = "none" /\ rules' = FALSE
     /\ UNCHANGED conf

Tick ==
  /\ seen' = [n \in Node |-> IF seen[n] \in 0..(Stale - 1) THEN seen[n] + 1 ELSE seen[n]]
  /\ grace' = [n \in Node |->
                 IF grace[n] = Unset \/ grace[n] = Lapsed THEN grace[n] ELSE grace[n] - 1]
  /\ quiet' = [n \in Node |-> IF quiet[n] < Stale THEN quiet[n] + 1 ELSE quiet[n]]
  /\ UNCHANGED <<conf, open, held, route, rules>>

Init ==
  /\ conf \in ConfSet
  /\ open = [n \in Node |-> 0]
  /\ seen = [n \in Node |-> Never]
  /\ grace = [n \in Node |-> Unset]
  /\ held = NoHold /\ route = "none" /\ rules = FALSE
  /\ quiet = [n \in Node |-> 0]

Next ==
  \/ \E n \in Node : NodePollStarted(n)
  \/ \E n \in Node : NodePollEnded(n)
  \/ Ban
  \/ Unban
  \/ Sweep
  \/ Reload
  \/ Restart
  \/ Tick

\* The one-second sweep keeps running (and its announce is not rejected for
\* ever), time passes, and a parked poll ends with its hold (rulesHoldMax).
Fairness ==
  /\ WF_vars(Sweep) /\ WF_vars(Tick)
  /\ \A n \in Node : WF_vars(NodePollEnded(n))

Spec == Init /\ [][Next]_vars /\ Fairness

---------------------------------------------------------------------------
(* Properties.                                                             *)

TypeOK ==
  /\ conf \in ConfSet
  /\ open \in [Node -> 0..MaxOpen]
  /\ seen \in [Node -> Never..Stale]
  /\ grace \in [Node -> Lapsed..Unset]
  /\ held.node \in Node \cup {NoNode}
  /\ route \in Node \cup {NoNode, "hole", "none"}
  /\ quiet \in [Node -> 0..Stale]

\* The victim's traffic goes where its ban says: a real divert points at the
\* node the ban is recorded on, a degraded ban is on its blackhole or its rules,
\* and nothing is left up that no ban is on, whichever announces failed
\* (relocateBanLocked), a reload that flips dry_run under the ban included.
RouteFollowsBan ==
  LET real == held.active /\ ~held.dryRun
  IN /\ route = IF real /\ held.method = "divert" THEN held.node
                ELSE IF real /\ held.method = "blackhole" THEN "hole" ELSE "none"
     /\ rules = (real /\ held.method = "flowspec")

Gone(n) == open[n] = 0 /\ quiet[n] >= Stale

\* A ban is moved or degraded only off a node that is really gone: no poll of it
\* is open and none was for stale_after; and before the last resort runs, the
\* same is true of every node that could take the victim, also of those this
\* process has only just begun to listen for (nodeLost: "must not execute
\* on_all_nodes_lost against every rehydrated ban on that ignorance").
MovedOnlyWhenLost ==
  [][Sweep /\ held.method = "divert" /\ held' # held /\ ~conf.whitelisted =>
       /\ held.node \in conf.nodes => Gone(held.node)
       /\ held'.method # "divert" => \A n \in conf.eligible : Gone(n)]_vars

\* What makes the above inductive: the shape of a ban; and, of a node, that quiet
\* is the age of its last poll, or at least what its allowance has used up.
HeldTyped ==
  /\ held \in [active : BOOLEAN, dryRun : BOOLEAN, node : Node \cup {NoNode},
               method : {"none", "divert", "blackhole", "flowspec"}]
  /\ held.active => held.method # "none"

SilenceCounted ==
  \A n \in Node :
    IF seen[n] # Never THEN quiet[n] = seen[n]
    ELSE grace[n] # Unset => quiet[n] = Stale \/ quiet[n] + grace[n] >= Stale + Slack

IInv == TypeOK /\ HeldTyped /\ RouteFollowsBan /\ SilenceCounted

\* No victim stays diverted to a node that fell silent, unless dry_run was
\* flipped under its ban or the peer rejects every announce.
SilentNodeDrained ==
  \A n \in Node :
     <>[](quiet[n] >= Stale /\ held.dryRun = conf.dryRun)
       => []<>~(held.active /\ held.method = "divert" /\ held.node = n)
=============================================================================
