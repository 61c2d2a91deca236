------------------------------- MODULE Fleet --------------------------------
(***************************************************************************)
(* What keeps the nodes away from the brain doing their work: the brain's   *)
(* view of which scrub node is alive (ScrubNodes), the rules that reach one *)
(* (ScrubAgent), the program that stays on its interfaces (Attachment) and  *)
(* the certificates of the edge nodes (Acme).  They share no variable and   *)
(* no step, so a behaviour is one of a single part, with the others at rest.*)
(***************************************************************************)
EXTENDS Integers, FiniteSets, Sequences

CONSTANTS
  Order, Stale, Slack, MaxOpen, ConfSet, NoNode,                \* ScrubNodes
  Ttl, WatchOnly, HoldCap, MayFail, NoEntry, NoDoc, Adopted,    \* ScrubAgent
  Iface, Index, Build, Mode, AutoMode, Backoff,                 \* Attachment
  Holder, NoHolder, Lease, SlotWait, FallbackAfter, Upsets      \* Acme

VARIABLES
  part,    \* the part that moves: "nodes" | "agent" | "links" | "certs"
  conf, open, seen, grace, held, route, rules, quiet,           \* ScrubNodes
  entry, known, promised, poll, woken, orphans, reply,
  etag, installed, seeded, kernel, missed,                      \* ScrubAgent
  dev, busy, link, pins, objs, mode, named, att, stage, todo,   \* Attachment
  slot, fanned, order, fails, cert, store, good, reach, upset   \* Acme

N == INSTANCE ScrubNodes
A == INSTANCE ScrubAgent
L == INSTANCE Attachment
C == INSTANCE Acme

ASSUME FleetAssumption ==
  /\ N!NodesAssumption /\ A!AgentAssumption
  /\ L!AttachmentAssumption /\ C!AcmeAssumption

nodeVars == <<conf, open, seen, grace, held, route, rules, quiet>>
agentVars == <<entry, known, promised, poll, woken, orphans, reply,
               etag, installed, seeded, kernel, missed>>
linkVars == <<dev, busy, link, pins, objs, mode, named, att, stage, todo>>
certVars == <<slot, fanned, order, fails, cert, store, good, reach, upset>>
vars == <<part, nodeVars, agentVars, linkVars, certVars>>

Init ==
  /\ part \in {"nodes", "agent", "links", "certs"}
  /\ N!Init /\ A!Init /\ L!Init /\ C!Init
  /\ part = "nodes" \/ conf = CHOOSE c \in ConfSet : TRUE
  /\ part = "links" \/ dev = CHOOSE d \in [Iface -> Index] : TRUE
  /\ part = "certs" \/ cert = [n \in Holder |-> "none"]

Nodes == part = "nodes" /\ N!Next /\ UNCHANGED <<part, agentVars, linkVars, certVars>>
Agent == part = "agent" /\ A!Next /\ UNCHANGED <<part, nodeVars, linkVars, certVars>>
Links == part = "links" /\ L!Next /\ UNCHANGED <<part, nodeVars, agentVars, certVars>>
Certs == part = "certs" /\ C!Next /\ UNCHANGED <<part, nodeVars, agentVars, linkVars>>

Next == Nodes \/ Agent \/ Links \/ Certs

\* The fairness of the part that moves.
Fairness ==
  /\ WF_nodeVars(part = "nodes" /\ N!Sweep)
  /\ WF_nodeVars(part = "nodes" /\ N!Tick)
  /\ \A n \in N!Node : WF_nodeVars(part = "nodes" /\ N!NodePollEnded(n))
  /\ WF_linkVars(part = "links" /\ L!Tick)
  /\ \A i \in Iface : WF_linkVars(part = "links" /\ L!Reconcile(i))
  /\ \A h \in Holder : WF_certVars(part = "certs" /\ C!Attempt(h))
  /\ WF_certVars(part = "certs" /\ C!Tick)

Spec == Init /\ [][Next]_vars /\ Fairness

---------------------------------------------------------------------------
(* Properties.                                                             *)

\* The victim's traffic goes where its ban says, whichever announces failed
\* while the ban was moved or degraded (ScrubNodes).
RouteFollowsBan == N!TypeOK /\ N!RouteFollowsBan

\* A ban is moved only off a node that is really gone, and degraded only when
\* every other node is as well (ScrubNodes).
MovedOnlyWhenLost == N!MovedOnlyWhenLost

\* A poll sleeps only on what the brain still serves (ScrubAgent).
SleeperWillHear == A!SleeperWillHear

\* A node's kernel does what the document it holds says, and never beyond the
\* latest deadline the brain has set (ScrubAgent).
NodeEnforcesDocument == A!TypeOK /\ A!KernelFollowsDocument /\ A!NodeLapsesWithBan

\* An interface called attached is filtered by this manager's maps in an accepted
\* mode; no adoption believes a stale link, and no restart opens a gap (Attachment).
NoUnfilteredGap ==
  [](L!TypeOK /\ L!FilteredByOwnMaps) /\ L!AttachedFilters /\ L!RestartLeavesNoGap

\* Of the nodes the brain granted a zone to at most one is ordering, with its
\* challenge in every document while the CA validates; and a kill loses at most
\* the new certificate (Acme).
CertificatesSafe == C!TypeOK /\ C!OneGrantedOrder /\ C!CertificateWhole

\* What was lost comes back: no victim stays diverted to a silent node, no
\* interface stays unfiltered, no renewal fails for ever (ScrubNodes, Attachment,
\* Acme).
LossRepaired ==
  /\ part = "nodes" => N!SilentNodeDrained
  /\ part = "links" => L!Refiltered
  /\ part = "certs" => C!RenewedInTheEnd
=============================================================================
