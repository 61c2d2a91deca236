-------------------------------- MODULE Edge --------------------------------
(***************************************************************************)
(* The edge: a node that renders, tests and serves the brain's document     *)
(* (EdgeNode), the long-poll that brings it (ZoneHold), the clearance keys  *)
(* it carries (Clearance), the decider's verdicts (Verdicts) and ceilings   *)
(* (Admission), the log it counts (Rollup), what its rules make of a window *)
(* (Ladder), and the exporter beside an nginx of one's own (Exporter).      *)
(* Between them they pass only whole documents, windows and verdicts, and   *)
(* each takes any at any time, so a behaviour is one of a single part, with *)
(* the others at rest.                                                      *)
(***************************************************************************)
EXTENDS Integers, FiniteSets, Sequences

CONSTANTS
  Doc, Valid, NoDoc, Unreadable, Keep, Faults, MayFail,          \* EdgeNode
  Node, ConfSet, Ttl,                                            \* ZoneHold
  Holder, Path, Foreign, Secret, Epoch, MaxTtl,                  \* Clearance
  Zone, Src, Every, Target, MaxEntries, Levers, FullEvery,       \* Verdicts
  MaxSources, MinQuota, Rps, Concurrency, Earn, Idle, MaxAge,
  SweepEvery, Pending,                                           \* Admission
  LogZone, LogSource, LogKind, MaxPairs, TopSources, Records,
  Length, NoRecord,                                              \* Rollup
  Flooder, Closed, FloodMin, FloodShare, DenyTtl, MaxDenyTtl,
  ChallengeTtl, RepeatMemory, MaxRepeats, ZoneRps, FlipHold,     \* Ladder
  Lines, Rotations, Window, BlockTtl, NoFile                     \* Exporter

VARIABLES
  part,    \* the part that moves: "node" | "hold" | "keys" | "verdicts" | "ceilings"
           \* | "log" | "rules" | "exporter"
  latest, published, reverted, cached, gens, live, serving,
  phase, doc, tag, retry, poll, job, faults,                     \* EdgeNode
  config, lever, request, holds, alerted,                        \* ZoneHold
  clock, setting, ring, ringFile, saved, keys, cookie,           \* Clearance
  ruled, rung, gauge, table, pace, blocked, flooded, spared,     \* Verdicts
  zones, buckets, perZone, inflight, swept, pending, spent,      \* Admission
  known, age, open, checked, handing, kept, truth, folded, handed, \* Rollup
  mode, rule, deny, chal, flip, repeats, due, offered, denied, wrong, \* Ladder
  content, path, nginx, written, rotations, fd, off, partial, fresh,
  got, glued, left, truncated, mine, brain, again, closes, steady \* Exporter

E == INSTANCE EdgeNode
H == INSTANCE ZoneHold
K == INSTANCE Clearance WITH Node <- Holder
V == INSTANCE Verdicts WITH zones <- ruled
C == INSTANCE Admission
W == INSTANCE Rollup WITH Zone <- LogZone, Source <- LogSource, Kind <- LogKind, None <- NoRecord
L == INSTANCE Ladder WITH Source <- Flooder, Memory <- RepeatMemory, Hold <- FlipHold
X == INSTANCE Exporter WITH Ttl <- BlockTtl, None <- NoFile, retry <- again, due <- closes

ASSUME EdgeAssumption ==
  /\ E!NodeAssumption /\ H!ZoneHoldAssumption /\ K!ClearanceAssumption
  /\ V!VerdictsAssumption /\ C!AdmissionAssumption
  /\ W!RollupAssumption /\ L!LadderAssumption /\ X!ExporterAssumption

nodeVars == <<latest, published, reverted, cached, gens, live, serving,
              phase, doc, tag, retry, poll, job, faults>>
holdVars == <<config, lever, request, holds, alerted>>
keyVars == <<clock, setting, ring, ringFile, saved, keys, cookie>>
verdictVars == <<ruled, rung, gauge, table, pace, blocked, flooded, spared>>
ceilingVars == <<zones, buckets, perZone, inflight, swept, pending, spent>>
logVars == <<known, age, open, checked, handing, kept, truth, folded, handed>>
ruleVars == <<mode, rule, deny, chal, flip, repeats, due, offered, denied, wrong>>
exporterVars == <<content, path, nginx, written, rotations, fd, off, partial, fresh,
                  got, glued, left, truncated, mine, brain, again, closes, steady>>
vars == <<part, nodeVars, holdVars, keyVars, verdictVars, ceilingVars, logVars, ruleVars,
          exporterVars>>

Init ==
  /\ part \in {"node", "hold", "keys", "verdicts", "ceilings", "log", "rules", "exporter"}
  /\ E!Init /\ H!Init /\ K!Init /\ V!Init /\ C!Init /\ W!Init /\ L!Init /\ X!Init
  /\ part = "hold" \/ config = CHOOSE c \in ConfSet : TRUE
  /\ part = "keys" \/ setting = K!Memory

ServingNode ==
  /\ part = "node" /\ E!Next
  /\ UNCHANGED <<part, holdVars, keyVars, verdictVars, ceilingVars, logVars, ruleVars, exporterVars>>

Holds ==
  /\ part = "hold" /\ H!Next
  /\ UNCHANGED <<part, nodeVars, keyVars, verdictVars, ceilingVars, logVars, ruleVars, exporterVars>>

Keyring ==
  /\ part = "keys" /\ K!Next
  /\ UNCHANGED <<part, nodeVars, holdVars, verdictVars, ceilingVars, logVars, ruleVars, exporterVars>>

Deciding ==
  /\ part = "verdicts" /\ V!Next
  /\ UNCHANGED <<part, nodeVars, holdVars, keyVars, ceilingVars, logVars, ruleVars, exporterVars>>

Ceilings ==
  /\ part = "ceilings" /\ C!Next
  /\ UNCHANGED <<part, nodeVars, holdVars, keyVars, verdictVars, logVars, ruleVars, exporterVars>>

Counting ==
  /\ part = "log" /\ W!Next
  /\ UNCHANGED <<part, nodeVars, holdVars, keyVars, verdictVars, ceilingVars, ruleVars, exporterVars>>

Judging ==
  /\ part = "rules" /\ L!Next
  /\ UNCHANGED <<part, nodeVars, holdVars, keyVars, verdictVars, ceilingVars, logVars, exporterVars>>

Following ==
  /\ part = "exporter" /\ X!Next
  /\ UNCHANGED <<part, nodeVars, holdVars, keyVars, verdictVars, ceilingVars, logVars, ruleVars>>

Next == ServingNode \/ Holds \/ Keyring \/ Deciding \/ Ceilings \/ Counting \/ Judging \/ Following

\* The fairness of the part that moves.
Fairness ==
  /\ WF_nodeVars(part = "node" /\ E!Boot) /\ WF_nodeVars(part = "node" /\ E!Recover)
  /\ WF_nodeVars(part = "node" /\ E!StartFromDisk) /\ WF_nodeVars(part = "node" /\ E!PollOnce)
  /\ WF_nodeVars(part = "node" /\ E!SaveCached) /\ SF_nodeVars(part = "node" /\ E!StartPoll)
  /\ WF_nodeVars(part = "node" /\ E!StartRetry) /\ WF_nodeVars(part = "node" /\ E!Work)
  /\ \A n \in Node :
       /\ WF_holdVars(part = "hold" /\ H!Poll(n))
       /\ WF_holdVars(part = "hold" /\ H!Handle(n))

Spec == Init /\ [][Next]_vars /\ Fairness

---------------------------------------------------------------------------
(* Properties.                                                             *)

\* The node implements TestedGate: the terminator only ever loads a document the
\* brain published and the terminator's own test has passed (EdgeNode).
ImplementsGate == E!ImplementsGate

\* A node the brain answers "not modified" holds the brain's document (EdgeNode).
NotModifiedIsCurrent == part = "node" => E!TypeOK /\ E!NotModifiedIsCurrent

\* A valid document that stays the brain's last word is served in the end, after
\* any failures and kills (EdgeNode).
LatestServed == part = "node" => E!LatestServed

\* No parked poll sleeps on news, no node is told of a zone it must not serve, and
\* in the end every node has its own document of the last configuration (ZoneHold).
ZonesReach == [](part = "hold" => H!TypeOK /\ H!ParkedHears) /\ H!OnlyItsZones /\ (part = "hold" => H!NewsArrives)

\* A cleared visitor stays cleared at every up-to-date node for the cookie's whole
\* life, across midnights, reloads, failed saves and restarts (Clearance).
ClearanceHonoured == part = "keys" => K!TypeOK /\ K!ClearanceHonoured

\* A landed block and a flood's flip stand for their time, and a challenged
\* source's block always lands (Verdicts).
VerdictsStand == part = "verdicts" => V!TypeOK /\ V!VerdictsStand

\* The rate and concurrency ceilings are honest whatever is swept, evicted,
\* removed or lost (Admission).
CeilingsHonest == part = "ceilings" => C!TypeOK /\ C!CeilingsHonest

\* Every record is counted once, whole, and the list of who would be refused is short
\* only when it says so (Rollup); a flood is answered, by the rung before the block,
\* and a block is never lengthened by the flood it stops (Ladder); the exporter misses no
\* line of a rotated log and glues no two, and its blocks have no gap (Exporter).
FloodsJudged ==
  /\ part = "log" => W!LogCounted
  /\ part = "rules" => L!FloodsClimb
  /\ part = "exporter" => X!LogFollowed
=============================================================================
