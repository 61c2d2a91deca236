# Verification of kapkan's mitigation core

kapkan detects volumetric attacks from sampled flow telemetry and mitigates
them: it drops them in a local XDP data plane, announces BGP flowspec rules,
diverts the victim to a scrubbing centre or blackholes it. A wrong decision is
expensive in both directions: a route that stays up takes a customer offline, a
rule that lapses leaves a victim undefended while every screen says it is
protected. This directory holds TLA+ models of the code that decides this, the
TLC configurations that check them, and proofs.

Source paths below are relative to `src/engine/internal/` unless they start
with `src/`.

## 1. Inventory

| Component | State | Operations | Hard behaviour | Module |
|---|---|---|---|---|
| Mitigator (`mitigate/mitigate.go`) | `bans`, `prefixBans`, rate window; frozen per ban: dry-run flag, ladder, route attributes | `OnAttackStarted`, `OnAttackOngoing`, `OnAttackEnded`, `ManualBan`, `ManualUnban`, sweep and escalation once a second | configuration read before the lock, fallback, failed announces and removals, deadlines kept in two places | `Mitigator` |
| BGP speaker (`mitigate/bgp.go`, `flowspec.go`) | RIB of the embedded speaker | announce and withdraw a host route or a flowspec rule | partial failure of a rule set | `Mitigator` (`env`) |
| Engine (`engine/engine.go`) | attack state per host and direction, carpets and groups; a ring of seconds per host; baselines | `evalTick` once a second, `record`, `emit`, `emitOngoing` | hysteresis, reload in mid-attack, channels that drop, late flows | `Detection`, `Windows` |
| Application (`app/app.go`) | goroutines, contexts | `consumeEvents`, `consumeOngoing`, `Stop`, `StopForRestart` | two consumers of related events, order of the shutdown | `Pipeline`, `Sinks` |
| Configuration (`config/config.go`) | one atomic pointer to a snapshot of two files | `Load`, `Reload`, `Changed` | blocks that must agree, a reload between a read and its use, reloads that overlap | `Settings` |
| State file (`mitigate/persist.go`) | a JSON snapshot of the active bans | `markDirty`, persist loop, `flushPersist`, rehydrate | crash between change and write, restart under another configuration | `Persist` |
| Source blocks (`mitigate/sources.go`, `fpplane/`) | pairs of source and victim, one kernel policy per source | block, unblock, sweep, reinstall | several victims share one policy; two callers share a budget | `Sources` |
| Data plane (`dataplane/`, `src/engine/bpf/kapkan_xdp.c`) | pinned maps: victims trie, two generations of policy, profiles; links | `Open`, `Install`, `Withdraw`, `Reload`, `Reconcile`, `Close` | crash between two map writes, adoption by a new process, replaced devices | `Dataplane`, `Attachment` |
| Scrub nodes (`mitigate/nodes.go`, `nodeselect.go`) | last poll of each node, node of each diverted ban | poll presence, selection, relocation | a late poll against a loss verdict | `ScrubNodes` |
| Rules channel and agent (`mitigate/ruleschannel.go`, `api/rules.go`, `scrub/agent.go`) | broadcast channel; the agent's installed set and ETag | long-poll, apply | missed wake-up, failed installs, an agent's restart | `ScrubAgent` |
| Zone document (`api/edge.go`, `edge_lever.go`) | holds per node, operator's overrides | long-poll, lever | four sources of news, an override that lapses unattended | `ZoneHold` |
| Edge node (`edge/node`, `edge/poll`, `edge/render`, `edge/apply`) | cached document and ETag, numbered generations, `live` link, markers | poll, render, test, swap, reload, restore, recover | a kill between any two file operations | `EdgeNode` |
| Certificates (`edge/acme`, `api/edge_acme.go`) | certificate sets on disk, slots and challenges in memory | order, publish, save, release | two nodes and one zone, brain restarts, CA outages | `Acme` |
| Clearance (`edge/clearance`, `api/edge_clearance.go`) | daily masters, cookies | draw, save, adopt, issue, verify | keys that must not change under a valid cookie | `Clearance` |
| Decider (`edge/decide`) | verdict table, rung of each zone, buckets, in-flight slots | `DecideRequest`, `Deny`, `Challenge`, `SetZones`, `Complete`, sweeps | bounded tables under a flood | `Verdicts`, `Admission` |
| Rollup (`edge/rollup`) | open window per zone, escalation memory | `Observe`, `Tick`, `Apply` | two closers of one window, the ladder's evidence | `Rollup`, `Ladder` |
| HTTP API (`api/`) | tokens, holds, presence | routes by role, long-polls | a reload between authentication, handler and the end of a hold | `Access` |
| Edge inventory (`api/edge_history.go`) | last report of each node, what was told | diff, ticker | lost, repeated and cut reports, a start with no memory | `History`, `Presence` |
| Sinks (`storage/`, `notify/`, attack table of `api/api.go`) | bounded queues, batches | enqueue, flush, drain | drops, failed flushes, shutdown | `Sinks` |
| Exporter (`exporter/`) | open file and offset, posted pairs | tail, evaluate, post | rotation in mid-line, refresh before a lapse | `Exporter` |
| Ingest, fingerprint parsing, enrichment, metrics, update check, `src/console`, `src/site`, `src/docs` | caches | I/O | none of its own | none |

How they interact: the engine's ticker evaluates every subject under the
configuration it read at the start of the tick and puts lifecycle events and
heartbeats on two channels of 256 (a full channel drops). `consumeEvents` and
`consumeOngoing` take from one each, on goroutines of their own, and call the
Mitigator; so do API handlers, and the Mitigator's own sweep. Each handler
takes the configuration from the Store, then the Mitigator's mutex, and calls
the backends under it. The backends outlive the call: routes stay on the RIB
until withdrawn; kernel rules lapse at a deadline of their own.

What makes each component correct:

- *Mitigator*: what is enforced is what an active ban is on; the method it
  reports is up; the caps, the rate and the blast radius hold; no ban is
  permanent; what is no longer protected comes down; kernel rules outlast a
  ban whose heartbeats come.
- *Engine and application*: a ban lasts as long as the attacks it answers, and
  no longer; a dropped or late event delays but never makes a ban permanent.
- *Measurement*: the ring holds what was counted, no more and no less; no
  attack is learned as normal; each subject is judged once.
- *Configuration*: an accepted file is one every backend it names can carry out,
  and the kernel filters by the file that is live.
- *State file*: after a crash the RIB is what the table says; a restart never
  re-announces what was withdrawn before the last completed write, and never
  takes down what it will keep.
- *Scrub nodes and agent*: a diverted victim is on a node believed alive, or on
  the policy for none; a node converges to the document and never outlives it.
- *Data plane*: no victim meets another one's rules or ceiling, no reload or
  crash un-mitigates one, no interface is called attached that is not filtered.
- *Edge*: the live generation is one that passed its test, and the brain's last
  valid word is served in the end; a cleared visitor stays cleared; verdicts and
  ceilings hold in tables that are full; a flood is counted, answered, and
  answered by the rung before the block.
- *API and inventory*: a token can do what it may do at that moment; what is
  told of a node or an attack is told once and is true.

## 2. Plan

Built, in this order:

1. `Mitigator`, `Detection`, and `Pipeline`, which composes them as the
   application does and implements the Mitigator's specification; proofs of type
   correctness and of the two enforcement invariants.
2. What the brain keeps: `Persist`, `Sources`, `Dataplane`; what it measures and
   tells: `Windows`, `Sinks`; what it is told: `Settings`, `Access`; what it writes
   down of its edge: `History`, `Presence`. All in `Brain`.
3. What its nodes do: `ScrubNodes`, `ScrubAgent`, `Attachment`, `Acme`, in `Fleet`.
4. The edge: `TestedGate` and `EdgeNode`, which implements it, `ZoneHold`,
   `Clearance`, `Verdicts`, `Admission`, `Rollup`, `Ladder`, `Exporter`, in `Edge`.

Proved, beside the runs: every invariant the passing runs check (section 5).

Left, in order of importance: the action property that is still only checked
(`RestartKeepsRoute`); and compositions that share state, of `Persist` with `ScrubNodes`
and of `ZoneHold` with `EdgeNode`.

## 3. Modules

### Mitigator.tla

| Variable | Code |
|---|---|
| `cfg` | `Store.cur` |
| `held[w]` | the local `cfg` of the call in progress on goroutine `w` |
| `ban[t]` | `m.bans[t]`, `m.prefixBans[t]` |
| `env[t]` | what the speaker's RIB and the kernel hold for `t` |
| `winAge`, `winCount` | `banWindowStart`, `bansInWindow` |

Each handler is two steps, because the code reads the configuration before it
takes the mutex: `Begin(w)` pins the snapshot, and the handler's action is its
whole critical section, with every call it makes. `OnAttackEnded` and
`ManualUnban` read no configuration and are one step. A backend call is an
operator that returns the set of its outcomes; `MayFail` says which kinds may
fail. `AnnounceStage` is the primary announce and, if it fails, the fallback;
`Escalate` picks the highest due rung, announces it, and only then withdraws a
rung of another family. `Sweep` and `Heartbeat` walk both tables in one
critical section, with an independent outcome for each target (`Each`).

`env[t].leaked` records families whose removal failed: the code logs these and
goes on ("a stuck active would misreport state and block re-bans").

The alert-only rung (`""` in the code) is the method `"alert"`. Attack direction
bits are the set `dirs`. A withdrawn entry is history for the API and is the
same as no entry.

Time is kept as distances: `left` (to `ExpiresAt`), `kernel` (to the rules'
deadline), `age`, `dpAge` and `winAge` (since). Ages stop at `Horizon`, beyond
every delay they are compared with, so no bound on the length of a run is needed.

`BeatenSpec` is the Mitigator while the engine keeps its side of the renewals: every
attack has its heartbeat every second (`emitOngoing`) and none is dropped, so that no
second is over before each ban that an attack holds has been given its whole ttl
(`Beaten`). Within a second the calls come in any order but one: what bans an attack's
target again comes after its heartbeat (`AfterBeat`), since the two commute.

`ActiveAddresses`, which the code sums over both tables, is here the number of pairs of
a banned target and one of its addresses (`Covered`): the same number, with no fold.

### Detection.tla

`attack[s]` for each subject (host and direction, or carpet prefix), the two
channels, and the pass of `evalTick` over the subjects (`pending`, under
`tickCfg`). One evaluation of a subject is one step, as consumers run meanwhile:
a rate above or below the thresholds is a free choice (`exceeded`).
`below` counts evaluations since `belowSince`. `lostEnd` remembers ends dropped by
a full channel, which the code only counts in a metric.

### Pipeline.tla

Composes the two with `INSTANCE`, sharing `cfg`. `Take` receives an event and, if
its policy permits a ban, reads the configuration; `Handle...` is the handler's
critical section. `promised[s]` is a history variable: the attack on `s` was
answered with an active ban, and since then neither policy, the operator nor a
dropped heartbeat gave a reason to lose it. (A heartbeat that a prefix's handler
refuses, because a whitelisted host is in it by now, ends the promise: the ban then
lives on what ttl it had.) `PromptInv` is what makes the pipeline's promises inductive.

### Brain.tla: what the brain keeps beside its pipeline

Nine parts that share no variable and no step: `part` says which one moves, and
the others are at rest. A part's invariant is asked with its type invariant, as
`part = "windows" => W!TypeOK /\ W!MeasurementHonest`. One run covers them. Most parts
end with an `IInv`, their inductive invariant as a conjunction of named parts.

`Persist` is the Mitigator (by `INSTANCE`, handlers and all) with its state file.
`dirty` is the signal of `markDirty`; `writing[w]` the snapshot that the loop or the
shutdown flush is saving, under `saveMu` (`MutexFree`). `Cancel`, `DrainFlush`, `Exit`
are the two ways down, `Crash` a third from any state; `Start` loads, rehydrates
and re-announces under whatever configuration there is now. While the process is
down `env` is what graceful-restart helpers retain, and what is in the pinned maps: a
successor adopts live kernel rules (`adoptLocked`), so those of a ban it does not
restore stay up, on no ban, to their own deadline (`Lapsing`), unless the maps are built
anew (`Found`). `RestartStrandsNothing` makes exactly that exception. Bans are
restored in some order while there is room (`Tried`), the blast radius weighed by
addresses as in `Mitigator`. A running process has one
configuration: `Persist` keeps reloads out, and with them a caller that holds an older
one; `Mitigator` has both. After the context is cancelled no event reaches the table;
the API's calls and the sweep still do, until the process is gone.
`FileCurrent` speaks of deadlines only for a ban that is alone with the clock of the
heartbeats' writes; why is in section 6.

`Sources` has the pairs of `m.sourceBlocks` and, for each, how long the kernel still
drops it. `Reinstall` has three outcomes: the block is in; it failed and was rolled
back; or it was refused before the first map write, and what an earlier install left
is still in force while the pairs are forgotten (`leaked`). A withdrawal may fail too.
`Dataplane` has one step for every write another process could
see between two others: block, trie entry, generation flip; `want` is a ghost of
what the last successful installs asked for. `Open` with `adopt` is a successor.

`Windows` splits `record` in two where the code does: `Process` stamps a flow with
the second, `Record` counts it later in the ring's bucket, resetting a bucket of
another second. Each socket has several ingest workers, so `pending` is per worker: two
flows of one host are counted in either order, and the host's last second may go back. `BeginTick` reads the clock once, `EvalHost` takes the hosts one by
one, learns, judges and evicts, `EvalGroups` ends the pass. `truth` counts beside.

`Sinks` follows an attack's row from the engine's event through the attack table
and the writer's queue, batch and tables to the database, with refused flushes,
drops, a reader of `GET /attacks` that joins memory and database, and the
shutdown: consumers joined, then the store cancelled, then drained.

`Settings` loads two files read at two moments, with the checks that relate one
block to another (ladders and the backends they need, nodes and families, groups
and tenants, tokens and scopes, caps and map sizes), and reloads them from two
goroutines: read, swap, apply. What is checked of one block alone is `sound`.

`Access` takes a request through `guard`, authentication by every token that
matches, role, tenant and node binding, the handler's second look at the store
(`CheckTarget`), and for polls through hold, wake and revalidation (`Look`), with a
reload possible in between.

`History` is a node's report, cut by size (`Put`), and what the brain makes of two
reports (`Observe`): events and windows. `Presence` is the ticker over `pollStarted`
and `pollEnded`.

### Fleet.tla: what keeps the nodes working

`ScrubNodes` has open polls and the age of the last of each node, the grace of a
process that has just started, and one diverted ban that the sweep moves or
degrades with announces that fail. `ScrubAgent` is one long-poll as the handler
runs it (arrive, subscribe, read, wait, wake or time out), on a connection that may
break anywhere, and the agent behind it. Its first reconcile asks the kernel once which
victims an earlier run left; if that fails it is not asked again (`Had`), and what it
had goes on filtering unknown until its deadline. `missed` remembers this, like a failed
install or withdrawal. `Attachment` is opening, adopting or
rebuilding pins and links, attaching each interface, the watcher, and closing;
devices go and come back with another index. `Acme` is two nodes' orders for one
zone, with the brain's slot and fan-out, failures by CA, and the store's two-step save.

### Edge.tla: what an edge node does with what it is told

`TestedGate` is an abstract specification of two actions: the brain publishes; the
terminator loads a published document that its test accepts. `EdgeNode` implements
it (`ImplementsGate`) with one step per file operation of `Apply`, any of which may
fail or be the last before a kill: write a generation, point `live` at it, test,
prune, mark, reload, mark; or restore the newest tested one and discard. `Recover`
is what a start makes of what it finds. A document the node cannot decode (`Unreadable`) is
refused before anything holds or saves it, yet the poll's ETag moves on. `ZoneHold` is the long-poll of the zone
document with its four channels. `Clearance` keeps the daily masters in memory, in
files that a reload may change, and at every node.

`Verdicts` is the decider's table (denies, challenges, marks; per zone or for every
zone) with the room a full one makes, and each zone's rung: file, override, flip.
`Admission` is its buckets and in-flight slots. `Rollup` checks a record against the
document's zones, unlocks, then folds it; `handing[c]` is what a closer has closed
and not handed on yet. `Ladder` judges a window: `Apply` is one step, as it holds
its lock throughout, and the decision service answers by its table's room.
`Exporter` tails a log of half lines through renames, late reopens and
truncations, and posts a block again before it lapses.

## 4. Runs

| Run | Instance | Shows |
|---|---|---|
| `MCLadder` | one host, four-rung ladder, every backend failure, reload of the networks | `NoStrandedMitigation`, `ReportedIsEnforced` |
| `MCTables` | two hosts, two prefixes, cap 1 each, blast radius 3, one ban per window | caps, blast radius, no permanent ban, exclusion |
| `MCPipeline` | one host, both directions, announces may fail, reload of `ban` and whitelist | a ban follows its attacks and comes down only for a documented reason |
| `MCRenewal` | a host that climbs to the kernel and a carpet prefix banned there, ttl 4, reload of the networks | `KernelAhead`: while heartbeats come, the kernel rules have half a ttl ahead |
| `MCCarpet` | a host and its carpet prefix | `ImplementsMitigator`: the composition makes only the Mitigator's steps |
| `MCBrain` | nine small instances, one for each part | what the brain keeps, measures, tells, accepts, permits and writes down |
| `MCFleet` | two scrub nodes, one agent, two interfaces, two certificate holders | a diverted victim is on a node that is alive; sleepers hear; no unfiltered gap; what is lost is repaired |
| `MCEdge` | one node with two faults and a document it cannot read, two pollers, one holder of keys, a table of two, one zone's log, two flooders, two log lines | only tested documents, served in the end; clearances, verdicts, ceilings and counts that stand |
| `DryRunFlip` | one host, starting in a dry run; the sweep climbs in the second it read | counterexample, section 6 |
| `WhitelistReload`, `PhantomHold` | one host | counterexamples, section 6 |
| `LateRenewal` | the instance of `MCRenewal`, heartbeats that may pause | counterexample, section 6 |

Bounds and why they are enough. The handlers touch one target, or treat each
target alike and independently; what couples targets is counting, and two of
each kind with a cap of one reach every side of each comparison, with prefixes
of weights 2 and 3 so that a weight cannot be confused with a count. One worker
beside the sweeper (three in the pipeline) suffices for a configuration held
across a reload, since handlers are atomic under one mutex. `ttl` is 1 or 2
ticks (4 in the renewal and reload runs: half a ttl must be more than the one tick a
heartbeat may be behind, or nothing can be renewed late), and the
ladder's delays reach beyond it, so a ban climbs, is refreshed and expires in
one run. Both configurations of `MCTables` have the same caps, so that `\E c` in the
caps' properties is no way out; a reload that lowers a cap under a call that holds
the old one is in the theorems (section 5) only. Channels of capacity one overflow as soon as two events meet, which
stands for 256. Hysteresis of one tick has a tail in which the rate is below the
threshold.

In the pipeline runs with `Prompt = TRUE`, consumers drain their channels between
two ticks, which is what the code relies on in practice, so that a ttl of one
tick is not lost to a slow consumer; overflow within a tick remains.
`PhantomHold` drops it, and only it needs to.

`DryRunFlip` constrains the Mitigator's steps (`TrialSpec`): a reload or a new second comes
only when no call is in progress. In the code `now` is read together with the
configuration (`mitigate/mitigate.go:1596`), so a sweep that has waited for the mutex
judges a ban by the time before; `Sweep` in `Mitigator` measures at the lock, which allows
more climbs than the code. The passing runs hold with them; a counterexample must not
need one.

In the compositions each part has the smallest instance in which its hazard
happens: a kernel rung for which a blackhole may stand in, so that what a restart finds is
not what the ladder says and may be adopted or lost (flowspec and divert rungs across a
restart are in the theorems only); three
pairs of two sources, so that an anchor is shared; one more record than a
window's cap of sources; a queue and a batch of one or two rows; two
ingest workers and three packets of one host in a second, of which one a second is
learned as normal, so that counts come out of order and an attack may start over the
static or the learned bar; two
reloaders, so that reloads overlap, and one edit of the files; two requests by
two callers, so that two holds meet their bound of one token; one edge node
whose reports are cut in every way; a table of two entries, half of which may be
challenges; two faults of an edge node, a failed operation and a kill in either
order; a log of two lines in halves, rotated twice; a posted block of three windows, so that one
closes in which the source is hot and nothing need be posted. `Epoch`, `Ttl`, `Stale`,
`Length` and the like are one or two ticks: the code compares each with one or
two others, and the instance puts a tick on either side. What they leave out (a climb
between two restarts, several hosts in one group's sum or one pass of the tick, an attack
that ends by hysteresis in `Windows`' three seconds, which `Detection` has, a second zone's
counts, days of several ticks) is in the theorems of section 5, which hold for every
instance. Bounds named in the
modules stop only what the environment does (`Faults`, `Edits`, `Changes`,
`Records`, `Lines`, `Upsets`, `Polls`, `PerSecond`), never a handler. `MCEdge` has an action
constraint, `PublishedAtPoll`: the brain's document changes
just before a poll only. The node reads it there and nowhere else, so a change while it is
down or busy is to it the same as one, or several in a row, when it is about to poll; a
busy node always gets to poll again, by the fairness below.

Deadlock is checked wherever the system cannot stop. `MCBrain`, `MCFleet` and
`MCEdge` do not check it: a process that was stopped, an order that failed for
good, or an environment that has used up its bound is an end.

Fairness of the Mitigator and the pipeline. `Tick`, the sweep and its read of the
configuration are weakly fair: `sweepLoop` is a `time.Ticker` loop that takes a
mutex no handler keeps (backend calls have deadlines or are local), and Go mutexes
are starvation-free. `Evaluate` and the consumers are loops of the same kind. No
fairness is assumed of the operator, of reloads or of attacks. `NoPermanentBan`
allows for a ban that is refreshed for ever (the attack goes on);
`ComesDownAfterAttack` for an attack that never stays away or an operator who keeps
calling. In `MCFleet` the sweep and time (`ScrubNodes`), the watcher's passes
(`Attachment`), and each node's renewal loop with the steps of an order (`Acme`)
are fair in the same sense, and so is the end of each open poll, since a hold has a
deadline; that a poll starts, a device returns or a CA answers is never assumed:
the properties condition on it. In `MCEdge` the poll loop, the
boot, recovery and the applier's steps are weakly fair and `StartPoll` strongly, as
it competes with the retry timer for the render lock; kills and faults are
bounded, not fair. `ZoneHold` needs only that a node polls again and that the
handler's goroutine runs.

Every property has a mutant, a plausible error in the code (a rung withdrawn by
the ladder's method and not by the one really up, a renewal that walks one table,
a cap compared with `<=`), defined beside the definition it replaces under
"Wrong variant" and caught by the run.

## 5. Proofs

TLAPS checks the theorems below for every value of the constants that meets the named
assumption of each module: finite sets where the code has finite tables and logs a
finite set of names, a "none" that is no value, a sweeper that is no worker, configurations that are well-formed (ladders not empty, delays within
`Horizon`, `ban.fallback` the same in all), positive capacities. TLC evaluates each
assumption on the instances of section 4.

| Module | Theorems | About |
|---|---|---|
| `FiniteFacts` | lemmas | least members, sums over finite sets, injections |
| `MitigatorProofs` | `TypeCorrect`, `CapsKept`, `BlastRadiusKept`; `EnforcementExact`, `ReportedTrue` while no reload flips `dry_run`; `RenewedInTime` while heartbeats come and installs succeed | `Mitigator` |
| `PipelineProofs` | `PipelineImplementsMitigator`, `PipelineTyped`, `PipelineLimits`; `AttackStaysBanned`, `EndReleases`, `BanHeldUntilReleased` | `Pipeline` with `Detection` |
| `BrainPartProofs` | lemmas for the next | `Persist`, `Windows` and `Sinks`, as parts of `Brain` |
| `BrainProofs` | `BrainInvariant`; `FileKept`, `NothingStranded`, `MapsWhole`, `SourcesAgree`, `ReserveKept`, `AccessKept`, `HistoryTold`, `LossTold`, `ConfigurationSound`, `Measured`, `ToldTruly` | `Brain` |
| `FleetProofs` | `FleetInvariant`; `RouteFollowed`, `MovedOffLostNodes`, `SleeperHears`, `NodeEnforces`, `NoGapOpened`, `CertificatesKept` | `Fleet` |
| `TrafficProofs` | lemmas for the next | `Ladder`, `Exporter`, `Rollup` and `Admission`, as parts of `Edge` |
| `EdgeProofs` | `EdgeInvariant`; `GateImplemented`, `NotModifiedTrue`, `ClearanceKept`, `VerdictsStood`, `FloodsAnswered`, `CeilingsKept` | `Edge` |

Each proof has the same shape. A part's `IInv` holds at the start (`...Init`), is kept
by each action (one lemma for an action, one step in it for a conjunct), and gives
what the run checks (`...Held`). A composition's step is, for each of its parts, a step
of that part or none (`BrainMoves`), so the conjunction of the invariants is kept
(`BrainStep`), and a theorem about the composition follows by temporal logic.

### The Mitigator

One lemma per kind of call says what it leaves (`...Cases`) and that this is typed
(`...Typed`); `NextTyped` has one step per action.

Neither enforcement invariant is inductive. "Nothing more is up than the ban says" does
not survive an escalation within one family: the old route is replaced, not withdrawn,
so that the *new* method is up has to be known too. And a withdrawal looks at the
ban's frozen dry-run flag while announces look at the configuration's, so the two
have to agree. The inductive invariant `IInv` is `TypeOK` and, for each target, `Good`:
the ban's flag is the one that announces look at (`Frozen`), it is on a rung of its
ladder (`OnLadder`), and `Matches`, which is both invariants in one: nothing beyond the
ban's method is up unless it leaked (`Within`), and a method of the speaker is up (`Up`).
In the middle of a climb it is false, as two rungs are up at once; `Between(e, p, q)`
says what holds there. `AnnounceStageLeaves` takes `Matches(e, p)` to `Between(e, p, q)`
with `q` the rung or its fallback (or back to `Matches(e, p)` on a failure), and
`WithdrawnMatches` takes that to `Matches(e, q)`. Kernel rules may be absent in `Up`,
since they lapse on a clock of their own; what is proved of them is that none outlives
its ban unlogged. The two theorems assume `DryRunFixed`, no reload flips `dry_run`: run
`DryRunFlip` is the counterexample without it. `Good` takes the flag as a parameter,
which is what lets `BrainPartProofs` use it across a restart that changes it.

The caps and the blast radius are each inductive beside `TypeOK`. `\E c \in Config` in
them is the configuration that the last admitting caller held: a call admits one
target, below the limits of what it holds, and every other step takes bans away.

`RenewedInTime` is about attacks that last (`BeatenSpec`). What the rules have left, and
how long ago they were installed, are a ttl together, less a second if the heartbeat of
another target renewed them before their own had come (`Lately`). And they are looked at
at least once a second, so that they are not older than half a ttl and a second
(`Ahead`): what a second may have added is what distinguishes a ban that was beaten in
this one from a ban that was not. The sum leaves half a ttl, less a second and a half:
the bound of `KernelAhead` is reached with a ttl of five seconds. It assumes that no reload
changes the ttl (`OneTtl`), as a longer one postpones renewals (section 6), and that
installs succeed, as a renewal that fails leaves no rules. Without the heartbeats it is
false: run `LateRenewal`. What the comments say of every heartbeat,
`HeartbeatKeepsKernelAhead`, had passed with a ttl of two, where a renewal cannot be late;
its invariant could not be made inductive, for the reason that run shows.

### The pipeline

`PipelineImplementsMitigator` is the refinement: each step of the composition is one of
the Mitigator's, with the handler's caller and direction as witnesses, or leaves its
variables alone. The theorems of `MitigatorProofs`, taken through an instance, then hold
of the pipeline as they stand (`PipelineLimits`). That a
subject's direction is a direction and the sweeper no handler is `PipelineAssumption`.

The last three assume `Prompt`, as the run does, and use `PipelineTyped`. `MitigatedUntilOver` and
`ReleasedAtEnd` are about a system at rest and say nothing of the middle of a pass;
`PromptInv` does. What is on its way about a subject was emitted since the tick, so the
attack still is as it says (`EventsTrue`, `BeatsTrue`): this is what a handler that
runs late needs. A promised ban has its ttl ahead of it, or its subject is still to be
evaluated, or its heartbeat is on the way (`Promises`). And each direction a ban is held
in has an attack that is on, or one whose end is on its way or was dropped (`Holders`).
Without `Prompt` the second is false: run `PhantomHold`.

### The brain

`Persist`. `FileCurrent` speaks of the moments when no write is due. The
inductive invariant follows the last change to the disk: it is in the table and
signalled, or in a writer's hand, or on file (`LastWord`), each time as a snapshot that
`Tells` what the table says; and there is one writer at a time (`OneWriter`), without
which the older of two snapshots could be renamed last. That a ban's deadline on file is
at most half a ttl behind needs that a refreshed ban has a ttl less the age of the last
write (`BeatsKept`). `RestartStrandsNothing` needs what the Mitigator's own invariant
has, by the flag of the running process (`Enforced`: nothing is stranded and what is
reported is enforced, adopted kernel rules counting as left behind by a removal that
failed), that a call holds the
process's configuration or none (`OneRun`), and that a snapshot is on a rung (`OnLadders`), as
rehydration reads it. The Mitigator's lemmas are used through an instance; its
operators are first shown, layer by layer, to be those of `Persist`'s own.

`Dataplane`. What is live is known from the manager's memory only if each taken slot has
one owner (`SlotsApart`) and a call in progress says what it has done already
(`InProgress`); a reload knows what it has built (`Building`); a ceiling in use
keeps its rate until its last user is gone (`ProfilesHeld`); and a process that
has not adopted the maps relies on nothing in them (`KnowsNothing`).

`Sources`: a source that should be dropped was installed (`InstalledSources`), so that
what a refused re-install leaves is marked as left (`leaked`), and the
budget counts anchors with the library's facts on cardinality. `Access`: every
stage of a request names a caller and a target of the right kind, still permitted
(`OnItsWay`), and the holds a node has are the requests parked on it. `History`: what
is told and written of a node is no newer than what was diffed, and that no newer than what
it served (`Dated`, `Logged`). `Presence`: an age says how long nothing was
heard (`Sighted`). `Settings`: each stage of a reload has checked what it carries
(`StepChecked`), and unless two overlap only one is under way (`OneAtATime`). The
ladder's recursive checks are met with least elements.

`Windows`. That the ring holds what was counted needs that a bucket is where its second
belongs and that nothing is of a second to come (`CountedInTime`): then of the ring's
`Window + 1` seconds no two share a bucket, which is the arithmetic of remainders, so a
flow counted late finds its own bucket or a stale one. A host that was evicted has
nothing in the window: since counts may come out of order by as much as a flow may be
late, what was counted is no more than `Lag` newer than the last second the host
remembers (`CountedInTime`), and `Lag` is no more than the window (`FlowInTime` for the
flows still on their way, one per worker). A tick overtaken by the clock reads one second the ring may have
lost, and so counts short (`TickInTime`), sum by sum. That an attack's bar is no higher
than some static limit (`BarsStatic`) bounds what is learned while there is none; where
a policy learns without a limit nothing bounds it, and `NormalIsNormal` says so. Hosts a
tick is done with are under attack only as its policy has it (`TickOwner`).

`Sinks`. `RowsOnce` counts places, one of them a sequence: appending and taking the head
change the count of one row by one. It is kept because what is handed over is new: an
event in the channel says what nobody has told yet, and no event is there twice
(`EventsNews`), though an end may come whose start was dropped; and what was told of an
attack the engine has said (`ToldAfter`). `ListedOnce` needs the same of the list of
recent attacks, which what memory and database both know is filtered by.

### The fleet and the edge

`ScrubNodes`: quiet is the age of the last poll or at least what the grace has used up
(`SilenceCounted`), for a loss verdict to imply silence. `ScrubAgent`: the kernel is as
the agent believes unless a call failed or an earlier run's rules were not seen
(`KernelAsBelieved`), and no document in
flight promises more than the ban (`DocumentsWithinPromise`). `Attachment`: a link
runs the pinned maps or none (`LinksPinned`), and interfaces are called attached in
turn (`AttachedInTurn`). `Acme`: a slot and a fanned-out challenge last longer than what is left of the
order (`GrantOutlivesOrder`).

`EdgeNode` implements `TestedGate`, with `serving` mapped to the document of what the
terminator runs. It needs that every generation was made of a published document and
a tested one of a valid one (`Generations`), and what the applier's job has in hand at
each step (`Candidate`, `Phases`): the last generation is live while it is tested, and
only a tested one is loaded. `NotModifiedIsCurrent` needs that a tag other than its
document's is of a cache torn by a kill or a failed write, or of a document that did not
decode (`TagOfDocument`). `Clearance`: a
cookie's master is in memory or in the file that will be read, and outlives it
(`CookieHeld`). `Verdicts`: a block that was granted is in the table with its time, and
a flip with its gauge (`BlocksLanded`, `FlipsHeld`); the table is bounded, with at most
half of it challenges.

`Rollup`: every record folded is open, closed and waiting, or handed on, which is one
sum over three tables (`RecordsOf`); it is kept only because a closer hands on what
it closed before it folds or closes again (`HandedFirst`). A source's counts are those of
its records or none, and none only when the table was full (`CountedOrNot`), and the
zone's are the sums of all its sources' (`AllCounted`, for every set of kinds at once).
That a preview lists all it should but `cut` is what remains of a sort: `Rank` is any
order by a key, so who is beyond the list is no better placed than who is on it.
`Ladder`: who is remembered or challenged was offered the rung before (`ChanceHad`).
`Exporter`: a second half follows its first (`Paired`), the tailer is inside its file
with the half it read last in hand (`Reading`), and what is kept up outlasts the window
it is kept up in (`Refreshed`).

`Admission`: what a source has spent and what its bucket still holds are within the rate
(`SpentLacks`), so a bucket that may be evicted is full. "The ceiling counts no more than
may be in flight" is not inductive, as a slot and the request it stands for need not
be the same: of the slots of *any* age or younger there are no more than of the requests
(`SlotsPending`). It is kept because the slots are in the order they were opened and the
newest is closed, whichever request the line was of.

### What stays with TLC

- Liveness: `NoPermanentBan`, `ExcludedComesDown`, `ComesDownAfterAttack`,
  `LossRepaired`, `LatestServed`, `ZonesReach`. It needs fairness and ENABLED, which are
  beyond the prover.
- The action property `RestartKeepsRoute`, which relates one step to the walk of a table
  it makes.

What a recursive definition computes is by induction over data, which the prover cannot
do. Where a proof above needed one, on a ladder, a list or a fold, it takes the least
counterexample instead (`FiniteFacts`), or a sum's change when one value of it changes.

## 6. Where the code and its comments disagree

- `DryRunFlip`: an announce is gated on the live `dry_run`
  (`mitigate/mitigate.go:1352`), a withdrawal on the flag frozen in the ban (1462).
  A reload that switches dry-run off under a ban made in a dry run lets an escalation
  announce a real route that no withdrawal will remove: the run bans, reloads, and the
  sweep of the second in which the next rung is due announces it. Rehydration
  (`persist.go:454-458`) and relocation (`nodeselect.go:203-211`) guard against
  this; escalation does not.
- `WhitelistReload`: a host whitelisted by a reload keeps its ban, which may still
  climb to a blackhole; the package promises "an absolute refusal to ever
  blackhole a whitelisted address", and the sweep honours it for prefixes only.
  (With the engine running, the end of the attack withdraws automatic bans; a
  manual ban has no attack to end.)
- `LateRenewal`: kernel rules are renewed by the age of their install
  (`mitigate/mitigate.go:591`) and for no more than their ban has left (1412). A ban that
  nothing refreshed for more than half a ttl, because its attack paused or the operator
  holds it, is renewed at another target's heartbeat for the little it has left. When
  its own heartbeats come, its deadline moves on by a ttl, its rules are too young to be
  renewed, and they lapse under an active ban; the comments (544-560) promise half a ttl.
- `PhantomHold`: a heartbeat handled after its attack's end re-adds a hold.

Met while modelling, with no counterexample run of their own. Where the model has
what the comment promises as a definition, it is named: it is false of the code,
so no passing run checks it, and the passing property beside it carves the case out.

| Where | What the code does | Stated as |
|---|---|---|
| `app/dataplane.go:91` | two reloads that overlap may swap in one order and write the kernel in the other | `Settings!KernelFollowsAlways` |
| `config/config.go:3089` | the map is sized for the host cap only; carpet bans install rules beside it | `Settings!SlotsSuffice` |
| `api/node_binding.go:84` | the end of a hold revalidates name and node, not role, tenant or open mode | `Access!HoldsAskable` |
| `edge/rollup/rules.go:291` | a promotion counts as a repeat before the decider has taken the deny | `Ladder!RepeatsRan` |
| `api/edge_history.go:423` | a report that was cut makes a standing challenge start twice | `History!StartedOnce` |
| `app/app.go:228` | API handlers enqueue rows after the last drain | `Sinks!Unjoined` |
| `api/edge_lever.go:137` | a poll may sleep through the lapse of an override that another one forgot | `ZoneHold!LapseOnTime` |
| `edge/node/node.go:735` | a kill between document and ETag leaves a new document under the old ETag | `EdgeNode!Misled` |
| `mitigate/mitigate.go:532` | one clock throttles the writes of every ban's heartbeats: a ban whose heartbeats pause (a full channel drops them) and return just after another's reset the clock is on file with an old deadline for up to half a ttl | `Persist!DeadlinesAhead` |
| `mitigate/mitigate.go:690` | banning an active ban again moves its deadline, not that of its kernel rules, which carry "the same deadline the sweeper enforces" (1395) | `Mitigator!RulesOutliveBan` |
| `mitigate/mitigate.go:595` | a renewal that fails wipes the rules that were in force, where the log says they "keep their previous deadline" | `Mitigator!RenewalKeepsRules` |
| `mitigate/persist.go:286` | an API call may change the table after the "last" write | `Persist`, a late change |
| `mitigate/mitigate.go:591` | a reload that raises `ttl_seconds` postpones renewals past the rules' deadline | `Mitigator` keeps the delay |
| `scrub/agent.go:322` | "retrying next cycle" waits for the next change of the document | `ScrubAgent` |
| `mitigate/nodeselect.go:133` | a node removed and added back is judged by its old last poll | `ScrubNodes` |
| `dataplane/installer_linux.go:154` | early refusals leave the earlier rule set, later ones remove it | `Dataplane` |
| `mitigate/sources.go:424` | a refused re-install leaves the rules of the one before, while the pairs are dropped because "the kernel holds nothing for this anchor" | `Sources`, the third outcome of `Reinstall` |
| `edge/poll/poll.go:209` | "the ETag of the last document accepted" (120) is also that of one the node could not decode: it is answered 304 for a document it does not hold, until the next change | `EdgeNode`, `Unreadable` |
| `dataplane/manager.go:923` | a failed reload leaves the new flags with the old options | flags left out |
| `edge/apply/apply.go:41` | a missed reload is retried by the node's timer, not by the next poll | `EdgeNode` |
| `edge/decide/decide.go:73` | a zone that filled the cap before another was added keeps it | `Admission` |
| `api/edge_clearance.go:52` | the cookie may live exactly the day the comment forbids; it still suffices | `Clearance` |
| `mitigate/mitigate.go:372`, `bgp.go:189` | comments that predate rehydration | |

## 7. Abstractions and what is left out

- One address family. Each family has its own blast radius; the rest is the same.
- `now` is read before the mutex in the code and coincides with the handler here:
  the difference is the wait for the mutex, far below a second. `Sweep` may so act on a
  ban made since its configuration was read; `DryRunFlip` excludes it (section 4).
- The fallback is the same in every configuration: attributes of a blackhole are
  frozen at ban time only if a rung or the fallback may need them.
- Flowspec rules of a ban are one object: up, or partly up after a failed
  rollback. An attack that yields no rules degrades its ladder before the ban is
  made, and is left out.
- The group's ladder, `ban` switch and carpet policy are one per configuration; a
  switch of carpet detection off altogether and groups on totals are left out.
- The parts of a composition share no variable. What one tells another crosses
  as a whole value: a configuration, a document, a window, a verdict; each part
  lets it arrive whenever the other could send it.
- `Mitigator` takes a failed install to have removed the earlier rules; the early
  refusals that keep them are in `Dataplane`, whose rollback is taken to succeed
  (what it fails to delete lapses at its deadline).
- `Dataplane`: kernel flags, shadow counters and health are left out.
- `Persist`: source blocks are in `Sources`; a snapshot is one file. `RestartKeepsRoute` is
  about routes and flowspec rules: kernel rules are adopted or installed anew, and
  may lapse meanwhile.
- `ScrubNodes` follows one diverted ban. `ScrubAgent`: bans without flowspec rules,
  which the document skips, are out.
- `Attachment`: a pinned link that cannot be read is one that was lost.
- `Windows`: one metric and direction, one baseline; smoothing is a count.
- `Detection`, `Pipeline`: a dropped heartbeat ends what `promised` says of its attack, so
  the properties that are about promises say nothing of a ban whose heartbeats are lost.
- `Sinks`: rows are by attack; a duplicate suppressed by the database is external. A
  flush is stored or it failed, and a failed batch is dropped: one that was stored and
  whose answer was lost, which the code counts as dropped, is out.
- `Settings`: one edit of the files; `Reload`'s comparison with the snapshot in force and
  its store are one step.
- `Access`: viewer reads are out; a target is what a token's groups own.
- `History`: one report of a node is in flight; facts about the node as a whole and clock
  skew are out; windows are identified by their count. What is handed to the storage
  queue is written: what a full queue drops is in `Sinks`. `UnservedSilent` is nearly the
  definition of `Unserved`, and kept as what a reader of the status relies on.
  `Presence`: the set of configured nodes and `stale_after` are fixed in one run of the
  process.
- `EdgeNode`: a document is what render makes of it; a cancelled context is a kill
  after the operation it interrupts; a restart of the terminator itself between
  `live` and a restore is out, as nothing in the node starts it.
- `ZoneHold`: the channels of ACME challenges and of clearance keys are one alert, and
  `OnlyItsZones` is close to the definition of a node's document.
- `Clearance`: a puzzle, ticket or MAC is the key it was made with. A file that cannot be
  read for a moment is modelled for the paths of others (`Foreign`) only, of which the
  instance has none.
- `Verdicts`: reasons, exempt paths, dry runs and log lines are out; the local key
  is always live. `Admission`: the two lock sections of `DecideRequest` are one
  step, which differ only in a document that arrives between them.
- `Rollup`: a record that the listener drops is one never written; rates are
  abstracted to counts, kinds of request to their answer. `Ladder`: one zone; the
  errors rule is out.
- `Exporter`: a post takes no time, the channel between tailer and poster is left
  out; which source is hot is a free choice.

Not modelled:

- the XDP packet path: straight-line code per packet, checked by the BPF verifier; of
  its state only deadlines and the generation matter here, and they are modelled;
- ingest (`ingest/`, `flow/`, `macip/`), fingerprint parsing and hashing, the encoders of
  rules, NLRI and map keys, the config parser, the renderers of the terminator's
  files: functions of their input, which unit tests reach;
- the wording of notifications, metrics, the dashboard, console and site: nothing
  reads them back;
- enrichment, the update check, `block-rate` and the traffic generators: a lookup, a
  request or arithmetic, with no protocol of its own;
- GoBGP, ClickHouse, the ACME authority, the terminator and the kernel themselves:
  external; what the code relies on is in the actions that use them.
