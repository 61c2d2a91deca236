------------------------------- MODULE Brain --------------------------------
(***************************************************************************)
(* What the brain process keeps beside its pipeline: the tables that must   *)
(* survive it, which are the bans and their state file (Persist), the source *)
(* blocks (Sources) and the pinned policy maps (Dataplane); what it measures *)
(* by (Windows); where it tells an attack (Sinks); the configuration they    *)
(* all read (Settings); who may ask it for what (Access); and what it writes  *)
(* down of its edge nodes (History, Presence).  The parts share no variable  *)
(* and no step, so a behaviour is one of a single part, with the others at   *)
(* rest.                                                                     *)
(***************************************************************************)
EXTENDS Integers, FiniteSets, Sequences

CONSTANTS
  Host, Prefix, Members, Span, Worker, Sweeper, NoConfig, Config, Horizon,
  Helper, NoSnap, BanMayFail,                                     \* Persist
  Pair, Ttl, PerSource, Budget, Policies, Free,                   \* Sources
  Victim, Slots, Profiles, Rate, Policy, NoVictim, NoPolicy, MapMayFail, \* Dataplane
  Address, Group, Ingest, Window, Lag, Volume, PerSecond, Setting, Factor, Floor,
  Warmup, Hysteresis, LastSecond, NoFlow,                         \* Windows
  Attack, Audit, Channel, EventCap, QueueSize, BatchSize, MaxRecent, MaxSlots, \* Sinks
  Protected, V6, Files, ZoneFiles, Reloader, Edits, None,         \* Settings
  Client, Owned, Site, Box, Bears, ApiConf, MaxHolds,             \* Access
  Edge, Domain, Placing, Changes, Closes, NoReport,               \* History
  Polls, Stale, Period                                            \* Presence

VARIABLES
  part,    \* the part that moves
  cfg, held, ban, env, winAge, winCount,
  phase, restarting, file, dirty, writing, beatAge, stale, late,  \* Persist
  pol, pairs, fpAnchors, installed, drop, leaked,                 \* Sources
  gen, statics, block, trie, rate,
  slotOf, taken, ceiling, interned, known,
  opts, next, stage, doing, want,                                 \* Dataplane
  clock, setting, pending, tracked, ring, seen, attack, base, totals, tick,
  settled, truth,                                                 \* Windows
  running, engine, events, active, recent, open, queue, batch, sending, db,
  refused, dropped, asked, slots, reading, shown,                 \* Sinks
  disk, zoneDisk, edits, boot, live, step, kernel, mixed, stuck,  \* Settings
  conf, request, banned, levered, polling, reported,              \* Access
  placing, doc, cert, chal, win, changes, report, unread, lastAt,
  told, gap, alarms, written, twice,                              \* History
  holding, age, mark, uptime, due, log, silent, false             \* Presence

P == INSTANCE Persist WITH MayFail <- BanMayFail
S == INSTANCE Sources
D == INSTANCE Dataplane WITH held <- slotOf, MayFail <- MapMayFail
W == INSTANCE Windows WITH Host <- Address, Horizon <- LastSecond
T == INSTANCE Sinks WITH phase <- running
C == INSTANCE Settings WITH Host <- Protected
A == INSTANCE Access WITH Host <- Owned, Zone <- Site, Node <- Box, ConfSet <- ApiConf
H == INSTANCE History WITH Node <- Edge, Zone <- Domain, ConfSet <- Placing,
                           Windows <- Closes, conf <- placing
E == INSTANCE Presence WITH Node <- Edge

ASSUME BrainAssumption ==
  /\ P!PersistAssumption /\ S!SourcesAssumption /\ D!DataplaneAssumption
  /\ W!WindowsAssumption /\ T!SinksAssumption /\ C!SettingsAssumption /\ A!AccessAssumption
  /\ H!HistoryAssumption /\ E!PresenceAssumption

banVars == <<cfg, held, ban, env, winAge, winCount,
             phase, restarting, file, dirty, writing, beatAge, stale, late>>
sourceVars == <<pol, pairs, fpAnchors, installed, drop, leaked>>
mapVars == <<gen, statics, block, trie, rate, slotOf, taken, ceiling, interned,
             known, opts, next, stage, doing, want>>
windowVars == <<clock, setting, pending, tracked, ring, seen, attack, base, totals,
                tick, settled, truth>>
sinkVars == <<running, engine, events, active, recent, open, queue, batch, sending,
              db, refused, dropped, asked, slots, reading, shown>>
settingVars == <<disk, zoneDisk, edits, boot, live, step, kernel, mixed, stuck>>
accessVars == <<conf, request, banned, levered, polling, reported>>
logVars == <<placing, doc, cert, chal, win, changes, report, unread, lastAt,
             told, gap, alarms, written, twice>>
presenceVars == <<holding, age, mark, uptime, due, log, silent, false>>
edgeVars == <<logVars, presenceVars>>
vars == <<part, banVars, sourceVars, mapVars, windowVars, sinkVars, settingVars,
          accessVars, edgeVars>>

Init ==
  /\ part \in {"bans", "sources", "maps", "windows", "sinks", "settings", "access",
             "history", "presence"}
  /\ P!Init /\ (part = "bans" \/ cfg = CHOOSE c \in Config : TRUE)
  /\ S!Init /\ (part = "sources" \/ pol = CHOOSE p \in Policies : TRUE)
  /\ D!Init /\ T!Init /\ E!Init
  /\ W!Init /\ (part = "windows" \/ setting = CHOOSE s \in Setting : TRUE)
  /\ C!Init /\ (part = "settings" \/ <<disk, zoneDisk>> = CHOOSE b \in C!Bootable : TRUE)
  /\ A!Init /\ (part = "access" \/ conf = CHOOSE c \in ApiConf : TRUE)
  /\ H!Init /\ (part = "history" \/ placing = CHOOSE c \in Placing : TRUE)

Bans ==
  /\ part = "bans" /\ P!Next
  /\ UNCHANGED <<part, sourceVars, mapVars, windowVars, sinkVars, settingVars, accessVars, edgeVars>>

SourceBlocks ==
  /\ part = "sources" /\ S!Next
  /\ UNCHANGED <<part, banVars, mapVars, windowVars, sinkVars, settingVars, accessVars, edgeVars>>

PolicyMaps ==
  /\ part = "maps" /\ D!Next
  /\ UNCHANGED <<part, banVars, sourceVars, windowVars, sinkVars, settingVars, accessVars, edgeVars>>

Measurement ==
  /\ part = "windows" /\ W!Next
  /\ UNCHANGED <<part, banVars, sourceVars, mapVars, sinkVars, settingVars, accessVars, edgeVars>>

Telling ==
  /\ part = "sinks" /\ T!Next
  /\ UNCHANGED <<part, banVars, sourceVars, mapVars, windowVars, settingVars, accessVars, edgeVars>>

Configuring ==
  /\ part = "settings" /\ C!Next
  /\ UNCHANGED <<part, banVars, sourceVars, mapVars, windowVars, sinkVars, accessVars, edgeVars>>

Asking ==
  /\ part = "access" /\ A!Next
  /\ UNCHANGED <<part, banVars, sourceVars, mapVars, windowVars, sinkVars, settingVars, edgeVars>>

Noting ==
  /\ part = "history" /\ H!Next
  /\ UNCHANGED <<part, banVars, sourceVars, mapVars, windowVars, sinkVars, settingVars, accessVars, presenceVars>>

Watching ==
  /\ part = "presence" /\ E!Next
  /\ UNCHANGED <<part, banVars, sourceVars, mapVars, windowVars, sinkVars, settingVars, accessVars, logVars>>

Next == Bans \/ SourceBlocks \/ PolicyMaps \/ Measurement \/ Telling \/ Configuring
  \/ Asking \/ Noting \/ Watching

Spec == Init /\ [][Next]_vars

---------------------------------------------------------------------------
(* Properties.                                                             *)

\* Once a change has been written, and once the shutdown flush is done, the
\* state file says of every ban what the table says (Persist).
FileCurrent == part = "bans" => P!TypeOK /\ P!FileCurrent

\* No restart strands a route or a rule set that no active ban is on (Persist).
RestartStrandsNothing == part = "bans" => P!RestartStrandsNothing

\* A planned restart does not touch the route of a ban it restores (Persist).
RestartKeepsRoute == P!RestartKeepsRoute

\* The table of source blocks and the kernel agree, whichever installs and
\* withdrawals failed (Sources).
TableIsKernel == part = "sources" => S!TypeOK /\ S!TableIsKernel

\* The fingerprint plane never takes more than its half of the anchors (Sources).
OperatorReserve == part = "sources" => S!OperatorReserve

\* No reload, crash or restart un-mitigates a victim; the manager describes the
\* static policy the kernel enforces; and a packet meets its own victim's rules
\* and its own ban's ceiling, or none, whatever was withdrawn, leaked, rolled
\* back, shared or adopted (Dataplane).
LiveMapsWhole ==
  part = "maps" =>
    D!TypeOK /\ D!DynamicRulesLive /\ D!OptionsAreLive /\ D!NoForeignBlock /\ D!OwnCeiling

\* The engine measures what it counted, learns no attack and judges each host or
\* group once (Windows).
MeasurementHonest == part = "windows" => W!TypeOK /\ W!MeasurementHonest

\* What is told of an attack is told once and is true, and a clean shutdown tells
\* what it had in hand (Sinks).
ToldOnce == part = "sinks" => T!TypeOK /\ T!ToldOnce

\* What every component trusts the configuration for (Settings).
LiveIsSound == part = "settings" => C!TypeOK /\ C!LiveIsSound

\* What a token may do is decided by what it is when it is done (Access).
AccessHonest == part = "access" => A!AccessHonest

\* The log of a node's certificates and windows tells what changed, once, and its
\* last word is the node's (History).
HistoryHonest == part = "history" => H!TypeOK /\ H!HistoryHonest

\* A node is told lost when it is, within the ticker's period, and not because the
\* brain started (Presence).
PresenceTold == part = "presence" => E!TypeOK /\ E!PresenceTold
=============================================================================
