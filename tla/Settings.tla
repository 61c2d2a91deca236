------------------------------ MODULE Settings ------------------------------
(***************************************************************************)
(* The configuration: two files that operator and tenants edit, parsed,     *)
(* resolved and checked together, and swapped in whole by a reload that may *)
(* come from a signal or from the API (config.go, main.go, app/dataplane.go).*)
(* Every component reads what Store.Get returns and trusts it: a ladder     *)
(* that was accepted must be one every backend it names can carry out.      *)
(***************************************************************************)
EXTENDS Integers, FiniteSets, Sequences, SequencesExt

CONSTANTS
  Host, V6,          \* protected addresses, and those of them that are IPv6
  Files, ZoneFiles,  \* what kapkan.yaml and zones.yaml may say; see MCBrain
  Reloader,          \* the goroutines that reload: the signal's and a request's
  Edits,             \* bound on edits of the files
  None               \* an absent block, or nobody

\* A rung of a ladder as the file may write it.
Rung == [after : Nat, action : STRING]

SettingsAssumption ==
  /\ IsFiniteSet(Host) /\ V6 \subseteq Host /\ Edits \in Nat /\ None \notin Files \cup ZoneFiles
  /\ \A f \in Files :
       /\ f.networks \subseteq SUBSET Host /\ f.escalation \in Seq(Rung)
       /\ Len(f.groups) \in Nat /\ DOMAIN f.groups = 1..Len(f.groups)
       /\ \A i \in DOMAIN f.groups :
            /\ f.groups[i].networks \subseteq SUBSET Host
            /\ f.groups[i].escalation = None \/ f.groups[i].escalation \in Seq(Rung)

Global == "global"
RulesPerBan == 8
MaxStages == 5
MaxAfter == 86400

---------------------------------------------------------------------------
(* Resolving a ladder.                                                     *)

Actions == <<"none", "dataplane", "flowspec", "divert", "blackhole">>
Methods == {"blackhole", "flowspec", "divert", "dataplane"}
CarpetMethods == {"flowspec", "blackhole", "dataplane"}

Severity(a) == CHOOSE i \in DOMAIN Actions : Actions[i] = a

MethodFor(own, default) == IF own = "" THEN default ELSE own

\* resolveEscalation: no steps is one rung of the method.
Ladder(steps, method) == IF steps = <<>> THEN <<[after |-> 0, action |-> method]>> ELSE steps

LadderOK(steps) ==
  /\ Len(steps) <= MaxStages
  /\ \A i \in DOMAIN steps :
       /\ steps[i].action \in ToSet(Actions) /\ steps[i].after <= MaxAfter
       /\ i = 1 => steps[i].after = 0
       /\ i > 1 => /\ steps[i].after > steps[i - 1].after
                   /\ Severity(steps[i].action) >= Severity(steps[i - 1].action)

Uses(ladder, a) == \E i \in DOMAIN ladder : ladder[i].action = a

DivertGeneratesRules(ladder, f) ==
  Uses(ladder, "divert") /\ (f.scrub.nodes # <<>> \/ f.scrub.lost = "flowspec")

NeedsRules(ladder, f) ==
  Uses(ladder, "flowspec") \/ Uses(ladder, "dataplane") \/ DivertGeneratesRules(ladder, f)

\* The group's own flowspec block whole, else the global one.
FlowPolicy(own, f) == IF own # None THEN own ELSE f.flow

PolicyOK(p) == p = None \/ p.action \in {"", "discard"} \/ (p.action = "rate_limit" /\ p.rate > 0)

PolicyAction(p) == IF p = None \/ p.action = "" THEN "discard" ELSE p.action

\* The action its rules carry is resolved only where rules are generated.
ActionFor(method, ladder, own, f) ==
  IF method = "flowspec" \/ NeedsRules(ladder, f) THEN PolicyAction(FlowPolicy(own, f)) ELSE ""

---------------------------------------------------------------------------
(* The groups.  f.groups are the hostgroups as written; a prefix is the set  *)
(* of the addresses in it.                                                 *)

GlobalGroup(f) ==
  LET method == MethodFor(f.method, "blackhole")
      ladder == Ladder(f.escalation, method)
  IN [name |-> Global, total |-> FALSE, networks |-> {}, ladder |-> ladder,
      action |-> ActionFor(method, ladder, None, f),
      hop |-> f.scrub.hop, hop6 |-> f.scrub.hop6, tenant |-> f.tenant, ban |-> TRUE]

\* A total group has no one victim to write a rule for or to divert: what it
\* inherits degrades to a blackhole.
Degraded(ladder) ==
  [i \in DOMAIN ladder |->
     IF ladder[i].action \in {"flowspec", "divert"}
     THEN [ladder[i] EXCEPT !.action = "blackhole"] ELSE ladder[i]]

Inherited(g, f) == MethodFor(g.method, MethodFor(f.method, "blackhole"))

MethodOf(g, f) ==
  IF g.total /\ Inherited(g, f) = "flowspec" THEN "blackhole" ELSE Inherited(g, f)

WholeLadder(g, f) ==
  Ladder(IF g.escalation = None THEN f.escalation ELSE g.escalation, MethodOf(g, f))

GroupOf(g, f) ==
  LET method == MethodOf(g, f)
      ladder == IF g.total THEN Degraded(WholeLadder(g, f)) ELSE WholeLadder(g, f)
  IN [name |-> g.name, total |-> g.total, networks |-> g.networks, ladder |-> ladder,
      action |-> ActionFor(method, ladder, g.flow, f),
      hop |-> g.hop \/ f.scrub.hop, hop6 |-> g.hop6 \/ f.scrub.hop6,
      tenant |-> g.tenant, ban |-> ~g.total /\ g.ban # "no"]

Groups(f) == <<GlobalGroup(f)>> \o [i \in DOMAIN f.groups |-> GroupOf(f.groups[i], f)]

\* GroupFor: the most specific prefix that holds the address, else the global group.
GroupFor(h, f) ==
  LET claims == {c \in (DOMAIN f.groups) \X SUBSET Host :
                   c[2] \in f.groups[c[1]].networks /\ h \in c[2]}
  IN IF claims = {} THEN Groups(f)[1]
     ELSE Groups(f)[1 + (CHOOSE c \in claims :
            \A d \in claims : Cardinality(c[2]) <= Cardinality(d[2]))[1]]

---------------------------------------------------------------------------
(* Checking the blocks.                                                    *)

\* Wrong variant: any node will do, whichever groups it serves.
AnyNodeTarget(group, six, f) == \E i \in DOMAIN f.scrub.nodes : six => f.scrub.nodes[i].hop6

HasNodeTargetFor(group, six, f) == \E i \in DOMAIN f.scrub.nodes :
  LET n == f.scrub.nodes[i]
  IN (six => n.hop6) /\ (n.groups = {} \/ group \in n.groups)

DivertTargetOK(g, six, f) ==
  /\ g.hop \/ HasNodeTargetFor(g.name, FALSE, f)
  /\ six => g.hop6 \/ HasNodeTargetFor(g.name, TRUE, f)

Settled(d) ==
  IF d = None \/ ~d.enabled THEN None
  ELSE [ifaces |-> d.ifaces, rules |-> d.rules, sample |-> IF d.fingerprint THEN d.sample ELSE 0]

GroupOK(g, six, f) ==
  /\ Uses(g.ladder, "divert") => DivertTargetOK(g, six, f)
  /\ Uses(g.ladder, "dataplane") => Settled(f.dataplane) # None

Names(s) == {s[i].name : i \in DOMAIN s}
Distinct(s) == Cardinality(Names(s)) = Len(s)

HostgroupOK(i, f) ==
  LET g == f.groups[i] IN
  /\ g.name # Global
  /\ g.method = "" \/ g.method \in Methods
  /\ g.total => g.ban # "yes" /\ g.method # "flowspec"
  /\ g.escalation # None =>
       /\ LadderOK(g.escalation)
       /\ g.total => /\ ~Uses(WholeLadder(g, f), "flowspec")
                     /\ ~Uses(WholeLadder(g, f), "divert")
  /\ g.networks # {}
  /\ \A p \in g.networks : /\ \E n \in f.networks : p \subseteq n
                           /\ \A j \in 1..(i - 1) : p \notin f.groups[j].networks
  /\ Inherited(g, f) = "flowspec" \/ GroupOf(g, f).action # "" => PolicyOK(FlowPolicy(g.flow, f))
  /\ GroupOK(GroupOf(g, f), (UNION g.networks) \cap V6 # {}, f)

HostgroupsOK(f) ==
  /\ f.method = "" \/ f.method \in Methods
  /\ LadderOK(f.escalation)
  /\ GlobalGroup(f).action # "" => PolicyOK(f.flow)
  /\ GroupOK(GlobalGroup(f), (UNION f.networks) \cap V6 # {}, f)
  /\ Distinct(f.groups)
  /\ \A i \in DOMAIN f.groups : HostgroupOK(i, f)

ScrubbingOK(s) ==
  /\ Distinct(s.nodes)
  /\ s.lost \in {"", "withdraw", "blackhole", "flowspec"}
  /\ s.nodes = <<>> => s.lost \in {"", "withdraw"}

\* One policy block of the map for every host ban the cap allows.
DataplaneOK(f) ==
  LET d == f.dataplane IN
  /\ d # None => (d.fingerprint => d.enabled)
  /\ Settled(d) # None =>
       /\ d.ifaces # {}
       /\ \A i \in DOMAIN d.statics :
            IF d.statics[i].action = "ratelimit" THEN d.statics[i].profile \in d.profiles
            ELSE d.statics[i].profile = ""
       /\ f.ban.maxActive * RulesPerBan <= d.rules

CarpetOK(f) == f.carpet # None =>
  /\ f.carpet.method = "" \/ f.carpet.method \in CarpetMethods
  /\ f.carpet.method = "dataplane" => Settled(f.dataplane) # None

BanOK(b) ==
  /\ b.ttl > 0 /\ b.maxActive > 0 /\ b.fallback \in {"", "none", "blackhole"}
  /\ b.perWindow > 0 => b.window > 0

EdgeOK(f) == f.edge # None =>
  /\ Distinct(f.edge.nodes)
  /\ f.edge.stateFile # "" =>
       f.edge.stateFile \notin {f.edge.zonesFile, f.ban.stateFile}

\* Scoping any node needs every agent token bound: a shared token keeps no scope.
EdgeScopeOK(f) == f.edge # None =>
  /\ \A i \in DOMAIN f.edge.nodes :
       f.edge.nodes[i].groups \subseteq Names(f.groups) \cup {Global}
  /\ (\E i \in DOMAIN f.edge.nodes : f.edge.nodes[i].groups # {}) =>
       \A i \in DOMAIN f.tokens : f.tokens[i].role = "agent" => f.tokens[i].node # None

TenantsInUse(f) == {Groups(f)[i].tenant : i \in DOMAIN Groups(f)} \ {""}

EdgeNames(f) == IF f.edge = None THEN {} ELSE Names(f.edge.nodes)

TokensOK(f) ==
  /\ Distinct(f.tokens)
  /\ \A i \in DOMAIN f.tokens :
       LET t == f.tokens[i] IN
       /\ t.role \in {"viewer", "operator", "agent"}
       /\ t.role = "agent" => t.tenant = ""
       /\ t.tenant # "" /\ f.edge = None => t.tenant \in TenantsInUse(f)
       /\ t.node # None =>
            t.role = "agent" /\ (t.node \in EdgeNames(f)) # (t.node \in Names(f.scrub.nodes))

\* parse and validate: `sound` stands for the blocks that are checked alone.
Parsed(f) ==
  /\ f.sound /\ f.networks # {}
  /\ ScrubbingOK(f.scrub) /\ DataplaneOK(f) /\ EdgeOK(f) /\ HostgroupsOK(f)
  /\ CarpetOK(f) /\ BanOK(f.ban) /\ EdgeScopeOK(f) /\ TokensOK(f)

Placed(z) == IF z.hostgroup = "" THEN Global ELSE z.hostgroup

\* BindZones: the rules that need both files.
BindZones(f, zs) ==
  /\ \A z \in zs.zones : Placed(z) # Global =>
       \E i \in DOMAIN f.groups :
         f.groups[i].name = z.hostgroup /\ (f.groups[i].tenant = "" \/ z.tenant = "" \/ f.groups[i].tenant = z.tenant)
  /\ \A i \in DOMAIN f.tokens :
       f.tokens[i].tenant \in {""} \cup TenantsInUse(f) \cup {z.tenant : z \in zs.zones}

NoZones == [sound |-> TRUE, zones |-> {}]

\* LoadWithOverlay: the zones file is read only where there is an edge block.
Loaded(f, zs) == [file |-> f, zones |-> IF f.edge = None THEN NoZones ELSE zs]
Accepted(f, zs) == Parsed(f) /\ (f.edge # None => zs.sound /\ BindZones(f, zs))

---------------------------------------------------------------------------
(* The store.                                                              *)

VARIABLES
  disk, zoneDisk, edits,  \* the two files
  boot, live,             \* what the process started with, and runs with
  step,                   \* each reloader's: what it has read so far
  kernel,                 \* the file whose static policy is in the kernel
  mixed, stuck            \* reloads have overlapped; the last apply failed (ghosts)

vars == <<disk, zoneDisk, edits, boot, live, step, kernel, mixed, stuck>>

Idle == [at |-> "idle", file |-> None, zones |-> None]

Edit ==
  /\ edits < Edits /\ edits' = edits + 1
  /\ \/ \E f \in Files \ {disk} : disk' = f /\ UNCHANGED zoneDisk
     \/ \E z \in ZoneFiles \ {zoneDisk} : zoneDisk' = z /\ UNCHANGED disk
  /\ UNCHANGED <<boot, live, step, kernel, mixed, stuck>>

\* A file that does not parse ends the reload.
Begin(r) ==
  /\ step[r] = Idle
  /\ step' = IF Parsed(disk) THEN [step EXCEPT ![r] = [Idle EXCEPT !.at = "zones", !.file = disk]]
             ELSE step
  /\ mixed' = (mixed \/ \E o \in Reloader \ {r} : step[o] # Idle)
  /\ UNCHANGED <<disk, zoneDisk, edits, boot, live, kernel, stuck>>

ReadZones(r) ==
  /\ step[r].at = "zones"
  /\ step' = [step EXCEPT ![r] =
       IF Accepted(step[r].file, zoneDisk) THEN [@ EXCEPT !.at = "swap", !.zones = zoneDisk] ELSE Idle]
  /\ UNCHANGED <<disk, zoneDisk, edits, boot, live, kernel, mixed, stuck>>

\* Reload's comparisons with what runs now.
MaySwap(f) ==
  /\ f.fixed = live.file.fixed
  /\ Settled(f.dataplane) = Settled(live.file.dataplane)

Swap(r) ==
  /\ step[r].at = "swap"
  /\ IF MaySwap(step[r].file)
     THEN /\ live' = Loaded(step[r].file, step[r].zones)
          /\ step' = [step EXCEPT ![r].at = "apply"]
     ELSE UNCHANGED live /\ step' = [step EXCEPT ![r] = Idle]
  /\ UNCHANGED <<disk, zoneDisk, edits, boot, kernel, mixed, stuck>>

\* ApplyReload: the static policy is written, or kept when that fails.
Apply(r, ok) ==
  /\ step[r].at = "apply"
  /\ IF Settled(step[r].file.dataplane) = None THEN UNCHANGED <<kernel, stuck>>
     ELSE kernel' = (IF ok THEN step[r].file ELSE kernel) /\ stuck' = ~ok
  /\ step' = [step EXCEPT ![r] = Idle]
  /\ UNCHANGED <<disk, zoneDisk, edits, boot, live, mixed>>

\* The pairs of files the process starts with; any other ends it.
Bootable == {b \in Files \X ZoneFiles : Parsed(b[1]) /\ Accepted(b[1], b[2])}

Init ==
  /\ \E b \in Bootable : disk = b[1] /\ zoneDisk = b[2]
  /\ edits = 0 /\ live = Loaded(disk, zoneDisk) /\ boot = disk /\ kernel = disk
  /\ step = [r \in Reloader |-> Idle] /\ mixed = FALSE /\ stuck = FALSE

Next ==
  \/ Edit
  \/ \E r \in Reloader : Begin(r) \/ ReadZones(r) \/ Swap(r) \/ \E ok \in BOOLEAN : Apply(r, ok)

Spec == Init /\ [][Next]_vars

---------------------------------------------------------------------------
(* Properties.                                                             *)

TypeOK ==
  /\ disk \in Files /\ zoneDisk \in ZoneFiles /\ edits \in 0..Edits
  /\ \E f \in Files, z \in ZoneFiles \cup {NoZones} : live = [file |-> f, zones |-> z]
  /\ \A r \in Reloader : step[r].at \in {"idle", "zones", "swap", "apply"}

\* nodeEligible and selectScrubNode: what a ban of this host would be pointed at.
Target(h, g, f) ==
  \/ \E i \in DOMAIN f.scrub.nodes :
       LET n == f.scrub.nodes[i]
       IN (h \in V6 => n.hop6) /\ (n.groups = {} \/ g.name \in n.groups)
  \/ IF h \in V6 THEN g.hop6 ELSE g.hop

\* Whatever is live, each rung a host's ban may reach can be carried out: kernel
\* rules have a data plane, a divert has somewhere to go in the host's family, and
\* wherever rules are generated they carry an action.  What announceMethodLocked,
\* selectScrubNode and dataplaneAction refuse would turn the rung into a blackhole.
RungsDeliverable ==
  LET f == live.file
  IN \A h \in UNION f.networks :
       LET g == GroupFor(h, f)
           Carried(a) ==
             CASE a = "dataplane" -> Settled(boot.dataplane) # None /\ g.action # ""
               [] a = "flowspec" -> g.action # ""
               [] a = "divert" ->
                    /\ Target(h, g, f)
                    /\ f.scrub.nodes # <<>> \/ f.scrub.lost = "flowspec" => g.action # ""
               [] OTHER -> TRUE
       IN \A i \in DOMAIN g.ladder : Carried(g.ladder[i].action)

\* A ladder only climbs, also when it was inherited and degraded (escalateLocked).
LaddersClimb ==
  \A i \in DOMAIN Groups(live.file) :
    LET l == Groups(live.file)[i].ladder
    IN \A j, k \in DOMAIN l : j < k =>
         l[j].after < l[k].after /\ Severity(l[j].action) <= Severity(l[k].action)

\* What cannot change at runtime never has, however many reloads came by.
FixedStays ==
  /\ live.file.fixed = boot.fixed
  /\ Settled(live.file.dataplane) = Settled(boot.dataplane)

\* No zone is served by a node its owner's group did not place it on, and no agent
\* holds a token that is good for another node's scope: from whichever moments the
\* two files were read.
PlacementKept ==
  LET f == live.file
      Scope(n) == IF n.groups = {} THEN {Global} ELSE n.groups
      Scoped == f.edge # None /\ \E i \in DOMAIN f.edge.nodes : f.edge.nodes[i].groups # {}
  IN /\ \A z \in live.zones.zones, i \in DOMAIN f.groups :
          Placed(z) = f.groups[i].name => z.tenant = "" \/ f.groups[i].tenant \in {"", z.tenant}
     /\ \A z \in live.zones.zones : Placed(z) \in Names(Groups(f))
     /\ Scoped => \A i \in DOMAIN f.tokens :
          f.tokens[i].role = "agent" =>
             f.tokens[i].node \in EdgeNames(f) \cup Names(f.scrub.nodes)
     /\ \A i \in DOMAIN f.tokens : f.tokens[i].tenant # "" =>
          \/ \E g \in DOMAIN Groups(f) : Groups(f)[g].tenant = f.tokens[i].tenant
          \/ \E z \in live.zones.zones : z.tenant = f.tokens[i].tenant

\* With reloads one at a time, the kernel filters by the file that is live, unless
\* the write failed and said so.
KernelFollows ==
  ~mixed /\ ~stuck /\ (\A r \in Reloader : step[r] = Idle) /\ Settled(boot.dataplane) # None
    => kernel = live.file

\* The same without "one at a time", as ApplyReload's callers assume: two reloads
\* that overlap may swap in one order and write the kernel in the other.
KernelFollowsAlways ==
  ~stuck /\ (\A r \in Reloader : step[r] = Idle) /\ Settled(boot.dataplane) # None
    => kernel = live.file

\* The policy blocks suffice for every ban the caps allow: validateDataplane counts
\* the host bans only, and a carpet that drops in the kernel needs its own.
SlotsSuffice ==
  LET f == live.file
  IN Settled(f.dataplane) # None =>
       RulesPerBan * (f.ban.maxActive
         + IF f.carpet # None /\ f.carpet.method = "dataplane" THEN f.carpet.cap ELSE 0)
         <= f.dataplane.rules

\* What every component trusts Store.Get for.
LiveIsSound == RungsDeliverable /\ LaddersClimb /\ FixedStays /\ PlacementKept /\ KernelFollows

\* What makes it inductive: a reload on its way carries what it has checked, and what is
\* live was checked with the zones it was read with; reloads that have not overlapped are
\* one at a time, and the one that has swapped is to write what is live.
Typed ==
  /\ disk \in Files /\ zoneDisk \in ZoneFiles /\ edits \in 0..Edits
  /\ boot \in Files /\ live.file \in Files /\ kernel \in Files
  /\ mixed \in BOOLEAN /\ stuck \in BOOLEAN
  /\ step \in [Reloader -> [at : {"idle", "zones", "swap", "apply"},
                            file : Files \cup {None}, zones : ZoneFiles \cup {None}]]

LiveAccepted == \E z \in ZoneFiles : Accepted(live.file, z) /\ live = Loaded(live.file, z)

StepChecked ==
  \A r \in Reloader :
    LET s == step[r]
    IN /\ s.at = "idle" => s = Idle
       /\ s.at # "idle" => s.file \in Files
       /\ s.at = "zones" => Parsed(s.file)
       /\ s.at = "swap" => s.zones \in ZoneFiles /\ Accepted(s.file, s.zones)
       /\ s.at = "apply" => /\ Settled(s.file.dataplane) = Settled(boot.dataplane)
                            /\ ~mixed => s.file = live.file

OneAtATime ==
  ~mixed => \A r, o \in Reloader : step[r].at # "idle" /\ step[o].at # "idle" => r = o

KernelWritten ==
  ~mixed /\ ~stuck /\ (\A r \in Reloader : step[r].at # "apply") /\ Settled(boot.dataplane) # None
    => kernel = live.file

IInv == Typed /\ LiveAccepted /\ FixedStays /\ StepChecked /\ OneAtATime /\ KernelWritten
=============================================================================
