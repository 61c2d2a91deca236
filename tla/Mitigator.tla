----------------------------- MODULE Mitigator -----------------------------
(***************************************************************************)
(* The ban lifecycle of engine/internal/mitigate/mitigate.go: the two ban   *)
(* tables (host bans and carpet/prefix bans), the escalation ladder, and    *)
(* what the backends (BGP speaker, XDP installer) actually enforce.         *)
(*                                                                         *)
(* Every handler of the Mitigator reads the live configuration BEFORE it    *)
(* takes the mutex, so a handler is two steps here: Begin(w) pins the       *)
(* configuration the caller has in hand, and the handler's own action is    *)
(* its critical section.  OnAttackEnded and ManualUnban read none.          *)
(*                                                                         *)
(* Absolute times are kept as distances from now, which needs no bound on   *)
(* the run: left = ExpiresAt - now (-1 once past), kernel = the rules'      *)
(* boot-clock deadline - now (0 once lapsed), and ages that stop counting   *)
(* at Horizon, beyond every delay they are compared with.                   *)
(*                                                                         *)
(* One address family is modelled; managed scrubbing nodes, source blocks   *)
(* and the state file are other components.                                 *)
(***************************************************************************)
EXTENDS Integers, FiniteSets, Sequences

CONSTANTS
  Host,       \* addresses a host ban may name
  Prefix,     \* aggregation prefixes a carpet ban may name
  Members,    \* Members[p]: the hosts inside prefix p
  Span,       \* Span[t]: addresses target t covers (1 for a host)
  Worker,     \* goroutines that deliver events and API calls
  Sweeper,    \* the goroutine of sweepLoop
  NoConfig,   \* a caller with no call in progress
  Config,     \* the configurations a reload may install
  Horizon,    \* no ttl, window or rung delay is longer
  MayFail     \* which backend calls may fail

Target    == Host \cup Prefix
Caller    == Worker \cup {Sweeper}
Direction == {"in", "out"}
Family    == {"unicast", "flowspec", "dataplane"}
Unicast   == {"blackhole", "divert"}
Method    == {"alert", "dataplane", "flowspec", "divert", "blackhole"}
Rung      == [after : 0..Horizon, action : Method]

ConfigType ==
  [ dryRun        : BOOLEAN,
    whitelist     : SUBSET Host,
    networks      : SUBSET Target,
    ttl           : 1..Horizon,
    fallback      : BOOLEAN,
    banEnabled    : BOOLEAN,  \* the group's ban policy, read by detection
    ladder        : Seq(Rung),
    carpet        : Method \ {"divert"},
    maxActive     : Nat,
    maxPrefix     : Nat,
    maxAddresses  : Nat,    \* max_banned_fraction of the protected space; 0 = off
    maxPerWindow  : Nat,    \* 0 = off
    window        : 1..Horizon ]

ASSUME TargetAssumption ==
  /\ IsFiniteSet(Host) /\ IsFiniteSet(Prefix) /\ Host \cap Prefix = {}
  /\ Members \in [Prefix -> SUBSET Host]
  /\ Span \in [Target -> Nat]

ASSUME CallerAssumption == Sweeper \notin Worker

ASSUME ConfigAssumption ==
  /\ Horizon \in Nat
  /\ MayFail \subseteq {"announce", "install", "withdraw"}
  /\ NoConfig \notin Config
  /\ Config \subseteq ConfigType
  /\ \A c \in Config : Len(c.ladder) > 0
  \* blackhole attributes for a fallback are frozen at ban time, so a reload
  \* that switches ban.fallback is left out
  /\ \A c, d \in Config : c.fallback = d.fallback

VARIABLES
  cfg,        \* the Store's live configuration
  held,       \* held[w]: the configuration the call in progress on w has read
  ban,        \* ban[t]: the entry of m.bans / m.prefixBans
  env,        \* env[t]: what the backends enforce for t
  winAge,     \* now - banWindowStart
  winCount    \* bansInWindow

vars == <<cfg, held, ban, env, winAge, winCount>>

---------------------------------------------------------------------------
(* Ban and enforcement records.                                            *)

\* A withdrawn entry stays in the table as history only: nothing but the
\* history API reads it, so it is the same as no entry.
BanType ==
  [ active : BOOLEAN, dryRun : BOOLEAN, manual : BOOLEAN, left : -1..Horizon,
    age : 0..Horizon, dpAge : 0..Horizon, dirs : SUBSET Direction,
    method : Method, step : Nat, ladder : Seq(Rung) ]

NoBan ==
  [ active |-> FALSE, dryRun |-> FALSE, manual |-> FALSE, left |-> 0,
    age |-> 0, dpAge |-> 0, dirs |-> {}, method |-> "alert", step |-> 0,
    ladder |-> <<>> ]

\* leaked: families whose removal failed and was only logged.
EnvType ==
  [ route : Unicast \cup {"none"}, flowspec : BOOLEAN, kernel : 0..Horizon,
    leaked : SUBSET Family ]

NothingUp == [route |-> "none", flowspec |-> FALSE, kernel |-> 0, leaked |-> {}]

FamilyOf(m) ==
  CASE m = "flowspec"  -> "flowspec"
    [] m \in Unicast   -> "unicast"
    [] m = "dataplane" -> "dataplane"
    [] OTHER           -> "none"

ActiveHosts    == {h \in Host : ban[h].active}
ActivePrefixes == {p \in Prefix : ban[p].active}
Covered(S) == UNION {{t} \X (1..Span[t]) : t \in S}
ActiveAddresses == Cardinality(Covered(ActiveHosts \cup ActivePrefixes))

Spared(t, c) == IF t \in Host THEN t \in c.whitelist
                ELSE Members[t] \cap c.whitelist # {}

---------------------------------------------------------------------------
(* Backends.  Each operator is the set of outcomes of one call.            *)

\* The announce or install went through.
Installed(e, m, left) ==
  CASE m \in Unicast   -> [e EXCEPT !.route = m, !.leaked = @ \ {"unicast"}]
    [] m = "flowspec"  -> [e EXCEPT !.flowspec = TRUE, !.leaked = @ \ {"flowspec"}]
    [] m = "dataplane" -> [e EXCEPT !.kernel = left, !.leaked = @ \ {"dataplane"}]

\* A family is gone from its backend.
Cleared(e, f) ==
  CASE f = "unicast"   -> [e EXCEPT !.route = "none", !.leaked = @ \ {f}]
    [] f = "flowspec"  -> [e EXCEPT !.flowspec = FALSE, !.leaked = @ \ {f}]
    [] f = "dataplane" -> [e EXCEPT !.kernel = 0, !.leaked = @ \ {f}]

Leaked(e, f) == [e EXCEPT !.leaked = @ \cup {f}]

\* What a failed announce leaves: a flowspec rule set is rolled back rule by
\* rule, and a rule whose rollback fails stays on the RIB.
AfterFailure(e, m) ==
  {e} \cup
  (IF m = "flowspec"
   THEN {Cleared(e, "flowspec")} \cup
        (IF "withdraw" \in MayFail
         THEN {Leaked([e EXCEPT !.flowspec = TRUE], "flowspec")} ELSE {})
   ELSE {})

Announce(e, m, left) ==
  {[ok |-> TRUE, env |-> Installed(e, m, left)]}
  \cup {[ok |-> FALSE, env |-> x] : x \in IF "announce" \in MayFail THEN AfterFailure(e, m) ELSE {}}

\* A ban past its deadline is refused before the kernel is touched; an install
\* that fails there either stopped early or rolled back everything the victim
\* had, the rules of an earlier install included.
InstallDataplane(e, left) ==
  IF left <= 0 THEN {[ok |-> FALSE, env |-> e]}
  ELSE {[ok |-> TRUE, env |-> Installed(e, "dataplane", left)]}
       \cup {[ok |-> FALSE, env |-> x] :
               x \in IF "install" \in MayFail THEN {e, Cleared(e, "dataplane")} ELSE {}}

AnnounceMethod(e, m, c, left) ==
  CASE m = "alert" \/ c.dryRun          -> {[ok |-> TRUE, env |-> e]}
    [] m = "dataplane" /\ ~c.dryRun     -> InstallDataplane(e, left)
    [] m \notin {"alert", "dataplane"} /\ ~c.dryRun -> Announce(e, m, left)

\* Only the surgical methods fall back to a blackhole.
FallsBack(m, c) == c.fallback /\ m \in {"dataplane", "flowspec", "divert"}

AnnounceStage(e, m, c, left) ==
  LET primary == AnnounceMethod(e, m, c, left)
      Retried(x) == IF FallsBack(m, c)
                    THEN AnnounceMethod(x, "blackhole", c, left)
                    ELSE {[ok |-> FALSE, env |-> x]}
  IN {[ok |-> TRUE, method |-> m, env |-> r.env] : r \in {r \in primary : r.ok}}
     \cup
     UNION {{[ok |-> s.ok, method |-> IF s.ok THEN "blackhole" ELSE m, env |-> s.env] :
               s \in Retried(r.env)} : r \in {r \in primary : ~r.ok}}

\* Gated on the ban's own frozen dry-run flag, not on the configuration's.
WithdrawMethod(e, m, dry) ==
  IF m = "alert" \/ dry THEN {e}
  ELSE {Cleared(e, FamilyOf(m))} \cup
       (IF "withdraw" \in MayFail THEN {Leaked(e, FamilyOf(m))} ELSE {})

Slot(b, e) == [ban |-> b, env |-> e]

\* Wrong variant: takes the method from the rung, forgetting a fallback.
WithdrawRung(b, e) ==
  {Slot(NoBan, x) : x \in WithdrawMethod(e, b.ladder[b.step].action, b.dryRun)}

Withdraw(b, e) == {Slot(NoBan, x) : x \in WithdrawMethod(e, b.method, b.dryRun)}

---------------------------------------------------------------------------
(* Escalation.                                                             *)

\* The rungs above the current one whose delay, and every delay before it,
\* has elapsed.
DueRungs(b) ==
  {i \in (b.step + 1)..Len(b.ladder) :
      \A j \in (b.step + 1)..i : b.age >= b.ladder[j].after}

\* The highest of them.
TopDue(b) == {i \in DueRungs(b) : \A j \in DueRungs(b) : j <= i}

OnRung(b, i, m, c) ==
  [b EXCEPT !.step = i, !.method = m,
            !.dpAge = IF m = "dataplane" /\ ~c.dryRun THEN 0 ELSE @]

\* Wrong variant: withdraws the old rung whatever replaced it.
SupersededAlways(b, o) == WithdrawMethod(o.env, b.method, b.dryRun)

\* Make before break: the old rung comes down only after the new one is up,
\* and only if the new one did not already replace it (same NLRI).
Superseded(b, o) ==
  IF FamilyOf(b.method) = FamilyOf(o.method) THEN {o.env}
  ELSE WithdrawMethod(o.env, b.method, b.dryRun)

\* A rung of the same method has nothing to announce; a failed announce leaves
\* the ban on its rung, and the next sweep tries again.
ClimbTo(i, b, e, c) ==
  LET m == b.ladder[i].action
  IN IF m = b.method THEN {Slot([b EXCEPT !.step = i], e)}
     ELSE UNION {IF o.ok
                 THEN {Slot(OnRung(b, i, o.method, c), x) : x \in Superseded(b, o)}
                 ELSE {Slot(b, o.env)} : o \in AnnounceStage(e, m, c, b.left)}

Escalate(b, e, c) ==
  IF DueRungs(b) = {} THEN {Slot(b, e)}
  ELSE UNION {ClimbTo(i, b, e, c) : i \in TopDue(b)}

---------------------------------------------------------------------------
(* Handlers.                                                               *)

\* The call on w reads the configuration, then waits for the mutex.
Begin(w) ==
  /\ held[w] = NoConfig
  /\ held' = [held EXCEPT ![w] = cfg]
  /\ UNCHANGED <<cfg, ban, env, winAge, winCount>>

Returns(w) == held' = [held EXCEPT ![w] = NoConfig]

Put(t, s) ==
  /\ ban' = [ban EXCEPT ![t] = s.ban]
  /\ env' = [env EXCEPT ![t] = s.env]

NewBan(c, ladder, dirs, manual) ==
  [ active |-> TRUE, dryRun |-> c.dryRun, manual |-> manual, left |-> c.ttl,
    age |-> 0, dpAge |-> Horizon, dirs |-> dirs, method |-> "alert", step |-> 1,
    ladder |-> ladder ]

\* The rate window restarts once it has run out.
WindowCount(c) == IF winAge >= c.window THEN 0 ELSE winCount
CountedIn(c, n) ==
  IF c.maxPerWindow = 0 THEN UNCHANGED <<winAge, winCount>>
  ELSE /\ winAge' = IF winAge >= c.window THEN 0 ELSE winAge
       /\ winCount' = WindowCount(c) + n

\* Wrong variants: a prefix weighed as one address; the cap off by one.
UnderFractionByCount(t, c) ==
  c.maxAddresses = 0 \/ ActiveAddresses + 1 <= c.maxAddresses
UnderCapOffByOne(t, c) ==
  IF t \in Host THEN Cardinality(ActiveHosts) <= c.maxActive
  ELSE Cardinality(ActivePrefixes) <= c.maxPrefix

UnderFraction(t, c) ==
  c.maxAddresses = 0 \/ ActiveAddresses + Span[t] <= c.maxAddresses
UnderRate(c) == c.maxPerWindow = 0 \/ WindowCount(c) < c.maxPerWindow
UnderCap(t, c) ==
  IF t \in Host THEN Cardinality(ActiveHosts) < c.maxActive
  ELSE Cardinality(ActivePrefixes) < c.maxPrefix

Allowed(t, c) == ~Spared(t, c) /\ t \in c.networks

\* Refused before or at the caps: only the rate window may have restarted.
Refuse(w, t) ==
  LET c == held[w]
  IN /\ \/ ~Allowed(t, c)
        \/ /\ ~ban[t].active
           /\ ~UnderCap(t, c) \/ ~UnderFraction(t, c) \/ ~UnderRate(c)
     /\ IF Allowed(t, c) /\ UnderCap(t, c) /\ UnderFraction(t, c)
        THEN CountedIn(c, 0) ELSE UNCHANGED <<winAge, winCount>>
     /\ Returns(w)
     /\ UNCHANGED <<cfg, ban, env>>

\* Already banned: a fresh ttl from now, and the direction's hold is added.
Refresh(w, t, dirs) ==
  /\ Allowed(t, held[w]) /\ ban[t].active
  /\ ban' = [ban EXCEPT ![t].left = held[w].ttl, ![t].dirs = @ \cup dirs]
  /\ Returns(w)
  /\ UNCHANGED <<cfg, env, winAge, winCount>>

\* A new ban is recorded only if its first rung, or the fallback, went up.
Admit(w, t, ladder, dirs, manual) ==
  LET c == held[w]
      b == NewBan(c, ladder, dirs, manual)
  IN /\ Allowed(t, c) /\ ~ban[t].active
     /\ UnderCap(t, c) /\ UnderFraction(t, c) /\ UnderRate(c)
     /\ \E o \in AnnounceStage(env[t], ladder[1].action, c, b.left) :
          IF o.ok
          THEN Put(t, Slot(OnRung(b, 1, o.method, c), o.env)) /\ CountedIn(c, 1)
          ELSE Put(t, Slot(ban[t], o.env)) /\ CountedIn(c, 0)
     /\ Returns(w)
     /\ UNCHANGED cfg

OnAttackStarted(w, h, d) ==
  /\ held[w] # NoConfig
  /\ \/ Refuse(w, h)
     \/ Refresh(w, h, {d})
     \/ Admit(w, h, held[w].ladder, {d}, FALSE)

ManualBan(w, h) ==
  /\ held[w] # NoConfig
  /\ \/ Refuse(w, h)
     \/ Refresh(w, h, {})
     \/ Admit(w, h, held[w].ladder, {}, TRUE)

\* An alert-only carpet policy returns before anything is looked at.
OnCarpetStarted(w, p) ==
  /\ held[w] # NoConfig
  /\ \/ /\ held[w].carpet = "alert"
        /\ Returns(w)
        /\ UNCHANGED <<cfg, ban, env, winAge, winCount>>
     \/ /\ held[w].carpet # "alert"
        /\ \/ Refuse(w, p)
           \/ Refresh(w, p, {})
           \/ Admit(w, p, <<[after |-> 0, action |-> held[w].carpet]>>, {}, FALSE)

\* Wrong variant: walks the host table only.
NeedsRenewalHosts(t, b, c) ==
  /\ b.active /\ b.method = "dataplane" /\ ~b.dryRun
  /\ t \in Host /\ ~Spared(t, c)
  /\ 2 * b.dpAge >= c.ttl

\* Every real data-plane ban, of both tables, whose rules are older than half
\* a ttl is installed again with the ban's own remaining time.
NeedsRenewal(t, b, c) ==
  /\ b.active /\ b.method = "dataplane" /\ ~b.dryRun
  /\ ~Spared(t, c)
  /\ 2 * b.dpAge >= c.ttl

Renewals(t, b, e, c) ==
  IF ~NeedsRenewal(t, b, c) THEN {Slot(b, e)}
  ELSE {Slot(IF o.ok THEN [b EXCEPT !.dpAge = 0] ELSE b, o.env) :
          o \in InstallDataplane(e, b.left)}

\* outcomes[t] is the set of what one pass may make of t; each t gets one of
\* its own, independently of the others.
Each(outcomes) ==
  \E f \in [Target -> UNION {outcomes[t] : t \in Target}] :
     /\ \A t \in Target : f[t] \in outcomes[t]
     /\ ban' = [t \in Target |-> f[t].ban]
     /\ env' = [t \in Target |-> f[t].env]

\* Wrong variant: adds a ttl to what is left instead of starting one from now.
KeptLonger(t, dirs, c) ==
  [ban[t] EXCEPT !.left = ban[t].left + c.ttl, !.dirs = @ \cup dirs]

Kept(t, dirs, c) == [ban[t] EXCEPT !.left = c.ttl, !.dirs = @ \cup dirs]

\* A heartbeat refreshes the ban it names and renews the kernel rules of all.
\* The whitelist is looked at for a prefix only.
Heartbeat(w, t, dirs) ==
  LET c == held[w]
      Now(u) == IF u = t THEN Kept(t, dirs, c) ELSE ban[u]
  IN /\ c # NoConfig
     /\ Returns(w)
     /\ \/ /\ ban[t].active
           /\ t \in Prefix => ~Spared(t, c)
           /\ Each([u \in Target |-> Renewals(u, Now(u), env[u], c)])
        \/ /\ ~ban[t].active \/ (t \in Prefix /\ Spared(t, c))
           /\ UNCHANGED <<ban, env>>
     /\ UNCHANGED <<cfg, winAge, winCount>>

OnAttackOngoing(w, h, d) == Heartbeat(w, h, {d})
OnCarpetOngoing(w, p)    == Heartbeat(w, p, {})

\* Wrong variant: an attack's end releases what the operator still holds.
OnAttackEndedAuto(h, d) ==
  LET dirs == ban[h].dirs \ {d}
  IN /\ ban[h].active
     /\ IF dirs # {}
        THEN ban' = [ban EXCEPT ![h].dirs = dirs] /\ UNCHANGED env
        ELSE \E s \in Withdraw(ban[h], env[h]) : Put(h, s)
     /\ UNCHANGED <<cfg, held, winAge, winCount>>

\* The ending direction lets go; the last one to let go of an automatic ban
\* withdraws it.
OnAttackEnded(h, d) ==
  LET dirs == ban[h].dirs \ {d}
  IN /\ ban[h].active
     /\ IF dirs # {} \/ ban[h].manual
        THEN ban' = [ban EXCEPT ![h].dirs = dirs] /\ UNCHANGED env
        ELSE \E s \in Withdraw(ban[h], env[h]) : Put(h, s)
     /\ UNCHANGED <<cfg, held, winAge, winCount>>

OnCarpetEnded(p) ==
  /\ ban[p].active
  /\ \E s \in Withdraw(ban[p], env[p]) : Put(p, s)
  /\ UNCHANGED <<cfg, held, winAge, winCount>>

ManualUnban(h) ==
  /\ ban[h].active
  /\ \E s \in Withdraw(ban[h], env[h]) : Put(h, s)
  /\ UNCHANGED <<cfg, held, winAge, winCount>>

\* Wrong variants: no expiry; no look at the networks.
SweepOneUnexpired(t, b, e, c) ==
  IF ~b.active THEN {Slot(b, e)}
  ELSE IF t \notin c.networks \/ (t \in Prefix /\ Spared(t, c))
  THEN Withdraw(b, e)
  ELSE Escalate(b, e, c)
SweepOneAnywhere(t, b, e, c) ==
  IF ~b.active THEN {Slot(b, e)}
  ELSE IF b.left < 0 \/ (t \in Prefix /\ Spared(t, c))
  THEN Withdraw(b, e)
  ELSE Escalate(b, e, c)

\* One target's share of a sweep.  Only a prefix ban is checked against the
\* whitelist.
SweepOne(t, b, e, c) ==
  IF ~b.active THEN {Slot(b, e)}
  ELSE IF \/ b.left < 0
          \/ t \notin c.networks
          \/ t \in Prefix /\ Spared(t, c)
  THEN Withdraw(b, e)
  ELSE Escalate(b, e, c)

Sweep ==
  LET c == held[Sweeper]
  IN /\ c # NoConfig
     /\ Each([t \in Target |-> SweepOne(t, ban[t], env[t], c)])
     /\ Returns(Sweeper)
     /\ UNCHANGED <<cfg, winAge, winCount>>

Reload ==
  /\ cfg' \in Config \ {cfg}
  /\ UNCHANGED <<held, ban, env, winAge, winCount>>

---------------------------------------------------------------------------
(* Time.                                                                   *)

Older(n) == IF n < Horizon THEN n + 1 ELSE n

\* The kernel treats a rule past its deadline as absent.
Lapse(e) ==
  IF e.kernel <= 1 THEN Cleared(e, "dataplane") ELSE [e EXCEPT !.kernel = @ - 1]

Aged(b) ==
  IF ~b.active THEN b
  ELSE [b EXCEPT !.left = IF @ >= 0 THEN @ - 1 ELSE @,
                 !.age = Older(@), !.dpAge = Older(@)]

Tick ==
  /\ ban' = [t \in Target |-> Aged(ban[t])]
  /\ env' = [t \in Target |-> Lapse(env[t])]
  /\ winAge' = Older(winAge)
  /\ UNCHANGED <<cfg, held, winCount>>

---------------------------------------------------------------------------
Init ==
  /\ cfg \in Config
  /\ held = [w \in Caller |-> NoConfig]
  /\ ban = [t \in Target |-> NoBan]
  /\ env = [t \in Target |-> NothingUp]
  /\ winAge = Horizon
  /\ winCount = 0

Next ==
  \/ \E w \in Caller : Begin(w)
  \/ \E w \in Worker, h \in Host, d \in Direction : OnAttackStarted(w, h, d)
  \/ \E w \in Worker, h \in Host, d \in Direction : OnAttackOngoing(w, h, d)
  \/ \E h \in Host, d \in Direction : OnAttackEnded(h, d)
  \/ \E w \in Worker, h \in Host : ManualBan(w, h)
  \/ \E h \in Host : ManualUnban(h)
  \/ \E w \in Worker, p \in Prefix : OnCarpetStarted(w, p)
  \/ \E w \in Worker, p \in Prefix : OnCarpetOngoing(w, p)
  \/ \E p \in Prefix : OnCarpetEnded(p)
  \/ Sweep
  \/ Reload
  \/ Tick

Spec == Init /\ [][Next]_vars

\* The one-second ticker keeps firing and its sweep always gets the mutex.
Fairness == WF_vars(Tick) /\ WF_vars(Begin(Sweeper)) /\ WF_vars(Sweep)
FairSpec == Spec /\ Fairness

---------------------------------------------------------------------------
(* Attacks that last.                                                      *)

\* A ban that an attack holds, of a target no configuration spares.
UnderAttack(t) == ban[t].active /\ ~ban[t].manual /\ \A c \in Config : ~Spared(t, c)

\* Every second each attack has its heartbeat (emitOngoing), so that a ban it holds
\* has a whole ttl when the second is over.  What bans it once more in that second
\* comes after the heartbeat: they commute.
Beaten == \A t \in Target : UnderAttack(t) => \E c \in Config : ban[t].left = c.ttl
AfterBeat(w, t) == UnderAttack(t) => ~NeedsRenewal(t, ban[t], held[w])

BeatenNext ==
  \/ \E w \in Worker, h \in Host, d \in Direction : OnAttackStarted(w, h, d) /\ AfterBeat(w, h)
  \/ \E w \in Worker, h \in Host : ManualBan(w, h) /\ AfterBeat(w, h)
  \/ \E w \in Worker, p \in Prefix : OnCarpetStarted(w, p) /\ AfterBeat(w, p)
  \/ \E w \in Worker, h \in Host, d \in Direction : OnAttackOngoing(w, h, d)
  \/ \E w \in Worker, p \in Prefix : OnCarpetOngoing(w, p)
  \/ \E h \in Host, d \in Direction : OnAttackEnded(h, d)
  \/ \E p \in Prefix : OnCarpetEnded(p)
  \/ \E h \in Host : ManualUnban(h)
  \/ \E w \in Caller : Begin(w)
  \/ Sweep
  \/ Reload
  \/ Beaten /\ Tick

BeatenSpec == Init /\ [][BeatenNext]_vars

---------------------------------------------------------------------------
(* Properties.                                                             *)

TypeOK ==
  /\ cfg \in Config
  /\ held \in [Caller -> Config \cup {NoConfig}]
  /\ ban \in [Target -> BanType]
  /\ env \in [Target -> EnvType]
  /\ winAge \in 0..Horizon
  /\ winCount \in Nat

\* The reload never flips mitigation.dry_run.
DryRunFixed == \A c, d \in Config : c.dryRun = d.dryRun

\* The method a ban really enforces: none if it is not active or is dry-run.
Enforcing(b) == IF b.active /\ ~b.dryRun THEN b.method ELSE "alert"

\* Whatever the network or the kernel enforces for a target is what an active,
\* real ban of that target is on, unless its removal failed and was logged:
\* no escalation, fallback, rollback, refresh, reload or sweep strands a route,
\* a rule set or kernel rules (escalateLocked, withdrawMethodLocked).
NoStrandedMitigation ==
  \A t \in Target :
    LET e == env[t]
        m == Enforcing(ban[t])
    IN /\ e.route # "none" => e.route = m \/ "unicast" \in e.leaked
       /\ e.flowspec => m = "flowspec" \/ "flowspec" \in e.leaked
       /\ e.kernel > 0 => m = "dataplane" \/ "dataplane" \in e.leaked

\* The method the API reports for a ban is the one its victim is protected by:
\* the route or rule set it names is up for as long as the ban is active, also
\* across a change of rung (make before break).
ReportedIsEnforced ==
  \A t \in Target :
    LET m == Enforcing(ban[t])
    IN /\ m \in Unicast => env[t].route = m
       /\ m = "flowspec" => env[t].flowspec

\* The kernel rules of a ban do not lapse before the ban does ("every installed
\* rule carries the same deadline the sweeper enforces", installDataplaneLocked).
\* The code keeps it only while heartbeats come: a ban made again by the operator
\* moves its own deadline alone.
RulesOutliveBan ==
  \A t \in Target :
    Enforcing(ban[t]) = "dataplane" /\ ban[t].left > 0 => env[t].kernel > 0

\* The number of active bans of each table never passes the cap, whatever
\* calls and sweeps overlap (ban, banPrefix: "hard cap on simultaneous bans").
CapsHeld ==
  /\ \E c \in Config : Cardinality(ActiveHosts) <= c.maxActive
  /\ \E c \in Config : Cardinality(ActivePrefixes) <= c.maxPrefix

\* Host and carpet bans together never cover more addresses than the blast
\* radius allows (max_banned_fraction).
BlastRadiusHeld ==
  \E c \in Config : c.maxAddresses = 0 \/ ActiveAddresses <= c.maxAddresses

LagsKernel(u, c) ==
  /\ Enforcing(ban'[u]) = "dataplane" /\ ~Spared(u, c)
  /\ 2 * (ban'[u].left - env'[u].kernel) > c.ttl
RefreshingBeat(w) ==
  \/ \E h \in Host, d \in Direction : ban[h].active /\ OnAttackOngoing(w, h, d)
  \/ \E p \in Prefix : ban[p].active /\ ~Spared(p, held[w]) /\ OnCarpetOngoing(w, p)

\* After any heartbeat that refreshed a ban, the kernel rules of no real data-plane
\* ban are more than half a ttl behind it: what the comments say ("keeps the
\* in-kernel deadline at least half a TTL ahead", OnAttackOngoing; "every active
\* data-plane ban whose in-kernel deadline is closer than half a TTL",
\* renewDataplaneLocked).  But what is compared is the age of the install, and a
\* renewal gives the rules no more than their ban has left at that moment.
HeartbeatKeepsKernelAhead ==
  [][\A w \in Worker :
       held[w] # NoConfig /\ (\E u \in Target : LagsKernel(u, held[w]))
         => ~RefreshingBeat(w)]_vars

\* The kernel rules of an attack that is beaten every second (BeatenSpec) have half
\* a ttl ahead of them, to the grain of the clock, however long it lasts and
\* whatever else is banned, renewed or swept meanwhile: they do not lapse while
\* their ban is reported active (renewDataplaneLocked).
KernelAhead ==
  \A t \in Target, c \in Config :
     UnderAttack(t) /\ Enforcing(ban[t]) = "dataplane" => 2 * env[t].kernel + 3 >= c.ttl

Beat(w) == \/ \E h \in Host, d \in Direction : OnAttackOngoing(w, h, d)
           \/ \E p \in Prefix : OnCarpetOngoing(w, p)

\* A renewal that fails leaves the kernel rules it found: nothing a heartbeat
\* does shortens the protection of a ban ("the rules keep their previous
\* deadline", renewDataplaneLocked).  False when an install may fail: the installer
\* removes the rules that were there.
RenewalKeepsRules ==
  [][\A w \in Worker :
       Beat(w) => \A t \in Target : env'[t].kernel >= env[t].kernel]_vars

\* A route changes to a blackhole only for a target the live whitelist does
\* not spare (the package's "absolute refusal to ever blackhole a whitelisted
\* address"), calls that read the configuration before the reload aside.
NeverBlackholesWhitelisted ==
  [][\A t \in Target :
       env[t].route # "blackhole" /\ env'[t].route = "blackhole" =>
         \/ ~Spared(t, cfg)
         \/ \E w \in Caller : held[w] \notin {NoConfig, cfg}]_vars

Refreshed(t) == ban[t].active /\ ban'[t].left > ban[t].left

\* No permanent bans: every ban comes down unless it is refreshed for ever.
NoPermanentBan ==
  \A t \in Target : []<>(~ban[t].active) \/ []<><<Refreshed(t)>>_vars

\* A target the configuration stops protecting loses its ban, and so does a
\* prefix into which a reload brings a whitelisted host, however often their
\* attacks are still reported.
ExcludedComesDown ==
  \A t \in Target :
     \/ []<>(~ban[t].active)
     \/ []<>(t \in cfg.networks /\ ~(t \in Prefix /\ Spared(t, cfg)))
=============================================================================
