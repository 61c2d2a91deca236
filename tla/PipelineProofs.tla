--------------------------- MODULE PipelineProofs ---------------------------
(***************************************************************************)
(* Detection and the Mitigator joined implement the Mitigator, for every    *)
(* size, so what is proved of the Mitigator alone holds of the two; and     *)
(* when the consumers keep up with the ticker, an attack answered with a    *)
(* ban stays banned until it is over, and no longer.                        *)
(***************************************************************************)
EXTENDS Pipeline, TLAPS

\* The theorems of the Mitigator, about the pipeline's own Mitigator.
L == INSTANCE MitigatorProofs

LEMMA SameAssumptions ==
  L!TargetAssumption /\ L!CallerAssumption /\ L!ConfigAssumption
<1>1. /\ L!TargetAssumption = M!TargetAssumption
      /\ L!CallerAssumption = M!CallerAssumption
      /\ L!ConfigAssumption = M!ConfigAssumption
  BY Zenon
  DEF M!TargetAssumption, L!TargetAssumption, M!CallerAssumption, L!CallerAssumption,
      M!ConfigAssumption, L!ConfigAssumption, M!ConfigType, L!ConfigType, M!Target, L!Target,
      M!Method, L!Method, M!Rung, L!Rung, M!IsFiniteSet, L!IsFiniteSet
<1> QED
  BY <1>1, PipelineAssumption

LEMMA SameMitigator ==
  /\ L!Init = M!Init /\ L!Next = M!Next
  /\ L!vars = M!vars /\ L!vars' = M!vars'
  /\ L!TypeOK = M!TypeOK /\ L!TypeOK' = M!TypeOK'
  BY Zenon
  DEF M!Target, M!Caller, M!Direction, M!Family, M!Unicast, M!Method, M!Rung,
      M!ConfigType, M!BanType, M!NoBan, M!EnvType, M!NothingUp, M!FamilyOf,
      M!ActiveHosts, M!ActivePrefixes, M!Covered, M!ActiveAddresses, M!Spared,
      M!Installed, M!Cleared, M!Leaked, M!AfterFailure, M!Announce,
      M!InstallDataplane, M!AnnounceMethod, M!FallsBack, M!AnnounceStage,
      M!WithdrawMethod, M!Slot, M!Withdraw, M!DueRungs, M!TopDue, M!OnRung,
      M!Superseded, M!ClimbTo, M!Escalate, M!Begin, M!Returns, M!Put, M!NewBan,
      M!WindowCount, M!CountedIn, M!UnderFraction, M!UnderRate, M!UnderCap, M!Allowed,
      M!Refuse, M!Refresh, M!Admit, M!OnAttackStarted, M!ManualBan, M!OnCarpetStarted,
      M!NeedsRenewal, M!Renewals, M!Each, M!Kept, M!Heartbeat, M!OnAttackOngoing,
      M!OnCarpetOngoing, M!OnAttackEnded, M!OnCarpetEnded, M!ManualUnban, M!SweepOne,
      M!Sweep, M!Reload, M!Older, M!Lapse, M!Aged, M!Tick, M!Init, M!Next, M!Spec,
      M!vars, M!Cardinality, M!TypeOK, L!Target, L!Caller, L!Direction, L!Family,
      L!Unicast, L!Method, L!Rung, L!ConfigType, L!BanType, L!NoBan, L!EnvType,
      L!NothingUp, L!FamilyOf, L!ActiveHosts, L!ActivePrefixes, L!Covered,
      L!ActiveAddresses, L!Spared, L!Installed, L!Cleared, L!Leaked, L!AfterFailure,
      L!Announce, L!InstallDataplane, L!AnnounceMethod, L!FallsBack, L!AnnounceStage,
      L!WithdrawMethod, L!Slot, L!Withdraw, L!DueRungs, L!TopDue, L!OnRung,
      L!Superseded, L!ClimbTo, L!Escalate, L!Begin, L!Returns, L!Put, L!NewBan,
      L!WindowCount, L!CountedIn, L!UnderFraction, L!UnderRate, L!UnderCap, L!Allowed,
      L!Refuse, L!Refresh, L!Admit, L!OnAttackStarted, L!ManualBan, L!OnCarpetStarted,
      L!NeedsRenewal, L!Renewals, L!Each, L!Kept, L!Heartbeat, L!OnAttackOngoing,
      L!OnCarpetOngoing, L!OnAttackEnded, L!OnCarpetEnded, L!ManualUnban, L!SweepOne,
      L!Sweep, L!Reload, L!Older, L!Lapse, L!Aged, L!Tick, L!Init, L!Next, L!Spec,
      L!vars, L!Cardinality, L!TypeOK

LEMMA SameLimits ==
  L!CapsHeld = M!CapsHeld /\ L!BlastRadiusHeld = M!BlastRadiusHeld
  BY Zenon
  DEF M!CapsHeld, M!BlastRadiusHeld, L!CapsHeld, L!BlastRadiusHeld, M!ActiveHosts, L!ActiveHosts,
      M!ActivePrefixes, L!ActivePrefixes, M!ActiveAddresses, L!ActiveAddresses,
      M!Covered, L!Covered, M!Cardinality, L!Cardinality

---------------------------------------------------------------------------
(* The refinement.                                                         *)

\* A step of the pipeline is one of the Mitigator or leaves it alone.
LEMMA StepMaps ==
  ASSUME [Next]_vars
  PROVE  [M!Next]_(M!vars)
<1>1. UNCHANGED mitVars => UNCHANGED M!vars
  BY DEF mitVars, M!vars
<1>0. ASSUME NEW s \in Subject  PROVE s.dir \in M!Direction
  BY DEF Subject, D!Subject, M!Direction
<1>2. Lifecycle \in Worker /\ Heartbeats \in Worker /\ Api \in Worker
  BY DEF Worker
<1>3. ASSUME NEW w \in {Lifecycle, Heartbeats, Api, Sweeper}, M!Begin(w)
      PROVE  M!Next
  <2>1. w \in M!Caller
    BY <1>2 DEF M!Caller
  <2> QED
    BY <1>3, <2>1 DEF M!Next
<1>4. CASE TakeEvent
  BY <1>1, <1>3, <1>4 DEF TakeEvent, Take
<1>5. CASE TakeHeartbeat
  BY <1>1, <1>3, <1>5 DEF TakeHeartbeat, Take
<1>6. ASSUME NEW s \in Subject, HandleStarted(s)
      PROVE  M!Next
  BY <1>0, <1>2, <1>6 DEF HandleStarted, M!Next
<1>7. ASSUME NEW s \in Subject, HandleEnded(s)
      PROVE  [M!Next]_(M!vars)
  BY <1>0, <1>1, <1>2, <1>7 DEF HandleEnded, M!Next
<1>8. ASSUME NEW s \in Subject, HandleHeartbeat(s)
      PROVE  M!Next
  BY <1>0, <1>2, <1>8 DEF HandleHeartbeat, M!Next
<1>9. ASSUME NEW s \in Subject, Evaluate(s)
      PROVE  UNCHANGED mitVars
  BY <1>9 DEF Evaluate
<1>10. ASSUME NEW h \in Host, OperatorBans(h)
       PROVE  M!Next
  BY <1>2, <1>10 DEF OperatorBans, M!Next
<1>11. ASSUME NEW h \in Host, OperatorUnbans(h)
       PROVE  M!Next
  BY <1>11 DEF OperatorUnbans, M!Next
<1>12. CASE CallBegins
  BY <1>3, <1>12 DEF CallBegins
<1>13. CASE Sweep
  BY <1>13 DEF Sweep, M!Next
<1>14. CASE Reload
  BY <1>14 DEF Reload, M!Next
<1>15. CASE Tick
  BY <1>15 DEF Tick, M!Next
<1>16. CASE UNCHANGED vars
  BY <1>1, <1>16 DEF vars
<1> QED
  BY <1>1, <1>4, <1>5, <1>6, <1>7, <1>8, <1>9, <1>10, <1>11, <1>12, <1>13, <1>14, <1>15, <1>16
  DEF Next

\* Detection and the operator drive the Mitigator only as its own specification allows.
THEOREM PipelineImplementsMitigator == Spec => ImplementsMitigator
<1>1. Init => M!Init
  BY DEF Init
<1>2. [Next]_vars => [M!Next]_(M!vars)
  BY StepMaps
<1> QED
  BY <1>1, <1>2, PTL DEF Spec, ImplementsMitigator, M!Spec

\* So the caps and the blast radius hold whatever the engine detects and when.
THEOREM PipelineLimits == Spec => [](M!TypeOK /\ M!CapsHeld /\ M!BlastRadiusHeld)
<1>1. L!Spec => [](L!TypeOK /\ L!CapsHeld /\ L!BlastRadiusHeld)
  <2>1. L!TargetAssumption /\ L!CallerAssumption /\ L!ConfigAssumption
    BY SameAssumptions
  <2> QED
    BY <2>1, L!TypeCorrect, L!CapsKept, L!BlastRadiusKept, PTL
<1>2. Init => L!Init
  BY SameMitigator DEF Init
<1>3. [Next]_vars => [L!Next]_(L!vars)
  BY SameMitigator, StepMaps
<1>4. L!TypeOK /\ L!CapsHeld /\ L!BlastRadiusHeld => M!TypeOK /\ M!CapsHeld /\ M!BlastRadiusHeld
  BY SameMitigator, SameLimits
<1> QED
  BY <1>1, <1>2, <1>3, <1>4, PTL DEF Spec, L!Spec

---------------------------------------------------------------------------
(* What a handler makes of a ban.                                          *)

SameBan(t) ==
  /\ ban'[t].active = ban[t].active /\ ban'[t].manual = ban[t].manual
  /\ ban'[t].dirs = ban[t].dirs /\ ban'[t].left = ban[t].left

\* The ban was there, is held by dirs too, and has a ttl ahead.
Refreshed(t, dirs) ==
  /\ ban[t].active /\ ban'[t].active /\ ban'[t].manual = ban[t].manual
  /\ ban'[t].dirs = ban[t].dirs \cup dirs /\ ban'[t].left \in Nat \ {0}

\* The ban was not there, is held by dirs, and has a ttl ahead.
Added(t, dirs, manual) ==
  /\ ~ban[t].active /\ ban'[t].active /\ ban'[t].manual = manual
  /\ ban'[t].dirs = dirs /\ ban'[t].left \in Nat \ {0}

Others(t) == \A u \in M!Target \ {t} : SameBan(u)

\* The configurations of the callers, and the ttl of each.
LEMMA HeldTyped ==
  ASSUME TypeOK, NEW w \in {Lifecycle, Heartbeats, Api, Sweeper}, held[w] # NoConfig
  PROVE  held[w] \in Config /\ held[w].ttl \in Nat /\ held[w].ttl >= 1
<1>1. held[w] \in Config
  BY DEF TypeOK, M!TypeOK, M!Caller, Worker
<1>2. held[w] \in M!ConfigType /\ Horizon \in Nat
  BY <1>1, PipelineAssumption DEF M!ConfigAssumption
<1>3. held[w].ttl \in 1..Horizon
  BY <1>2 DEF M!ConfigType
<1> QED
  BY <1>1, <1>2, <1>3

\* A ban that is made is a record of all its fields.
LEMMA BanTyped ==
  ASSUME TypeOK, NEW t \in M!Target
  PROVE  /\ ban[t] \in M!BanType /\ ban \in [M!Target -> M!BanType]
         /\ ban[t].active \in BOOLEAN /\ ban[t].manual \in BOOLEAN /\ ban[t].left \in Int
  BY PipelineAssumption DEF TypeOK, M!TypeOK, M!BanType, M!ConfigAssumption

\* A call that is refused, refreshes or admits.
LEMMA CallMakes ==
  ASSUME TypeOK, NEW w \in {Lifecycle, Heartbeats, Api}, NEW t \in M!Target, held[w] # NoConfig,
         NEW ladder, NEW dirs, NEW manual,
         M!Refuse(w, t) \/ M!Refresh(w, t, dirs) \/ M!Admit(w, t, ladder, dirs, manual)
  PROVE  /\ Others(t)
         /\ \/ SameBan(t) /\ (M!Allowed(t, held[w]) => ~ban[t].active)
            \/ Refreshed(t, dirs)
            \/ Added(t, dirs, manual)
<1>2. CASE M!Refuse(w, t)
  BY <1>2 DEF M!Refuse, Others, SameBan
<1>3. CASE M!Refresh(w, t, dirs)
  <2>1. ban[t].active /\ ban' = [ban EXCEPT ![t].left = held[w].ttl, ![t].dirs = @ \cup dirs]
    BY <1>3 DEF M!Refresh
  <2>2. Others(t)
    BY <2>1, BanTyped DEF Others, SameBan
  <2>3. ban'[t] = [ban[t] EXCEPT !.left = held[w].ttl, !.dirs = ban[t].dirs \cup dirs]
    BY <2>1, BanTyped DEF M!BanType
  <2>4. Refreshed(t, dirs)
    BY <2>1, <2>3, BanTyped, HeldTyped DEF Refreshed, M!BanType
  <2> QED
    BY <2>2, <2>4
<1>4. CASE M!Admit(w, t, ladder, dirs, manual)
  <2> DEFINE b == M!NewBan(held[w], ladder, dirs, manual)
  <2>1. PICK m, e, x : \/ ban' = [ban EXCEPT ![t] = M!OnRung(b, 1, m, held[w])]
                       \/ ban' = [ban EXCEPT ![t] = ban[t]]
    BY <1>4 DEF M!Admit, M!Put, M!Slot
  <2>2. ~ban[t].active /\ M!Allowed(t, held[w])
    BY <1>4 DEF M!Admit
  <2>3. CASE ban' = [ban EXCEPT ![t] = ban[t]]
    BY <2>2, <2>3, BanTyped DEF Others, SameBan
  <2>4. CASE ban' = [ban EXCEPT ![t] = M!OnRung(b, 1, m, held[w])]
    <3>1. Others(t) /\ ban'[t] = M!OnRung(b, 1, m, held[w])
      BY <2>4, BanTyped DEF Others, SameBan
    <3>2. /\ ban'[t].active = TRUE /\ ban'[t].manual = manual /\ ban'[t].dirs = dirs
          /\ ban'[t].left = held[w].ttl
      BY <3>1 DEF M!OnRung, M!NewBan
    <3> QED
      BY <2>2, <3>1, <3>2, HeldTyped DEF Added
  <2> QED
    BY <2>1, <2>3, <2>4
<1> QED
  BY <1>2, <1>3, <1>4

\* What one target's share of a renewal, or of a sweep, makes of its ban.
LEMMA RenewalMakes ==
  ASSUME NEW t, NEW b, NEW e, NEW c, NEW s \in M!Renewals(t, b, e, c)
  PROVE  s.ban.active = b.active /\ s.ban.manual = b.manual /\ s.ban.dirs = b.dirs /\ s.ban.left = b.left
<1>1. CASE s = M!Slot(b, e)
  BY <1>1 DEF M!Slot
<1>2. CASE \E o \in M!InstallDataplane(e, b.left) :
             s = M!Slot(IF o.ok THEN [b EXCEPT !.dpAge = 0] ELSE b, o.env)
  BY <1>2 DEF M!Slot
<1> QED
  BY <1>1, <1>2 DEF M!Renewals

LEMMA ClimbMakes ==
  ASSUME NEW i, NEW b, NEW e, NEW c, NEW s \in M!ClimbTo(i, b, e, c)
  PROVE  s.ban.active = b.active /\ s.ban.manual = b.manual /\ s.ban.dirs = b.dirs /\ s.ban.left = b.left
<1>1. \E x : \/ s = M!Slot([b EXCEPT !.step = i], x)
             \/ \E m : s = M!Slot(M!OnRung(b, i, m, c), x)
             \/ s = M!Slot(b, x)
  <2>1. CASE b.ladder[i].action = b.method
    BY <2>1 DEF M!ClimbTo
  <2>2. CASE b.ladder[i].action # b.method
    <3>1. PICK o \in M!AnnounceStage(e, b.ladder[i].action, c, b.left) :
            s \in IF o.ok
                  THEN {M!Slot(M!OnRung(b, i, o.method, c), x) : x \in M!Superseded(b, o)}
                  ELSE {M!Slot(b, o.env)}
      BY <2>2 DEF M!ClimbTo
    <3> QED
      BY <3>1
  <2> QED
    BY <2>1, <2>2
<1>2. PICK x : \/ s = M!Slot([b EXCEPT !.step = i], x)
               \/ \E m : s = M!Slot(M!OnRung(b, i, m, c), x)
               \/ s = M!Slot(b, x)
  BY <1>1
<1>3. CASE s = M!Slot([b EXCEPT !.step = i], x)
  <2>1. s.ban = [b EXCEPT !.step = i]
    BY <1>3 DEF M!Slot
  <2> QED
    BY <2>1
<1>4. ASSUME NEW m, s = M!Slot(M!OnRung(b, i, m, c), x)
      PROVE  s.ban.active = b.active /\ s.ban.manual = b.manual /\ s.ban.dirs = b.dirs /\ s.ban.left = b.left
  <2>1. s.ban = M!OnRung(b, i, m, c)
    BY <1>4 DEF M!Slot
  <2> QED
    BY <2>1 DEF M!OnRung
<1>5. CASE s = M!Slot(b, x)
  BY <1>5 DEF M!Slot
<1> QED
  BY <1>2, <1>3, <1>4, <1>5

Expired(t, c) == ban[t].left < 0 \/ t \notin c.networks \/ (t \in Prefix /\ M!Spared(t, c))

LEMMA SweepMakes ==
  ASSUME TypeOK, M!Sweep, NEW t \in M!Target
  PROVE  SameBan(t) \/ (ban[t].active /\ Expired(t, held[Sweeper]) /\ ~ban'[t].active)
<1> DEFINE c == held[Sweeper]
           R == [u \in M!Target |-> M!SweepOne(u, ban[u], env[u], c)]
<1>1. M!Each(R)
  BY DEF M!Sweep
<1>2. PICK f \in [M!Target -> UNION {R[u] : u \in M!Target}] :
        (\A u \in M!Target : f[u] \in R[u]) /\ ban' = [u \in M!Target |-> f[u].ban]
  <2> HIDE DEF R
  <2> QED
    BY <1>1 DEF M!Each
<1>3. f[t] \in M!SweepOne(t, ban[t], env[t], c) /\ ban'[t] = f[t].ban
  BY <1>2
<1>4. CASE f[t] = M!Slot(ban[t], env[t])
  BY <1>3, <1>4 DEF M!Slot, SameBan
<1>5. CASE ban[t].active /\ Expired(t, c) /\ f[t] \in M!Withdraw(ban[t], env[t])
  BY <1>3, <1>5 DEF M!Withdraw, M!Slot, M!NoBan
<1>6. CASE \E i \in M!TopDue(ban[t]) : f[t] \in M!ClimbTo(i, ban[t], env[t], c)
  BY <1>3, <1>6, ClimbMakes DEF SameBan
<1> QED
  BY <1>3, <1>4, <1>5, <1>6 DEF M!SweepOne, M!Escalate, Expired

\* A heartbeat refreshes the ban it names and no other, unless the prefix it names is
\* spared.
LEMMA HeartbeatMakes ==
  ASSUME TypeOK, NEW w \in {Lifecycle, Heartbeats, Api}, NEW t \in M!Target, NEW dirs,
         M!Heartbeat(w, t, dirs)
  PROVE  /\ Others(t)
         /\ \/ SameBan(t) /\ (ban[t].active => t \in Prefix /\ M!Spared(t, held[w]))
            \/ Refreshed(t, dirs)
<1> DEFINE c == held[w]
           Now(u) == IF u = t THEN M!Kept(t, dirs, c) ELSE ban[u]
           R == [u \in M!Target |-> M!Renewals(u, Now(u), env[u], c)]
<1>1. CASE UNCHANGED ban /\ (~ban[t].active \/ (t \in Prefix /\ M!Spared(t, c)))
  BY <1>1 DEF Others, SameBan
<1>2. CASE M!Each(R) /\ ban[t].active
  <2>1. PICK f \in [M!Target -> UNION {R[u] : u \in M!Target}] :
          (\A u \in M!Target : f[u] \in R[u]) /\ ban' = [u \in M!Target |-> f[u].ban]
    <3> HIDE DEF R
    <3> QED
      BY <1>2 DEF M!Each
  <2> HIDE DEF Now, c
  <2>2. \A u \in M!Target : f[u] \in M!Renewals(u, Now(u), env[u], c)
    BY <2>1
  <2> HIDE DEF R
  <2>3. \A u \in M!Target :
          /\ ban'[u].active = Now(u).active /\ ban'[u].manual = Now(u).manual
          /\ ban'[u].dirs = Now(u).dirs /\ ban'[u].left = Now(u).left
    BY <2>1, <2>2, RenewalMakes
  <2>4. Others(t)
    BY <2>3 DEF Others, SameBan, Now
  <2>5. /\ Now(t).active = ban[t].active /\ Now(t).manual = ban[t].manual
        /\ Now(t).dirs = ban[t].dirs \cup dirs /\ Now(t).left = c.ttl
    BY BanTyped DEF Now, M!Kept, M!BanType
  <2>6. c.ttl \in Nat \ {0}
    BY HeldTyped DEF M!Heartbeat, c
  <2> QED
    BY <1>2, <2>3, <2>4, <2>5, <2>6 DEF Refreshed
<1> QED
  BY <1>1, <1>2 DEF M!Heartbeat

\* A withdrawal takes down the ban it names and no other.
LEMMA WithdrawMakes ==
  ASSUME TypeOK, NEW t \in M!Target, \E s \in M!Withdraw(ban[t], env[t]) : M!Put(t, s)
  PROVE  Others(t) /\ ~ban'[t].active
<1>0. PICK s \in M!Withdraw(ban[t], env[t]) : M!Put(t, s)
  OBVIOUS
<1>a. ban' = [ban EXCEPT ![t] = s.ban]
  BY <1>0 DEF M!Put
<1>b. PICK x : s = M!Slot(M!NoBan, x)
  BY DEF M!Withdraw
<1>1. ban' = [ban EXCEPT ![t] = M!NoBan]
  BY <1>a, <1>b DEF M!Slot
<1> QED
  BY <1>1, BanTyped DEF Others, SameBan, M!NoBan

\* The end of one direction's attack takes down the ban only when nothing else holds it.
LEMMA EndMakes ==
  ASSUME TypeOK, NEW h \in Host, NEW d, M!OnAttackEnded(h, d)
  PROVE  /\ Others(h) /\ ban[h].active
         /\ \/ /\ ban'[h].active /\ ban'[h].manual = ban[h].manual
               /\ ban'[h].dirs = ban[h].dirs \ {d} /\ ban'[h].left = ban[h].left
               /\ ban[h].manual \/ ban[h].dirs \ {d} # {}
            \/ ~ban'[h].active /\ ~ban[h].manual /\ ban[h].dirs \ {d} = {}
<1>0. h \in M!Target
  BY DEF M!Target
<1>1. CASE /\ ban[h].dirs \ {d} # {} \/ ban[h].manual
           /\ ban' = [ban EXCEPT ![h].dirs = ban[h].dirs \ {d}]
  <2>1. ban'[h] = [ban[h] EXCEPT !.dirs = ban[h].dirs \ {d}] /\ Others(h)
    BY <1>0, <1>1, BanTyped DEF Others, SameBan
  <2> QED
    BY <1>0, <1>1, <2>1, BanTyped DEF M!OnAttackEnded, M!BanType
<1>2. CASE /\ ~(ban[h].dirs \ {d} # {} \/ ban[h].manual)
           /\ \E s \in M!Withdraw(ban[h], env[h]) : M!Put(h, s)
  BY <1>0, <1>2, WithdrawMakes DEF M!OnAttackEnded
<1> QED
  BY <1>1, <1>2 DEF M!OnAttackEnded

\* A second passes.
LEMMA TickMakes ==
  ASSUME TypeOK, M!Tick, NEW t \in M!Target
  PROVE  /\ ban'[t].active = ban[t].active /\ ban'[t].manual = ban[t].manual /\ ban'[t].dirs = ban[t].dirs
         /\ ban[t].active /\ ban[t].left >= 1 => ban'[t].left >= 0
<1>1. ban'[t] = M!Aged(ban[t])
  BY DEF M!Tick
<1>2. CASE ~ban[t].active
  BY <1>1, <1>2 DEF M!Aged
<1>3. CASE ban[t].active
  <2>1. ban'[t] = [ban[t] EXCEPT !.left = IF ban[t].left >= 0 THEN ban[t].left - 1 ELSE ban[t].left,
                                 !.age = M!Older(ban[t].age), !.dpAge = M!Older(ban[t].dpAge)]
    BY <1>1, <1>3 DEF M!Aged
  <2>2. ban'[t].left = IF ban[t].left >= 0 THEN ban[t].left - 1 ELSE ban[t].left
    BY <2>1, BanTyped DEF M!BanType
  <2>3. ban'[t].active = ban[t].active /\ ban'[t].manual = ban[t].manual /\ ban'[t].dirs = ban[t].dirs
    BY <2>1
  <2> QED
    BY <2>2, <2>3, BanTyped
<1> QED
  BY <1>2, <1>3

---------------------------------------------------------------------------
(* The channels and the types.                                             *)

\* A channel's events, and one more at its end if there is room.
LEMMA EmittedIs ==
  ASSUME NEW q \in Seq(D!Event), Len(q) <= EventCap, NEW kind, NEW s, NEW enabled, NEW e \in D!Event,
         e = [kind |-> kind, subject |-> s, banEnabled |-> enabled],
         NEW r, r = D!Emitted(q, kind, s, enabled)
  PROVE  /\ r \in Seq(D!Event) /\ Len(r) <= EventCap
         /\ \A i \in 1..Len(r) : r[i] = e \/ (i \in 1..Len(q) /\ r[i] = q[i])
         /\ \A i \in 1..Len(q) : i \in 1..Len(r) /\ r[i] = q[i]
         /\ Len(q) < EventCap => Len(r) \in 1..Len(r) /\ r[Len(r)] = e
<1>1. EventCap \in Nat /\ Len(q) \in Nat
  BY PipelineAssumption
<1>2. CASE Len(q) < EventCap
  <2>1. r = Append(q, e)
    BY <1>2 DEF D!Emitted
  <2>2. r \in Seq(D!Event) /\ Len(r) = Len(q) + 1 /\ r[Len(q) + 1] = e
    BY <2>1
  <2>3. \A i \in 1..Len(q) : r[i] = q[i]
    BY <2>1
  <2>4. \A i \in 1..Len(r) : i \in 1..Len(q) \/ i = Len(q) + 1
    BY <1>1, <2>2
  <2>5. Len(q) + 1 \in 1..Len(r) /\ (\A i \in 1..Len(q) : i \in 1..Len(r)) /\ Len(r) <= EventCap
    BY <1>1, <1>2, <2>2
  <2> QED
    BY <2>2, <2>3, <2>4, <2>5
<1>3. CASE ~(Len(q) < EventCap)
  BY <1>3 DEF D!Emitted
<1> QED
  BY <1>2, <1>3

\* Taking from a channel: the first event, and the rest.
LEMMA TakenIs ==
  ASSUME NEW q \in Seq(D!Event), Len(q) <= EventCap, q # <<>>
  PROVE  /\ Head(q) \in D!Event /\ Tail(q) \in Seq(D!Event) /\ Len(Tail(q)) <= EventCap
         /\ 1 \in 1..Len(q) /\ q[1] = Head(q)
         /\ \A i \in 1..Len(Tail(q)) : i + 1 \in 1..Len(q) /\ Tail(q)[i] = q[i + 1]
         /\ \A i \in 1..Len(q) : q[i] = Head(q) \/ (i - 1 \in 1..Len(Tail(q)) /\ Tail(q)[i - 1] = q[i])
<1>1. EventCap \in Nat /\ Len(q) \in Nat /\ Len(q) >= 1
  BY PipelineAssumption
<1>2. Head(q) \in D!Event /\ Tail(q) \in Seq(D!Event) /\ q[1] = Head(q)
  BY <1>1
<1>3. Len(Tail(q)) = Len(q) - 1
  BY <1>1
<1>4. \A i \in 1..Len(Tail(q)) : Tail(q)[i] = q[i + 1]
  BY <1>1, <1>3
<1>5. ASSUME NEW i \in 1..Len(q), i # 1
      PROVE  i - 1 \in 1..Len(Tail(q)) /\ Tail(q)[i - 1] = q[i]
  <2>1. i - 1 \in 1..Len(Tail(q))
    BY <1>1, <1>3, <1>5
  <2> QED
    BY <1>4, <2>1
<1> QED
  BY <1>1, <1>2, <1>3, <1>4, <1>5

\* The policy an event carries is a policy.
LEMMA PolicyTyped ==
  ASSUME TypeOK, NEW s \in Subject, NEW c \in Config
  PROVE  D!BanEnabled(s, c) \in BOOLEAN
<1>1. c \in M!ConfigType
  BY PipelineAssumption DEF M!ConfigAssumption
<1> QED
  BY <1>1 DEF D!BanEnabled, M!ConfigType

\* The engine's look at one subject keeps the detection typed.
LEMMA EvaluateTyped ==
  ASSUME TypeOK, Passing, NEW s \in Subject, NEW over \in BOOLEAN, D!Evaluate(s, over)
  PROVE  D!DetTypeOK' /\ Passing'
<1>1. s \in pending /\ tickCfg \in Config
  BY DEF D!Evaluate, D!Reached, Passing
<1>2. D!BanEnabled(s, tickCfg) \in BOOLEAN
  BY <1>1, PolicyTyped
<1>3. tickCfg' \in Config \cup {NoConfig} /\ pending' \subseteq Subject /\ Passing'
  BY <1>1 DEF D!Evaluate, TypeOK, D!DetTypeOK, Passing, Subject
<1>4. /\ events \in Seq(D!Event) /\ Len(events) <= EventCap
      /\ ongoing \in Seq(D!Event) /\ Len(ongoing) <= EventCap
      /\ attack \in [Subject -> [on : BOOLEAN, below : 0..Hysteresis]]
      /\ lostEnd \subseteq Subject /\ Hysteresis \in Nat
  BY PipelineAssumption DEF TypeOK, D!DetTypeOK, Subject
<1>5. ASSUME NEW kind \in {"started", "ended", "ongoing"}, NEW b \in BOOLEAN
      PROVE  [kind |-> kind, subject |-> s, banEnabled |-> b] \in D!Event
  BY DEF D!Event, Subject
<1>6. CASE D!StartAttack(s)
  <2>1. events' \in Seq(D!Event) /\ Len(events') <= EventCap
    BY <1>2, <1>4, <1>5, <1>6, EmittedIs DEF D!StartAttack
  <2>2. attack' \in [Subject -> [on : BOOLEAN, below : 0..Hysteresis]]
    BY <1>4, <1>6 DEF D!StartAttack
  <2> QED
    BY <1>3, <1>4, <1>6, <2>1, <2>2 DEF D!StartAttack, D!DetTypeOK, Subject
<1>7. CASE D!EndAttack(s)
  <2>0. (s.target \in Host /\ D!BanEnabled(s, tickCfg)) \in BOOLEAN
    OBVIOUS
  <2> DEFINE b == s.target \in Host /\ D!BanEnabled(s, tickCfg)
             x == [kind |-> "ended", subject |-> s, banEnabled |-> b]
  <2>a. x \in D!Event /\ events' = D!Emitted(events, "ended", s, b)
    BY <2>0, <1>5, <1>7 DEF D!EndAttack
  <2>1. events' \in Seq(D!Event) /\ Len(events') <= EventCap
    <3> HIDE DEF b
    <3> QED
      BY <2>a, <1>4, EmittedIs
  <2>2. attack' \in [Subject -> [on : BOOLEAN, below : 0..Hysteresis]] /\ lostEnd' \subseteq Subject
    BY <1>4, <1>7 DEF D!EndAttack, D!Quiet
  <2> QED
    BY <1>3, <1>4, <1>7, <2>1, <2>2 DEF D!EndAttack, D!DetTypeOK, Subject
<1>8. ASSUME NEW below \in 0..Hysteresis, D!KeepAttack(s, below)
      PROVE  D!DetTypeOK'
  <2> DEFINE yes == TRUE
             x == [kind |-> "ongoing", subject |-> s, banEnabled |-> yes]
  <2>a. x \in D!Event /\ (ongoing' = D!Emitted(ongoing, "ongoing", s, yes) \/ ongoing' = ongoing)
    BY <1>5, <1>8 DEF D!KeepAttack
  <2>1. ongoing' \in Seq(D!Event) /\ Len(ongoing') <= EventCap
    <3> HIDE DEF yes
    <3> QED
      BY <2>a, <1>4, EmittedIs
  <2>2. attack' \in [Subject -> [on : BOOLEAN, below : 0..Hysteresis]]
    BY <1>4, <1>8 DEF D!KeepAttack
  <2> QED
    BY <1>3, <1>4, <1>8, <2>1, <2>2 DEF D!KeepAttack, D!DetTypeOK, Subject
<1>9. CASE UNCHANGED <<attack, events, ongoing, lostEnd>>
  BY <1>3, <1>4, <1>9 DEF D!DetTypeOK, Subject
<1>10. attack[s].below \in 0..Hysteresis
  BY <1>4
<1>11. ASSUME over \/ attack[s].below < Hysteresis, D!KeepAttack(s, IF over THEN 0 ELSE attack[s].below + 1)
       PROVE  D!DetTypeOK'
  <2>1. (IF over THEN 0 ELSE attack[s].below + 1) \in 0..Hysteresis
    BY <1>4, <1>10, <1>11
  <2> QED
    BY <1>8, <1>11, <2>1
<1> QED
  BY <1>3, <1>6, <1>7, <1>9, <1>11 DEF D!Evaluate

\* Each step keeps the types, and a pass the configuration it began with.
LEMMA PipelineStepTyped ==
  ASSUME TypeOK, Passing, [Next]_vars
  PROVE  TypeOK' /\ Passing'
<1> DEFINE Rest == D!DetTypeOK' /\ task' \in [Consumer -> D!Event \cup {NoEvent}]
                   /\ promised' \in [Subject -> BOOLEAN] /\ Passing'
<1>1. M!TypeOK'
  BY SameAssumptions, SameMitigator, StepMaps, L!NextTyped DEF TypeOK
<1>2. /\ D!DetTypeOK /\ task \in [Consumer -> D!Event \cup {NoEvent}]
      /\ promised \in [Subject -> BOOLEAN] /\ cfg \in Config
      /\ events \in Seq(D!Event) /\ Len(events) <= EventCap
      /\ ongoing \in Seq(D!Event) /\ Len(ongoing) <= EventCap
  BY DEF TypeOK, D!DetTypeOK, M!TypeOK
<1>3. ASSUME UNCHANGED detVars  PROVE D!DetTypeOK' /\ Passing'
  BY <1>2, <1>3 DEF detVars, D!DetTypeOK, Passing
<1>4. ASSUME NEW w \in Consumer, Finished(w), promised' \in [Subject -> BOOLEAN]
      PROVE  Rest
  <2>1. UNCHANGED detVars /\ task' = [task EXCEPT ![w] = NoEvent]
    BY <1>4 DEF Finished
  <2> QED
    BY <1>2, <1>3, <1>4, <2>1
<1>5. ASSUME UNCHANGED <<detVars, task>>, promised' \in [Subject -> BOOLEAN]
      PROVE  Rest
  BY <1>2, <1>3, <1>5
<1>6. ASSUME NEW w \in Consumer, NEW e \in D!Event, Take(w, e)
      PROVE  task' \in [Consumer -> D!Event \cup {NoEvent}] /\ UNCHANGED promised
  BY <1>2, <1>6 DEF Take
<1>7. Lifecycle \in Consumer /\ Heartbeats \in Consumer
  BY DEF Consumer
<1>8. ASSUME TakeEvent  PROVE Rest
  <2>1. Head(events) \in D!Event /\ events' \in Seq(D!Event) /\ Len(events') <= EventCap
    BY <1>2, <1>8, TakenIs DEF TakeEvent, D!TakeEvent
  <2> QED
    BY <1>2, <1>6, <1>7, <1>8, <2>1 DEF TakeEvent, D!TakeEvent, D!DetTypeOK, Passing
<1>9. ASSUME TakeHeartbeat  PROVE Rest
  <2>1. Head(ongoing) \in D!Event /\ ongoing' \in Seq(D!Event) /\ Len(ongoing') <= EventCap
    BY <1>2, <1>9, TakenIs DEF TakeHeartbeat, D!TakeOngoing
  <2> QED
    BY <1>2, <1>6, <1>7, <1>9, <2>1 DEF TakeHeartbeat, D!TakeOngoing, D!DetTypeOK, Passing
<1>10. ASSUME NEW s \in Subject, HandleStarted(s)  PROVE Rest
  <2>1. s.target \in M!Target /\ M!TypeOK
    BY DEF Subject, D!Subject, M!Target, TypeOK
  <2>2. ban'[s.target].active \in BOOLEAN
    BY <1>1, <2>1 DEF M!TypeOK, M!BanType
  <2> DEFINE now == On(s) /\ D!BanEnabled(s, held[Lifecycle])
                    /\ M!Allowed(s.target, held[Lifecycle]) /\ ban'[s.target].active
  <2>3. now \in BOOLEAN
    OBVIOUS
  <2>4. promised' = [promised EXCEPT ![s] = now]
    BY <1>10 DEF HandleStarted
  <2> HIDE DEF now
  <2>5. promised' \in [Subject -> BOOLEAN]
    BY <1>2, <2>3, <2>4
  <2> QED
    BY <1>4, <1>7, <1>10, <2>5 DEF HandleStarted
<1>11. ASSUME NEW s \in Subject, HandleEnded(s)  PROVE Rest
  BY <1>2, <1>4, <1>7, <1>11 DEF HandleEnded
<1>12. ASSUME NEW s \in Subject, HandleHeartbeat(s)  PROVE Rest
  <2> DEFINE now == promised[s] /\ (s.target \in Prefix => ~M!Spared(s.target, held[Heartbeats]))
  <2>1. now \in BOOLEAN
    OBVIOUS
  <2>2. promised' = [promised EXCEPT ![s] = now]
    BY <1>12 DEF HandleHeartbeat
  <2> HIDE DEF now
  <2>3. promised' \in [Subject -> BOOLEAN]
    BY <1>2, <2>1, <2>2
  <2> QED
    BY <1>4, <1>7, <1>12, <2>3 DEF HandleHeartbeat
<1>13. ASSUME NEW s \in Subject, Evaluate(s)  PROVE Rest
  <2> DEFINE now == promised[s] /\ attack'[s].on /\ D!BanEnabled(s, tickCfg) /\ Len(ongoing) < EventCap
  <2>1. now \in BOOLEAN
    OBVIOUS
  <2>2. promised' = [promised EXCEPT ![s] = now]
    BY <1>13 DEF Evaluate
  <2> HIDE DEF now
  <2>3. promised' \in [Subject -> BOOLEAN]
    BY <1>2, <2>1, <2>2
  <2> QED
    BY <1>2, <1>13, <2>3, EvaluateTyped DEF Evaluate
<1>14. ASSUME NEW h \in Host, OperatorBans(h)  PROVE Rest
  BY <1>2, <1>5, <1>14 DEF OperatorBans
<1>15. ASSUME NEW h \in Host, OperatorUnbans(h)  PROVE Rest
  BY <1>2, <1>5, <1>15 DEF OperatorUnbans
<1>16. ASSUME CallBegins  PROVE Rest
  BY <1>2, <1>5, <1>16 DEF CallBegins
<1>17. ASSUME Sweep  PROVE Rest
  BY <1>2, <1>5, <1>17 DEF Sweep
<1>18. ASSUME Reload  PROVE Rest
  BY <1>2, <1>5, <1>18 DEF Reload
<1>19. ASSUME Tick  PROVE Rest
  BY <1>2, <1>19 DEF Tick, D!BeginTick, D!DetTypeOK, Passing, Subject
<1>20. ASSUME UNCHANGED vars  PROVE Rest
  BY <1>2, <1>5, <1>20 DEF vars
<1> QED
  BY <1>1, <1>8, <1>9, <1>10, <1>11, <1>12, <1>13, <1>14, <1>15, <1>16, <1>17, <1>18, <1>19, <1>20
  DEF Next, TypeOK

\* Nothing is detected, and nothing banned, at the start.
LEMMA PipelineInitTyped ==
  ASSUME Init
  PROVE  TypeOK /\ Passing
<1>1. M!TypeOK
  BY SameAssumptions, SameMitigator, L!InitTyped DEF Init
<1>2. D!DetTypeOK /\ Passing
  BY PipelineAssumption DEF Init, D!DetInit, D!DetTypeOK, D!Quiet, Passing, Subject
<1> QED
  BY <1>1, <1>2 DEF Init, TypeOK

\* Events, attacks, bans and promises stay what they are declared to be, whether or not the
\* consumers keep up.
THEOREM PipelineTyped == Spec => []TypeOK
<1>1. Init => TypeOK /\ Passing
  BY PipelineInitTyped
<1>2. TypeOK /\ Passing /\ [Next]_vars => TypeOK' /\ Passing'
  BY PipelineStepTyped
<1> QED
  BY <1>1, <1>2, PTL DEF Spec

---------------------------------------------------------------------------
(* What is on its way.                                                     *)

\* The consumer of lifecycle events takes one: no event is new, and no end is lost.
LEMMA TakeEventMoves ==
  ASSUME TypeOK, TakeEvent
  PROVE  /\ \A e \in D!Event : Awaited(e)' => Awaited(e)
         /\ \A e \in D!Event : e.kind = "ended" /\ Awaited(e) => Awaited(e)'
         /\ UNCHANGED <<ban, pending, attack, lostEnd, ongoing, promised>>
         /\ task'[Heartbeats] = task[Heartbeats]
<1>1. /\ events \in Seq(D!Event) /\ Len(events) <= EventCap /\ events # <<>>
      /\ task \in [Consumer -> D!Event \cup {NoEvent}] /\ NoEvent \notin D!Event
      /\ Lifecycle \in Consumer /\ Heartbeats \in Consumer /\ Lifecycle # Heartbeats
  BY PipelineAssumption DEF TypeOK, D!DetTypeOK, TakeEvent, D!TakeEvent, Consumer
<1> DEFINE x == Head(events)
<1>2. /\ x \in D!Event /\ events' = Tail(events) /\ task[Lifecycle] = NoEvent
      /\ task' = [task EXCEPT ![Lifecycle] = x] \/ (x.kind # "ended" /\ task' = task)
      /\ UNCHANGED <<ban, pending, attack, lostEnd, ongoing, promised>>
  BY <1>1, TakenIs DEF TakeEvent, D!TakeEvent, Take, M!Begin, mitVars
<1>3. task'[Heartbeats] = task[Heartbeats] /\ task'[Lifecycle] \in {NoEvent, x}
  BY <1>1, <1>2
<1>4. ASSUME NEW e \in D!Event, Awaited(e)'  PROVE Awaited(e)
  <2>1. CASE e = x
    BY <1>1, <2>1, TakenIs DEF Awaited
  <2>2. CASE e # x
    <3>1. PICK i \in 1..Len(Tail(events)) : Tail(events)[i] = e
      BY <1>1, <1>2, <1>3, <1>4, <2>2 DEF Awaited
    <3> QED
      BY <1>1, <3>1, TakenIs DEF Awaited
  <2> QED
    BY <2>1, <2>2
<1>5. ASSUME NEW e \in D!Event, e.kind = "ended", Awaited(e)  PROVE Awaited(e)'
  <2>1. PICK i \in 1..Len(events) : events[i] = e
    BY <1>1, <1>2, <1>5 DEF Awaited
  <2>2. CASE e = x
    BY <1>1, <1>2, <1>5, <2>2 DEF Awaited
  <2>3. CASE e # x
    BY <1>1, <1>2, <2>1, <2>3, TakenIs DEF Awaited
  <2> QED
    BY <2>2, <2>3
<1> QED
  BY <1>2, <1>3, <1>4, <1>5

\* The consumer of heartbeats takes one: none is new, and none is lost.
LEMMA TakeHeartbeatMoves ==
  ASSUME TypeOK, BeatsTrue, TakeHeartbeat
  PROVE  /\ \A s \in Subject : Beating(s)' <=> Beating(s)
         /\ \A i \in 1..Len(ongoing') : ongoing'[i].kind = "ongoing" /\ ongoing'[i].banEnabled
         /\ task'[Heartbeats] # NoEvent => task'[Heartbeats].kind = "ongoing"
         /\ UNCHANGED <<ban, pending, attack, lostEnd, events, promised>>
         /\ task'[Lifecycle] = task[Lifecycle]
<1>1. /\ ongoing \in Seq(D!Event) /\ Len(ongoing) <= EventCap /\ ongoing # <<>>
      /\ task \in [Consumer -> D!Event \cup {NoEvent}] /\ NoEvent \notin D!Event
      /\ Lifecycle \in Consumer /\ Heartbeats \in Consumer /\ Lifecycle # Heartbeats
  BY PipelineAssumption DEF TypeOK, D!DetTypeOK, TakeHeartbeat, D!TakeOngoing, Consumer
<1> DEFINE x == Head(ongoing)
<1>2. x \in D!Event /\ x.kind = "ongoing" /\ x.banEnabled
  BY <1>1, TakenIs DEF BeatsTrue
<1>3. /\ ongoing' = Tail(ongoing) /\ task[Heartbeats] = NoEvent
      /\ task' = [task EXCEPT ![Heartbeats] = x]
      /\ UNCHANGED <<ban, pending, attack, lostEnd, events, promised>>
  BY <1>2 DEF TakeHeartbeat, D!TakeOngoing, Take, M!Begin, mitVars
<1>4. task'[Heartbeats] = x /\ task'[Lifecycle] = task[Lifecycle] /\ x # NoEvent
  BY <1>1, <1>2, <1>3
<1>5. ASSUME NEW s \in Subject, Beating(s)'  PROVE Beating(s)
  BY <1>1, <1>3, <1>4, <1>5, TakenIs DEF Beating
<1>6. ASSUME NEW s \in Subject, Beating(s)  PROVE Beating(s)'
  <2>1. PICK i \in 1..Len(ongoing) : ongoing[i].subject = s
    BY <1>3, <1>6 DEF Beating
  <2>2. ongoing[i] = x \/ (i - 1 \in 1..Len(Tail(ongoing)) /\ Tail(ongoing)[i - 1] = ongoing[i])
    BY <1>1, TakenIs
  <2> QED
    BY <1>3, <1>4, <2>1, <2>2 DEF Beating
<1>7. \A i \in 1..Len(ongoing') : ongoing'[i].kind = "ongoing" /\ ongoing'[i].banEnabled
  BY <1>1, <1>3, TakenIs DEF BeatsTrue
<1> QED
  BY <1>2, <1>3, <1>4, <1>5, <1>6, <1>7

\* A consumer has done with what it had in hand.
LEMMA FinishMoves ==
  ASSUME TypeOK, NEW w \in Consumer, Finished(w)
  PROVE  /\ UNCHANGED <<pending, attack, lostEnd, events, ongoing>>
         /\ task'[w] = NoEvent /\ \A v \in Consumer \ {w} : task'[v] = task[v]
         /\ \A e \in D!Event : Awaited(e)' => Awaited(e)
         /\ \A e \in D!Event : Awaited(e) => Awaited(e)' \/ (w = Lifecycle /\ e = task[w])
         /\ \A s \in Subject : Beating(s)' => Beating(s)
         /\ \A s \in Subject : Beating(s) => Beating(s)' \/ (w = Heartbeats /\ task[w].subject = s)
<1>1. /\ task \in [Consumer -> D!Event \cup {NoEvent}] /\ NoEvent \notin D!Event
      /\ Lifecycle \in Consumer /\ Heartbeats \in Consumer /\ Lifecycle # Heartbeats
      /\ UNCHANGED <<pending, attack, lostEnd, events, ongoing>>
      /\ task' = [task EXCEPT ![w] = NoEvent]
  BY PipelineAssumption DEF TypeOK, Finished, detVars, Consumer
<1>2. task'[w] = NoEvent /\ \A v \in Consumer \ {w} : task'[v] = task[v]
  BY <1>1
<1>3. w = Lifecycle \/ w = Heartbeats
  BY DEF Consumer
<1>4. ASSUME NEW e \in D!Event
      PROVE  /\ Awaited(e)' => Awaited(e)
             /\ Awaited(e) => Awaited(e)' \/ (w = Lifecycle /\ e = task[w])
  BY <1>1, <1>2, <1>3 DEF Awaited
<1>5. ASSUME NEW s \in Subject
      PROVE  /\ Beating(s)' => Beating(s)
             /\ Beating(s) => Beating(s)' \/ (w = Heartbeats /\ task[w].subject = s)
  BY <1>1, <1>2, <1>3 DEF Beating
<1> QED
  BY <1>1, <1>2, <1>4, <1>5

\* Nothing moves.
LEMMA NothingMoves ==
  ASSUME UNCHANGED <<task, events, ongoing>>
  PROVE  /\ \A e \in D!Event : Awaited(e)' <=> Awaited(e)
         /\ \A s \in Subject : Beating(s)' <=> Beating(s)
  BY DEF Awaited, Beating

\* A heartbeat is sent if there is room for it.
LEMMA BeatEmitted ==
  ASSUME TypeOK, NEW s, NEW y, NEW e \in D!Event,
         e = [kind |-> "ongoing", subject |-> s, banEnabled |-> y],
         ongoing' = D!Emitted(ongoing, "ongoing", s, y)
  PROVE  /\ \A i \in 1..Len(ongoing') : ongoing'[i] = e \/ (i \in 1..Len(ongoing) /\ ongoing'[i] = ongoing[i])
         /\ \A i \in 1..Len(ongoing) : i \in 1..Len(ongoing') /\ ongoing'[i] = ongoing[i]
         /\ Len(ongoing) < EventCap => Len(ongoing') \in 1..Len(ongoing') /\ ongoing'[Len(ongoing')] = e
<1>0. ongoing \in Seq(D!Event) /\ Len(ongoing) <= EventCap
  BY DEF TypeOK, D!DetTypeOK
<1>1. \A i \in 1..Len(ongoing') : ongoing'[i] = e \/ (i \in 1..Len(ongoing) /\ ongoing'[i] = ongoing[i])
  BY <1>0, EmittedIs
<1>2. \A i \in 1..Len(ongoing) : i \in 1..Len(ongoing') /\ ongoing'[i] = ongoing[i]
  BY <1>0, EmittedIs
<1>3. Len(ongoing) < EventCap => Len(ongoing') \in 1..Len(ongoing') /\ ongoing'[Len(ongoing')] = e
  BY <1>0, EmittedIs
<1> QED
  BY <1>1, <1>2, <1>3

\* The engine's look at a subject: what it emits is about that subject, and true.
LEMMA EvaluateMoves ==
  ASSUME TypeOK, Passing, BeatsTrue, NEW s \in Subject, Evaluate(s)
  PROVE  /\ s \in pending /\ pending' = pending \ {s} /\ UNCHANGED <<ban, task>>
         /\ \A r \in Subject \ {s} : attack'[r] = attack[r]
         /\ \A e \in D!Event : Awaited(e)' =>
              \/ Awaited(e)
              \/ e.subject = s /\ e.kind # "ongoing" /\ (On(s)' <=> e.kind = "started")
         /\ \A e \in D!Event : Awaited(e) => Awaited(e)'
         /\ \A r \in Subject : Beating(r)' => Beating(r) \/ (r = s /\ On(s)')
         /\ \A r \in Subject : Beating(r) => Beating(r)'
         /\ \A i \in 1..Len(ongoing') : ongoing'[i].kind = "ongoing" /\ ongoing'[i].banEnabled
         /\ \A r \in Subject : r \in lostEnd => r \in lostEnd' \/ (r = s /\ On(s)')
         /\ On(s) /\ ~On(s)' => s \in lostEnd' \/ EndComes(s)'
         /\ On(s) /\ On(s)' /\ D!BanEnabled(s, tickCfg) /\ Len(ongoing) < EventCap => Beating(s)'
<1> DEFINE Goal == /\ \A r \in Subject \ {s} : attack'[r] = attack[r]
                   /\ \A e \in D!Event : Awaited(e)' =>
                        \/ Awaited(e)
                        \/ e.subject = s /\ e.kind # "ongoing" /\ (On(s)' <=> e.kind = "started")
                   /\ \A e \in D!Event : Awaited(e) => Awaited(e)'
                   /\ \A r \in Subject : Beating(r)' => Beating(r) \/ (r = s /\ On(s)')
                   /\ \A r \in Subject : Beating(r) => Beating(r)'
                   /\ \A i \in 1..Len(ongoing') : ongoing'[i].kind = "ongoing" /\ ongoing'[i].banEnabled
                   /\ \A r \in Subject : r \in lostEnd => r \in lostEnd' \/ (r = s /\ On(s)')
                   /\ On(s) /\ ~On(s)' => s \in lostEnd' \/ EndComes(s)'
                   /\ On(s) /\ On(s)' /\ D!BanEnabled(s, tickCfg) /\ Len(ongoing) < EventCap => Beating(s)'
<1>1. PICK over \in BOOLEAN : D!Evaluate(s, over)
  BY DEF Evaluate
<1>2. s \in pending /\ pending' = pending \ {s} /\ UNCHANGED <<ban, task>> /\ tickCfg \in Config
  BY <1>1 DEF Evaluate, D!Evaluate, D!Reached, Passing, mitVars
<1>3. /\ events \in Seq(D!Event) /\ Len(events) <= EventCap
      /\ ongoing \in Seq(D!Event) /\ Len(ongoing) <= EventCap
      /\ attack \in [Subject -> [on : BOOLEAN, below : 0..Hysteresis]]
  BY DEF TypeOK, D!DetTypeOK, Subject
<1>4. \A i \in 1..Len(ongoing) : ongoing[i].kind = "ongoing" /\ ongoing[i].banEnabled
  BY DEF BeatsTrue
<1>5. ASSUME NEW kind \in {"started", "ended", "ongoing"}, NEW b \in BOOLEAN
      PROVE  [kind |-> kind, subject |-> s, banEnabled |-> b] \in D!Event
  BY DEF D!Event, Subject
<1>6. CASE ~On(s) /\ UNCHANGED <<attack, events, ongoing, lostEnd>>
  <2>1. /\ \A e \in D!Event : Awaited(e)' <=> Awaited(e)
        /\ \A r \in Subject : Beating(r)' <=> Beating(r)
    BY <1>2, <1>6, NothingMoves
  <2> QED
    BY <1>2, <1>4, <1>6, <2>1 DEF On
<1>7. CASE ~On(s) /\ D!StartAttack(s)
  <2> DEFINE x == [kind |-> "started", subject |-> s, banEnabled |-> D!BanEnabled(s, tickCfg)]
  <2>1. x \in D!Event
    BY <1>2, <1>5, PolicyTyped
  <2>2. /\ events' = D!Emitted(events, "started", s, D!BanEnabled(s, tickCfg))
        /\ UNCHANGED ongoing /\ lostEnd' = lostEnd \ {s}
        /\ attack' = [attack EXCEPT ![s] = [on |-> TRUE, below |-> 0]]
    BY <1>7 DEF D!StartAttack
  <2>3. On(s)' /\ \A r \in Subject \ {s} : attack'[r] = attack[r]
    BY <1>3, <2>2 DEF On
  <2>4. /\ \A i \in 1..Len(events') : events'[i] = x \/ (i \in 1..Len(events) /\ events'[i] = events[i])
        /\ \A i \in 1..Len(events) : i \in 1..Len(events') /\ events'[i] = events[i]
    BY <1>3, <2>1, <2>2, EmittedIs
  <2>5. x.subject = s /\ x.kind = "started"
    OBVIOUS
  <2> HIDE DEF x
  <2>6. \A e \in D!Event : Awaited(e)' => Awaited(e) \/ e = x
    BY <1>2, <2>4 DEF Awaited
  <2>7. \A e \in D!Event : Awaited(e) => Awaited(e)'
    BY <1>2, <2>4 DEF Awaited
  <2>8. \A r \in Subject : Beating(r)' <=> Beating(r)
    BY <1>2, <2>2 DEF Beating
  <2> QED
    BY <1>2, <1>4, <1>7, <2>2, <2>3, <2>5, <2>6, <2>7, <2>8
<1>8. CASE D!EndAttack(s)
  <2> DEFINE b == s.target \in Host /\ D!BanEnabled(s, tickCfg)
             x == [kind |-> "ended", subject |-> s, banEnabled |-> b]
  <2>0. b \in BOOLEAN
    OBVIOUS
  <2>1. x \in D!Event
    BY <1>5, <2>0
  <2>2. /\ events' = D!Emitted(events, "ended", s, b)
        /\ UNCHANGED ongoing /\ lostEnd' = IF Len(events) < EventCap THEN lostEnd ELSE lostEnd \cup {s}
        /\ attack' = [attack EXCEPT ![s] = D!Quiet]
    BY <1>8 DEF D!EndAttack
  <2>3. ~On(s)' /\ \A r \in Subject \ {s} : attack'[r] = attack[r]
    BY <1>3, <2>2 DEF On, D!Quiet
  <2> HIDE DEF b
  <2>4. /\ \A i \in 1..Len(events') : events'[i] = x \/ (i \in 1..Len(events) /\ events'[i] = events[i])
        /\ \A i \in 1..Len(events) : i \in 1..Len(events') /\ events'[i] = events[i]
        /\ Len(events) < EventCap => Len(events') \in 1..Len(events') /\ events'[Len(events')] = x
    BY <1>3, <2>1, <2>2, EmittedIs
  <2>5. x.subject = s /\ x.kind = "ended"
    OBVIOUS
  <2> HIDE DEF x
  <2>6. \A e \in D!Event : Awaited(e)' => Awaited(e) \/ e = x
    BY <1>2, <2>4 DEF Awaited
  <2>7. \A e \in D!Event : Awaited(e) => Awaited(e)'
    BY <1>2, <2>4 DEF Awaited
  <2>8. \A r \in Subject : Beating(r)' <=> Beating(r)
    BY <1>2, <2>2 DEF Beating
  <2>9. s \in lostEnd' \/ EndComes(s)'
    BY <2>1, <2>2, <2>4, <2>5 DEF EndComes, Awaited
  <2> QED
    BY <1>2, <1>4, <2>2, <2>3, <2>5, <2>6, <2>7, <2>8, <2>9
<1>9. ASSUME NEW below, D!KeepAttack(s, below), On(s)  PROVE Goal
  <2> DEFINE yes == TRUE
             x == [kind |-> "ongoing", subject |-> s, banEnabled |-> yes]
  <2>1. x \in D!Event
    BY <1>5
  <2>2. /\ ongoing' = (IF D!BanEnabled(s, tickCfg) THEN D!Emitted(ongoing, "ongoing", s, TRUE) ELSE ongoing)
        /\ UNCHANGED <<events, lostEnd>> /\ attack' = [attack EXCEPT ![s].below = below]
    BY <1>9 DEF D!KeepAttack
  <2>3. On(s)' /\ \A r \in Subject \ {s} : attack'[r] = attack[r]
    BY <1>3, <1>9, <2>2 DEF On
  <2>4. /\ \A i \in 1..Len(ongoing') : ongoing'[i] = x \/ (i \in 1..Len(ongoing) /\ ongoing'[i] = ongoing[i])
        /\ \A i \in 1..Len(ongoing) : i \in 1..Len(ongoing') /\ ongoing'[i] = ongoing[i]
        /\ D!BanEnabled(s, tickCfg) /\ Len(ongoing) < EventCap
             => Len(ongoing') \in 1..Len(ongoing') /\ ongoing'[Len(ongoing')] = x
    <3>1. CASE D!BanEnabled(s, tickCfg)
      <4>1. ongoing' = D!Emitted(ongoing, "ongoing", s, yes)
        BY <2>2, <3>1
      <4> HIDE DEF yes
      <4> QED
        BY <2>1, <4>1, BeatEmitted
    <3>2. CASE ~D!BanEnabled(s, tickCfg)
      BY <2>2, <3>2
    <3> QED
      BY <3>1, <3>2
  <2>5. x.subject = s /\ x.kind = "ongoing" /\ x.banEnabled
    OBVIOUS
  <2> HIDE DEF x
  <2>6. \A e \in D!Event : Awaited(e)' <=> Awaited(e)
    BY <1>2, <2>2 DEF Awaited
  <2>7. \A r \in Subject : Beating(r)' => Beating(r) \/ r = s
    BY <1>2, <2>4, <2>5 DEF Beating
  <2>8. \A r \in Subject : Beating(r) => Beating(r)'
    BY <1>2, <2>4 DEF Beating
  <2>9. D!BanEnabled(s, tickCfg) /\ Len(ongoing) < EventCap => Beating(s)'
    BY <2>4, <2>5 DEF Beating
  <2>10. \A i \in 1..Len(ongoing') : ongoing'[i].kind = "ongoing" /\ ongoing'[i].banEnabled
    BY <1>4, <2>4, <2>5
  <2> QED
    BY <2>2, <2>3, <2>6, <2>7, <2>8, <2>9, <2>10
<1>10. CASE On(s) /\ \E below : D!KeepAttack(s, below)
  BY <1>2, <1>9, <1>10
<1> QED
  BY <1>1, <1>6, <1>7, <1>8, <1>10 DEF D!Evaluate, On

---------------------------------------------------------------------------
(* The invariant, one conjunct at a time.                                  *)

\* A subject is its target and its direction; a prefix has one direction.
LEMMA SubjectIs ==
  ASSUME NEW s \in Subject
  PROVE  /\ s.target \in M!Target /\ s.dir \in M!Direction
         /\ s.target \in Host \/ s.target \in Prefix
         /\ ~(s.target \in Host /\ s.target \in Prefix)
         /\ \A r \in Subject : r.target = s.target /\ (r.dir = s.dir \/ s.target \in Prefix) => r = s
<1>1. Host \cap Prefix = {}
  BY PipelineAssumption DEF M!TargetAssumption
<1>2. \A r \in Subject : /\ r = [target |-> r.target, dir |-> r.dir]
                         /\ r.target \in Host \/ (r.target \in Prefix /\ r.dir = "in")
                         /\ r.dir \in {"in", "out"}
  BY DEF Subject, D!Subject
<1>3. ASSUME NEW r \in Subject, r.target = s.target, r.dir = s.dir \/ s.target \in Prefix  PROVE r = s
  BY <1>1, <1>2, <1>3
<1> QED
  BY <1>1, <1>2, <1>3 DEF M!Target, M!Direction

\* What a consumer has in hand is on its way, so the attack is as it says.
LEMMA InHand ==
  ASSUME TypeOK, EventsTrue, BeatsTrue, NEW s \in Subject
  PROVE  /\ Holds(Lifecycle, "started", s) => On(s)
         /\ Holds(Lifecycle, "ended", s) => ~On(s)
         /\ Holds(Heartbeats, "ongoing", s) => On(s) /\ Beating(s)
<1>1. task \in [Consumer -> D!Event \cup {NoEvent}] /\ Lifecycle \in Consumer
  BY DEF TypeOK, Consumer
<1>2. ASSUME task[Lifecycle] # NoEvent  PROVE task[Lifecycle] \in D!Event /\ Awaited(task[Lifecycle])
  BY <1>1, <1>2 DEF Awaited
<1>3. Holds(Heartbeats, "ongoing", s) => Beating(s)
  BY DEF Holds, Beating
<1> QED
  BY <1>2, <1>3 DEF Holds, EventsTrue, BeatsTrue

\* The direction by which a subject's attack holds a ban.
Hold(s) == IF s.target \in Host THEN {s.dir} ELSE {}

LEMMA StartMakes ==
  ASSUME TypeOK, NEW s \in Subject, HandleStarted(s)
  PROVE  /\ Others(s.target)
         /\ \/ SameBan(s.target) /\ (D!BanEnabled(s, held[Lifecycle]) /\ M!Allowed(s.target, held[Lifecycle])
                                       => ~ban[s.target].active)
            \/ Refreshed(s.target, Hold(s))
            \/ Added(s.target, Hold(s), FALSE)
<1>1. CASE s.target \in Host /\ M!OnAttackStarted(Lifecycle, s.target, s.dir)
  <2>1. held[Lifecycle] # NoConfig /\ s.target \in M!Target /\ Hold(s) = {s.dir}
    BY <1>1, SubjectIs DEF M!OnAttackStarted, Hold
  <2> QED
    BY <1>1, <2>1, CallMakes DEF M!OnAttackStarted
<1>2. CASE s.target \in Prefix /\ M!OnCarpetStarted(Lifecycle, s.target)
  <2>1. held[Lifecycle] # NoConfig /\ s.target \in M!Target /\ Hold(s) = {} /\ s.target \notin Host
    BY <1>2, SubjectIs DEF M!OnCarpetStarted, Hold
  <2>2. CASE held[Lifecycle].carpet = "alert" /\ UNCHANGED ban
    BY <2>1, <2>2 DEF Others, SameBan, D!BanEnabled
  <2>3. CASE \/ M!Refuse(Lifecycle, s.target)
             \/ M!Refresh(Lifecycle, s.target, {})
             \/ M!Admit(Lifecycle, s.target, <<[after |-> 0, action |-> held[Lifecycle].carpet]>>, {}, FALSE)
    BY <2>1, <2>3, CallMakes
  <2> QED
    BY <1>2, <2>2, <2>3 DEF M!OnCarpetStarted
<1> QED
  BY <1>1, <1>2 DEF HandleStarted

LEMMA BeatMakes ==
  ASSUME TypeOK, NEW s \in Subject, HandleHeartbeat(s)
  PROVE  /\ Others(s.target)
         /\ \/ SameBan(s.target)
               /\ (ban[s.target].active => s.target \in Prefix /\ M!Spared(s.target, held[Heartbeats]))
            \/ Refreshed(s.target, Hold(s))
<1>1. s.target \in M!Target /\ ~(s.target \in Host /\ s.target \in Prefix)
  BY SubjectIs
<1> QED
  BY <1>1, HeartbeatMakes DEF HandleHeartbeat, M!OnAttackOngoing, M!OnCarpetOngoing, Hold

\* The end of an attack leaves the ban to whatever else holds it.
LEMMA EndedMakes ==
  ASSUME TypeOK, NEW s \in Subject, HandleEnded(s)
  PROVE  /\ Others(s.target)
         /\ LET b == ban[s.target]
                n == ban'[s.target]
            IN \/ ~b.active /\ ~n.active
               \/ s.target \in Prefix /\ ~n.active
               \/ /\ s.target \in Host /\ b.active /\ n.active /\ n.manual = b.manual
                  /\ n.dirs = b.dirs \ {s.dir} /\ n.left = b.left
                  /\ b.manual \/ b.dirs \ {s.dir} # {}
               \/ s.target \in Host /\ ~n.active /\ ~b.manual /\ b.dirs \ {s.dir} = {}
<1>1. CASE s.target \in Host /\ M!OnAttackEnded(s.target, s.dir)
  BY <1>1, EndMakes
<1>2. CASE s.target \in Prefix /\ M!OnCarpetEnded(s.target)
  BY <1>2, SubjectIs, WithdrawMakes DEF M!OnCarpetEnded
<1>3. CASE ~ban[s.target].active /\ UNCHANGED mitVars
  BY <1>3 DEF mitVars, Others, SameBan
<1> QED
  BY <1>1, <1>2, <1>3 DEF HandleEnded

LEMMA OperatorMakes ==
  ASSUME TypeOK, NEW h \in Host, OperatorBans(h)
  PROVE  Others(h) /\ (SameBan(h) \/ Refreshed(h, {}) \/ Added(h, {}, TRUE))
<1>1. M!ManualBan(Api, h) /\ held[Api] # NoConfig /\ h \in M!Target
  BY DEF OperatorBans, M!ManualBan, M!Target
<1> QED
  BY <1>1, CallMakes DEF M!ManualBan

LEMMA UnbanMakes ==
  ASSUME TypeOK, NEW h \in Host, OperatorUnbans(h)
  PROVE  Others(h) /\ ~ban'[h].active
<1>1. h \in M!Target
  BY DEF M!Target
<1> QED
  BY <1>1, WithdrawMakes DEF OperatorUnbans, M!ManualUnban

\* The steps of neither the engine nor a consumer leave detection as it is.
Apart == \/ \E h \in Host : OperatorBans(h) \/ OperatorUnbans(h)
         \/ CallBegins \/ Sweep \/ Reload \/ UNCHANGED vars

LEMMA ApartMoves ==
  ASSUME Apart
  PROVE  /\ UNCHANGED <<pending, attack, lostEnd, events, ongoing, task>>
         /\ \A e \in D!Event : Awaited(e)' <=> Awaited(e)
         /\ \A s \in Subject : Beating(s)' <=> Beating(s)
<1>1. UNCHANGED <<pending, attack, lostEnd, events, ongoing, task>>
  BY DEF Apart, OperatorBans, OperatorUnbans, CallBegins, Sweep, Reload, vars, detVars
<1> QED
  BY <1>1, NothingMoves

\* A second passes only when nothing is on its way.
LEMMA TickMoves ==
  ASSUME Prompt, Tick
  PROVE  /\ \A e \in D!Event : ~Awaited(e) /\ ~Awaited(e)'
         /\ \A s \in Subject : ~Beating(s) /\ ~Beating(s)'
         /\ pending = {} /\ pending' = Subject /\ UNCHANGED <<attack, lostEnd, ongoing, task, promised>>
<1>1. /\ task[Lifecycle] = NoEvent /\ task[Heartbeats] = NoEvent /\ events = <<>> /\ ongoing = <<>>
      /\ UNCHANGED <<attack, lostEnd, events, ongoing, task, promised>> /\ pending = {} /\ pending' = Subject
  BY DEF Tick, Drained, Consumer, D!BeginTick, Subject
<1>2. NoEvent \notin D!Event
  BY PipelineAssumption
<1>3. \A e \in D!Event : ~Awaited(e)
  BY <1>1, <1>2 DEF Awaited
<1>4. \A s \in Subject : ~Beating(s)
  BY <1>1 DEF Beating
<1> QED
  BY <1>1, <1>3, <1>4, NothingMoves

LEMMA NextIs ==
  ASSUME [Next]_vars
  PROVE  \/ TakeEvent \/ TakeHeartbeat \/ Apart \/ Tick
         \/ \E s \in Subject : HandleStarted(s)
         \/ \E s \in Subject : HandleEnded(s)
         \/ \E s \in Subject : HandleHeartbeat(s)
         \/ \E s \in Subject : Evaluate(s)
  BY DEF Next, Apart


\* A lifecycle event on its way is true of its subject, which the pass has left behind.
LEMMA EventsStep ==
  ASSUME Prompt, TypeOK, Passing, EventsTrue, BeatsTrue, [Next]_vars
  PROVE  EventsTrue'
<1>1. ASSUME \A e \in D!Event : Awaited(e)' => Awaited(e), UNCHANGED <<pending, attack>>
      PROVE  EventsTrue'
  BY <1>1 DEF EventsTrue, On
<1>2. CASE TakeEvent
  BY <1>1, <1>2, TakeEventMoves
<1>3. CASE TakeHeartbeat
  <2>1. \A e \in D!Event : Awaited(e)' => Awaited(e)
    BY <1>3, TakeHeartbeatMoves DEF Awaited
  <2> QED
    BY <1>1, <1>3, <2>1, TakeHeartbeatMoves
<1>4. CASE Apart
  BY <1>1, <1>4, ApartMoves
<1>5. CASE Tick
  BY <1>5, TickMoves DEF EventsTrue
<1>6. ASSUME NEW w \in Consumer, Finished(w)  PROVE EventsTrue'
  BY <1>1, <1>6, FinishMoves
<1>7. Lifecycle \in Consumer /\ Heartbeats \in Consumer
  BY DEF Consumer
<1>8. ASSUME NEW s \in Subject, Evaluate(s)  PROVE EventsTrue'
  <2>1. /\ s \in pending /\ pending' = pending \ {s}
        /\ \A r \in Subject \ {s} : attack'[r] = attack[r]
        /\ \A e \in D!Event : Awaited(e)' =>
             \/ Awaited(e)
             \/ e.subject = s /\ e.kind # "ongoing" /\ (On(s)' <=> e.kind = "started")
    BY <1>8, EvaluateMoves
  <2>2. ASSUME NEW e \in D!Event, Awaited(e)
        PROVE  e.kind # "ongoing" /\ e.subject \notin pending' /\ (On(e.subject)' <=> e.kind = "started")
    <3>1. e.kind # "ongoing" /\ e.subject \notin pending /\ (On(e.subject) <=> e.kind = "started")
      BY <2>2 DEF EventsTrue
    <3>2. e.subject \in Subject \ {s}
      BY <2>1, <3>1 DEF D!Event, Subject
    <3> QED
      BY <2>1, <3>1, <3>2 DEF On
  <2> QED
    BY <2>1, <2>2 DEF EventsTrue
<1> QED
  BY <1>2, <1>3, <1>4, <1>5, <1>6, <1>7, <1>8, NextIs DEF HandleStarted, HandleEnded, HandleHeartbeat

\* A heartbeat on its way is of an attack that is on, and that the pass has left behind.
LEMMA BeatsStep ==
  ASSUME Prompt, TypeOK, Passing, BeatsTrue, [Next]_vars
  PROVE  BeatsTrue'
<1>1. ASSUME \A s \in Subject : Beating(s)' => Beating(s), UNCHANGED <<pending, attack>>,
             \A i \in 1..Len(ongoing') : ongoing'[i].kind = "ongoing" /\ ongoing'[i].banEnabled,
             task'[Heartbeats] # NoEvent => task'[Heartbeats].kind = "ongoing"
      PROVE  BeatsTrue'
  BY <1>1 DEF BeatsTrue, On
<1>2. CASE TakeEvent
  <2>1. UNCHANGED <<ongoing, pending, attack>> /\ task'[Heartbeats] = task[Heartbeats]
    BY <1>2, TakeEventMoves
  <2>2. \A s \in Subject : Beating(s)' => Beating(s)
    BY <2>1 DEF Beating
  <2> QED
    BY <1>1, <2>1, <2>2 DEF BeatsTrue
<1>3. CASE TakeHeartbeat
  BY <1>1, <1>3, TakeHeartbeatMoves
<1>4. CASE Apart
  BY <1>1, <1>4, ApartMoves DEF BeatsTrue
<1>5. CASE Tick
  <2>1. UNCHANGED <<ongoing, task>> /\ \A s \in Subject : ~Beating(s)'
    BY <1>5, TickMoves
  <2> QED
    BY <2>1 DEF BeatsTrue
<1>6. ASSUME NEW w \in Consumer, Finished(w)  PROVE BeatsTrue'
  <2>1. UNCHANGED <<ongoing, pending, attack>> /\ (task'[Heartbeats] = task[Heartbeats] \/ task'[Heartbeats] = NoEvent)
    BY <1>6, FinishMoves DEF Consumer
  <2>2. \A s \in Subject : Beating(s)' => Beating(s)
    BY <1>6, FinishMoves
  <2> QED
    BY <1>1, <2>1, <2>2 DEF BeatsTrue
<1>7. Lifecycle \in Consumer /\ Heartbeats \in Consumer
  BY DEF Consumer
<1>8. ASSUME NEW s \in Subject, Evaluate(s)  PROVE BeatsTrue'
  <2>1. /\ s \in pending /\ pending' = pending \ {s} /\ UNCHANGED task
        /\ \A r \in Subject \ {s} : attack'[r] = attack[r]
        /\ \A r \in Subject : Beating(r)' => Beating(r) \/ (r = s /\ On(s)')
        /\ \A i \in 1..Len(ongoing') : ongoing'[i].kind = "ongoing" /\ ongoing'[i].banEnabled
    BY <1>8, EvaluateMoves
  <2>2. ASSUME NEW r \in Subject, Beating(r)'  PROVE On(r)' /\ r \notin pending'
    <3>1. CASE r = s /\ On(s)'
      BY <2>1, <3>1
    <3>2. CASE Beating(r)
      <4>1. On(r) /\ r \notin pending
        BY <3>2 DEF BeatsTrue
      <4> QED
        BY <2>1, <4>1 DEF On
    <3> QED
      BY <2>1, <2>2, <3>1, <3>2
  <2> QED
    BY <2>1, <2>2 DEF BeatsTrue
<1> QED
  BY <1>2, <1>3, <1>4, <1>5, <1>6, <1>7, <1>8, NextIs DEF HandleStarted, HandleEnded, HandleHeartbeat

\* A promise as it stands.
Kept(s) ==
  LET b == ban[s.target]
  IN /\ On(s) /\ b.active /\ b.left >= 0 /\ (s.target \in Host => s.dir \in b.dirs)
     /\ b.left >= 1 \/ s \in pending \/ Beating(s)

\* A ban that is as it was, or longer, keeps the promise of an attack that goes on.
LEMMA KeptWhile ==
  ASSUME NEW s \in Subject, Kept(s), UNCHANGED <<attack, pending>>, Beating(s) => Beating(s)',
         \/ SameBan(s.target)
         \/ \E dirs : Refreshed(s.target, dirs)
  PROVE  Kept(s)'
<1>1. CASE SameBan(s.target)
  BY <1>1 DEF Kept, SameBan, On
<1>2. ASSUME NEW dirs, Refreshed(s.target, dirs)  PROVE Kept(s)'
  <2>1. ban'[s.target].left >= 0 /\ ban'[s.target].left >= 1
    BY <1>2 DEF Refreshed
  <2>2. ban'[s.target].active /\ (s.target \in Host => s.dir \in ban'[s.target].dirs)
    BY <1>2 DEF Refreshed, Kept
  <2> QED
    BY <2>1, <2>2 DEF Kept, On
<1> QED
  BY <1>1, <1>2

\* An attack answered with a ban keeps its promise, step by step.
LEMMA PromisesStep ==
  ASSUME Prompt, TypeOK, Passing, EventsTrue, BeatsTrue, Promises, [Next]_vars
  PROVE  Promises'
<1>0. /\ promised \in [Subject -> BOOLEAN] /\ Lifecycle \in Consumer /\ Heartbeats \in Consumer
      /\ Lifecycle # Heartbeats
  BY PipelineAssumption DEF TypeOK, Consumer
<1>1. \A s \in Subject : promised[s] => Kept(s)
  BY DEF Promises, Kept
<1>2. SUFFICES ASSUME NEW s \in Subject, promised'[s]
               PROVE  Kept(s)'
  BY DEF Promises, Kept
<1> DEFINE t == s.target
<1>3. t \in M!Target /\ ~(t \in Host /\ t \in Prefix) /\ (t \in Host \/ t \in Prefix)
  BY SubjectIs
<1>4. CASE TakeEvent
  <2>1. UNCHANGED <<ban, pending, attack, ongoing, promised>> /\ task'[Heartbeats] = task[Heartbeats]
    BY <1>4, TakeEventMoves
  <2>2. Beating(s) => Beating(s)'
    BY <2>1 DEF Beating
  <2>3. SameBan(t)
    BY <2>1 DEF SameBan
  <2> QED
    BY <1>1, <1>2, <2>1, <2>2, <2>3, KeptWhile
<1>5. CASE TakeHeartbeat
  <2>1. UNCHANGED <<ban, pending, attack, promised>> /\ (Beating(s) => Beating(s)')
    BY <1>5, TakeHeartbeatMoves
  <2>2. SameBan(t)
    BY <2>1 DEF SameBan
  <2> QED
    BY <1>1, <1>2, <2>1, <2>2, KeptWhile
<1>6. ASSUME NEW r \in Subject, HandleStarted(r)  PROVE Kept(s)'
  <2>1. UNCHANGED <<pending, attack>> /\ (Beating(s) => Beating(s)')
    BY <1>0, <1>6, FinishMoves DEF HandleStarted
  <2> DEFINE now == /\ On(r) /\ D!BanEnabled(r, held[Lifecycle])
                    /\ M!Allowed(r.target, held[Lifecycle]) /\ ban'[r.target].active
  <2>2. promised' = [promised EXCEPT ![r] = now]
    BY <1>6 DEF HandleStarted
  <2>3. CASE s = r
    <3>1. now
      BY <1>0, <1>2, <2>2, <2>3
    <3>2. Refreshed(t, Hold(s)) \/ Added(t, Hold(s), FALSE)
      BY <1>6, <2>3, <3>1, StartMakes DEF SameBan
    <3>3. /\ ban'[t].active /\ ban'[t].left >= 0 /\ ban'[t].left >= 1
          /\ t \in Host => s.dir \in ban'[t].dirs
      BY <3>2 DEF Refreshed, Added, Hold
    <3> QED
      BY <2>1, <2>3, <3>1, <3>3 DEF Kept, On
  <2>4. CASE s # r
    <3>1. promised[s]
      BY <1>0, <1>2, <2>2, <2>4
    <3>2. Kept(s) /\ ban[t].active
      BY <1>1, <3>1 DEF Kept
    <3>3. SameBan(t) \/ Refreshed(t, Hold(r))
      BY <1>3, <1>6, <3>2, StartMakes DEF Others, Added
    <3> QED
      BY <2>1, <3>2, <3>3, KeptWhile
  <2> QED
    BY <2>3, <2>4
<1>7. ASSUME NEW r \in Subject, HandleEnded(r)  PROVE Kept(s)'
  <2>1. UNCHANGED <<pending, attack>> /\ (Beating(s) => Beating(s)') /\ UNCHANGED promised
    BY <1>0, <1>7, FinishMoves DEF HandleEnded
  <2>2. ~On(r)
    BY <1>7, InHand DEF HandleEnded
  <2>3. Kept(s) /\ s # r
    BY <1>1, <1>2, <2>1, <2>2 DEF Kept
  <2>4. CASE r.target # t
    <3>1. SameBan(t)
      BY <1>3, <1>7, <2>4, EndedMakes DEF Others
    <3> QED
      BY <2>1, <2>3, <3>1, KeptWhile
  <2>5. CASE r.target = t
    <3>1. t \in Host /\ r.dir # s.dir
      BY <1>3, <2>3, <2>5, SubjectIs
    <3>2. s.dir \in ban[t].dirs \ {r.dir} /\ ban[t].active
      BY <2>3, <3>1 DEF Kept
    <3>3. ban'[t].active /\ ban'[t].dirs = ban[t].dirs \ {r.dir} /\ ban'[t].left = ban[t].left
      BY <1>3, <1>7, <2>5, <3>1, <3>2, EndedMakes
    <3> QED
      BY <2>1, <2>3, <3>1, <3>2, <3>3 DEF Kept, On
  <2> QED
    BY <2>4, <2>5
<1>8. ASSUME NEW r \in Subject, HandleHeartbeat(r)  PROVE Kept(s)'
  <2>1. /\ UNCHANGED <<pending, attack>>
        /\ Beating(s) => Beating(s)' \/ task[Heartbeats].subject = s
    BY <1>0, <1>8, FinishMoves DEF HandleHeartbeat
  <2> DEFINE now == promised[r] /\ (r.target \in Prefix => ~M!Spared(r.target, held[Heartbeats]))
  <2>2. promised' = [promised EXCEPT ![r] = now] /\ task[Heartbeats].subject = r
    BY <1>8 DEF HandleHeartbeat, Holds
  <2>3. promised[s] /\ (s = r => now)
    BY <1>0, <1>2, <2>2
  <2>4. Kept(s) /\ ban[t].active
    BY <1>1, <2>3 DEF Kept
  <2>5. CASE r.target = t /\ Refreshed(t, Hold(r))
    <3>1. /\ ban'[t].active /\ ban'[t].left >= 0 /\ ban'[t].left >= 1
          /\ t \in Host => s.dir \in ban'[t].dirs
      BY <2>4, <2>5 DEF Refreshed, Kept
    <3> QED
      BY <2>1, <2>4, <3>1 DEF Kept, On
  <2>6. CASE r.target = t /\ t \in Prefix /\ M!Spared(t, held[Heartbeats])
    <3>1. s = r
      BY <2>6, SubjectIs
    <3> QED
      BY <2>3, <2>6, <3>1
  <2>7. CASE r.target # t
    <3>1. SameBan(t)
      BY <1>3, <1>8, <2>7, BeatMakes DEF Others
    <3> QED
      BY <2>1, <2>2, <2>4, <2>7, <3>1, KeptWhile
  <2> QED
    BY <1>8, <2>4, <2>5, <2>6, <2>7, BeatMakes
<1>9. ASSUME NEW r \in Subject, Evaluate(r)  PROVE Kept(s)'
  <2>1. /\ pending' = pending \ {r} /\ UNCHANGED ban
        /\ \A q \in Subject \ {r} : attack'[q] = attack[q]
        /\ Beating(s) => Beating(s)'
        /\ On(r) /\ On(r)' /\ D!BanEnabled(r, tickCfg) /\ Len(ongoing) < EventCap => Beating(r)'
    BY <1>9, EvaluateMoves
  <2> DEFINE now == promised[r] /\ attack'[r].on /\ D!BanEnabled(r, tickCfg) /\ Len(ongoing) < EventCap
  <2>2. promised' = [promised EXCEPT ![r] = now]
    BY <1>9 DEF Evaluate
  <2>3. promised[s] /\ (s = r => now)
    BY <1>0, <1>2, <2>2
  <2>4. Kept(s)
    BY <1>1, <2>3
  <2>5. CASE s = r
    BY <2>1, <2>3, <2>4, <2>5 DEF Kept, On
  <2>6. CASE s # r
    BY <2>1, <2>4, <2>6 DEF Kept, On
  <2> QED
    BY <2>5, <2>6
<1>10. CASE Tick
  <2>1. ~Beating(s) /\ pending = {} /\ pending' = Subject /\ UNCHANGED <<attack, promised>>
    BY <1>10, TickMoves
  <2>2. Kept(s) /\ ban[t].active /\ ban[t].left >= 1
    BY <1>1, <1>2, <2>1 DEF Kept
  <2>3. ban'[t].active = ban[t].active /\ ban'[t].dirs = ban[t].dirs /\ ban'[t].left >= 0
    BY <1>3, <1>10, <2>2, TickMakes DEF Tick
  <2> QED
    BY <2>1, <2>2, <2>3 DEF Kept, On
<1>11. ASSUME Apart, promised[s], SameBan(t) \/ \E dirs : Refreshed(t, dirs)
       PROVE  Kept(s)'
  BY <1>1, <1>11, ApartMoves, KeptWhile
<1>12. ASSUME NEW h \in Host, OperatorBans(h)  PROVE Kept(s)'
  <2>1. promised[s] /\ ban[t].active
    BY <1>1, <1>2, <1>12 DEF OperatorBans, Kept
  <2>2. SameBan(t) \/ Refreshed(t, {})
    BY <1>3, <1>12, <2>1, OperatorMakes DEF Others, Added
  <2> QED
    BY <1>11, <1>12, <2>1, <2>2 DEF Apart
<1>13. ASSUME NEW h \in Host, OperatorUnbans(h)  PROVE Kept(s)'
  <2>1. promised[s] /\ t # h
    BY <1>2, <1>13 DEF OperatorUnbans
  <2>2. SameBan(t)
    BY <1>3, <1>13, <2>1, UnbanMakes DEF Others
  <2> QED
    BY <1>11, <1>13, <2>1, <2>2 DEF Apart
<1>14. CASE Sweep
  <2>1. promised[s] /\ StillProtected(t, held[Sweeper])
    BY <1>2, <1>14 DEF Sweep
  <2>2. ban[t].left >= 0 /\ ban[t].left \in Int
    BY <1>1, <1>3, <2>1, BanTyped DEF Kept
  <2>3. SameBan(t)
    BY <1>3, <1>14, <2>1, <2>2, SweepMakes DEF Sweep, Expired, StillProtected
  <2> QED
    BY <1>11, <1>14, <2>1, <2>3 DEF Apart
<1>15. CASE CallBegins \/ Reload \/ UNCHANGED vars
  <2>1. UNCHANGED <<ban, promised>>
    BY <1>15 DEF CallBegins, M!Begin, Reload, M!Reload, vars, mitVars
  <2>2. SameBan(t)
    BY <2>1 DEF SameBan
  <2> QED
    BY <1>2, <1>11, <1>15, <2>1, <2>2 DEF Apart
<1>16. CASE Apart
  BY <1>12, <1>13, <1>14, <1>15, <1>16 DEF Apart
<1> QED
  BY <1>4, <1>5, <1>6, <1>7, <1>8, <1>9, <1>10, <1>16, NextIs

\* What holds a ban keeps holding it, unless the consumer has just handled its end.
LEMMA HoldingKept ==
  ASSUME Prompt, TypeOK, Passing, EventsTrue, BeatsTrue, [Next]_vars, NEW s \in Subject, Holding(s)
  PROVE  Holding(s)' \/ HandleEnded(s)
<1>1. ASSUME \A e \in D!Event : e.kind = "ended" /\ Awaited(e) => Awaited(e)', UNCHANGED <<attack, lostEnd>>
      PROVE  Holding(s)'
  BY <1>1 DEF Holding, EndComes, On
<1>2. CASE TakeEvent
  BY <1>1, <1>2, TakeEventMoves
<1>3. CASE TakeHeartbeat
  <2>1. \A e \in D!Event : Awaited(e) => Awaited(e)'
    BY <1>3, TakeHeartbeatMoves DEF Awaited
  <2> QED
    BY <1>1, <1>3, <2>1, TakeHeartbeatMoves
<1>4. CASE Apart
  BY <1>1, <1>4, ApartMoves
<1>5. CASE Tick
  BY <1>1, <1>5, TickMoves
<1>6. Lifecycle \in Consumer /\ Heartbeats \in Consumer /\ Lifecycle # Heartbeats
  BY PipelineAssumption DEF Consumer
<1>7. ASSUME NEW r \in Subject, HandleStarted(r)  PROVE Holding(s)'
  <2>1. Finished(Lifecycle) /\ task[Lifecycle].kind = "started"
    BY <1>7 DEF HandleStarted, Holds
  <2> QED
    BY <1>1, <1>6, <2>1, FinishMoves
<1>8. ASSUME NEW r \in Subject, HandleHeartbeat(r)  PROVE Holding(s)'
  <2>1. Finished(Heartbeats)
    BY <1>8 DEF HandleHeartbeat
  <2> QED
    BY <1>1, <1>6, <2>1, FinishMoves
<1>9. ASSUME NEW r \in Subject, HandleEnded(r), s # r  PROVE Holding(s)'
  <2>1. Finished(Lifecycle) /\ task[Lifecycle].subject = r
    BY <1>9 DEF HandleEnded, Holds
  <2>2. /\ UNCHANGED <<attack, lostEnd>>
        /\ \A e \in D!Event : Awaited(e) => Awaited(e)' \/ e = task[Lifecycle]
    BY <1>6, <2>1, FinishMoves
  <2> QED
    BY <1>9, <2>1, <2>2 DEF Holding, EndComes, On
<1>10. ASSUME NEW r \in Subject, Evaluate(r)  PROVE Holding(s)'
  <2>1. /\ \A q \in Subject \ {r} : attack'[q] = attack[q]
        /\ \A e \in D!Event : Awaited(e) => Awaited(e)'
        /\ \A q \in Subject : q \in lostEnd => q \in lostEnd' \/ (q = r /\ On(r)')
        /\ On(r) /\ ~On(r)' => r \in lostEnd' \/ EndComes(r)'
    BY <1>10, EvaluateMoves
  <2>2. CASE On(s)
    BY <2>1, <2>2 DEF Holding, On
  <2>3. CASE s \in lostEnd
    BY <2>1, <2>3 DEF Holding
  <2>4. CASE EndComes(s)
    BY <2>1, <2>4 DEF Holding, EndComes
  <2> QED
    BY <2>2, <2>3, <2>4 DEF Holding
<1> QED
  BY <1>2, <1>3, <1>4, <1>5, <1>7, <1>8, <1>9, <1>10, NextIs

\* How a ban stands, given who holds it.
Upheld(t) ==
  ban[t].active =>
    /\ t \in Host => /\ ban[t].manual \/ ban[t].dirs # {}
                     /\ \A d \in ban[t].dirs : \E s \in Of(t) : s.dir = d /\ Holding(s)
    /\ t \in Prefix => \E s \in Of(t) : Holding(s)

LEMMA UpheldWhile ==
  ASSUME NEW t, \A s \in Of(t) : Holding(s) => Holding(s)', Upheld(t),
         \/ SameBan(t)
         \/ ~ban'[t].active
         \/ Refreshed(t, {})
         \/ Added(t, {}, TRUE) /\ t \notin Prefix
         \/ \E r \in Of(t) : Holding(r) /\ (Refreshed(t, Hold(r)) \/ Added(t, Hold(r), FALSE))
  PROVE  Upheld(t)'
<1>1. CASE ~ban'[t].active
  BY <1>1 DEF Upheld
<1>2. CASE SameBan(t) \/ Refreshed(t, {})
  <2>1. /\ ban'[t].active = ban[t].active /\ ban'[t].manual = ban[t].manual
        /\ ban'[t].dirs = ban[t].dirs
    BY <1>2 DEF SameBan, Refreshed
  <2> QED
    BY <2>1 DEF Upheld, Of
<1>3. CASE Added(t, {}, TRUE) /\ t \notin Prefix
  BY <1>3 DEF Upheld, Added
<1>4. ASSUME NEW r \in Of(t), Holding(r), Refreshed(t, Hold(r)) \/ Added(t, Hold(r), FALSE)
      PROVE  Upheld(t)'
  <2>1. Holding(r)' /\ r.target = t
    BY <1>4 DEF Of
  <2>2. CASE t \notin Host
    BY <1>4, <2>1, <2>2 DEF Upheld, Of
  <2>3. CASE t \in Host /\ Refreshed(t, Hold(r))
    <3>1. ban[t].active /\ ban'[t].dirs = ban[t].dirs \cup {r.dir}
      BY <2>1, <2>3 DEF Refreshed, Hold
    <3>2. \A d \in ban'[t].dirs : \E s \in Of(t)' : s.dir = d /\ Holding(s)'
      BY <2>1, <2>3, <3>1 DEF Upheld, Of
    <3>3. ban'[t].dirs # {}
      BY <3>1
    <3>4. t \in Prefix => \E s \in Of(t)' : Holding(s)'
      BY <2>1 DEF Of
    <3> QED
      BY <3>2, <3>3, <3>4 DEF Upheld
  <2>4. CASE t \in Host /\ Added(t, Hold(r), FALSE)
    <3>1. ban'[t].dirs = {r.dir}
      BY <2>1, <2>4 DEF Added, Hold
    <3> QED
      BY <2>1, <3>1 DEF Upheld, Of
  <2> QED
    BY <1>4, <2>2, <2>3, <2>4
<1> QED
  BY <1>1, <1>2, <1>3, <1>4

\* A ban is held by an attack that is on, or whose end is on its way or was dropped.
LEMMA HoldersStep ==
  ASSUME Prompt, TypeOK, Passing, EventsTrue, BeatsTrue, Holders, [Next]_vars
  PROVE  Holders'
<1>0. Host \cap Prefix = {}
  BY PipelineAssumption DEF M!TargetAssumption
<1>1. \A u \in M!Target : Upheld(u)
  BY <1>0 DEF Holders, Upheld, M!Target
<1>2. SUFFICES ASSUME NEW t \in M!Target  PROVE Upheld(t)'
  <2>1. (\A u \in M!Target : Upheld(u)') => Holders'
    BY <1>0 DEF Holders, Upheld, M!Target
  <2> QED
    BY <1>2, <2>1
<1>3. Upheld(t) /\ \A s \in Of(t) : s \in Subject /\ s.target = t
  BY <1>1 DEF Of
<1>4. ASSUME \A s \in Subject : s.target = t => ~HandleEnded(s)
      PROVE  \A s \in Of(t) : Holding(s) => Holding(s)'
  BY <1>3, <1>4, HoldingKept
<1>5. ASSUME SameBan(t), \A s \in Subject : s.target = t => ~HandleEnded(s)  PROVE Upheld(t)'
  BY <1>3, <1>4, <1>5, UpheldWhile
<1>6. ASSUME NEW r \in Subject, HandleEnded(r)  PROVE Upheld(t)'
  <2>1. \A s \in Subject : HandleEnded(s) => s = r
    BY <1>6 DEF HandleEnded, Holds
  <2>2. CASE r.target # t
    <3>1. SameBan(t)
      BY <1>6, <2>2, EndedMakes DEF Others
    <3> QED
      BY <1>5, <2>1, <2>2, <3>1
  <2>3. CASE ~ban'[t].active
    BY <2>3 DEF Upheld
  <2>4. CASE r.target = t /\ t \in Host /\ ban'[t].active
    <3>1. /\ ban[t].active /\ ban'[t].manual = ban[t].manual
          /\ ban'[t].dirs = ban[t].dirs \ {r.dir}
          /\ ban[t].manual \/ ban[t].dirs \ {r.dir} # {}
      BY <1>0, <1>6, <2>4, EndedMakes
    <3>2. ASSUME NEW d \in ban'[t].dirs  PROVE \E s \in Of(t) : s.dir = d /\ Holding(s)'
      <4>1. d \in ban[t].dirs /\ d # r.dir
        BY <3>1
      <4>2. PICK s \in Of(t) : s.dir = d /\ Holding(s)
        BY <1>3, <2>4, <3>1, <4>1 DEF Upheld
      <4>3. s \in Subject /\ s # r
        BY <1>3, <4>1, <4>2
      <4> QED
        BY <2>1, <4>2, <4>3, HoldingKept
    <3> QED
      BY <1>0, <2>4, <3>1, <3>2 DEF Upheld, Of
  <2>5. CASE r.target = t /\ t \in Prefix /\ ban'[t].active
    BY <1>0, <1>6, <2>5, EndedMakes
  <2> QED
    BY <2>2, <2>3, <2>4, <2>5 DEF M!Target
<1>7. ASSUME \A s \in Subject : ~HandleEnded(s), SameBan(t)  PROVE Upheld(t)'
  BY <1>5, <1>7
<1>8. CASE \E r \in Subject : HandleEnded(r)
  BY <1>6, <1>8
<1>9. CASE ~\E r \in Subject : HandleEnded(r)
  <2>1. \A s \in Of(t) : Holding(s) => Holding(s)'
    BY <1>4, <1>9
  <2>2. ASSUME UNCHANGED ban  PROVE Upheld(t)'
    <3>1. SameBan(t)
      BY <2>2 DEF SameBan
    <3> QED
      BY <1>7, <1>9, <3>1
  <2>3. CASE TakeEvent
    BY <2>2, <2>3, TakeEventMoves
  <2>4. CASE TakeHeartbeat
    BY <2>2, <2>4, TakeHeartbeatMoves
  <2>5. ASSUME NEW r \in Subject, HandleStarted(r)  PROVE Upheld(t)'
    <3>1. On(r) /\ Holding(r)
      BY <2>5, InHand DEF HandleStarted, Holding
    <3>2. CASE r.target = t
      <4>1. r \in Of(t)
        BY <3>2 DEF Of
      <4> QED
        BY <1>3, <2>1, <2>5, <3>1, <3>2, <4>1, StartMakes, UpheldWhile
    <3>3. CASE r.target # t
      <4>1. SameBan(t)
        BY <2>5, <3>3, StartMakes DEF Others
      <4> QED
        BY <1>7, <1>9, <4>1
    <3> QED
      BY <3>2, <3>3
  <2>6. ASSUME NEW r \in Subject, HandleHeartbeat(r)  PROVE Upheld(t)'
    <3>1. On(r) /\ Holding(r)
      BY <2>6, InHand DEF HandleHeartbeat, Holding
    <3>2. CASE r.target = t
      <4>1. r \in Of(t)
        BY <3>2 DEF Of
      <4> QED
        BY <1>3, <2>1, <2>6, <3>1, <3>2, <4>1, BeatMakes, UpheldWhile
    <3>3. CASE r.target # t
      <4>1. SameBan(t)
        BY <2>6, <3>3, BeatMakes DEF Others
      <4> QED
        BY <1>7, <1>9, <4>1
    <3> QED
      BY <3>2, <3>3
  <2>7. ASSUME NEW r \in Subject, Evaluate(r)  PROVE Upheld(t)'
    BY <2>2, <2>7, EvaluateMoves
  <2>8. CASE Tick
    <3>1. ban'[t].active = ban[t].active /\ ban'[t].manual = ban[t].manual /\ ban'[t].dirs = ban[t].dirs
      BY <2>8, TickMakes DEF Tick
    <3> QED
      BY <1>3, <2>1, <3>1 DEF Upheld, Of
  <2>9. ASSUME NEW h \in Host, OperatorBans(h)  PROVE Upheld(t)'
    <3>1. CASE t = h
      <4>1. t \notin Prefix
        BY <1>0, <3>1
      <4> QED
        BY <1>3, <2>1, <2>9, <3>1, <4>1, OperatorMakes, UpheldWhile
    <3>2. CASE t # h
      <4>1. SameBan(t)
        BY <2>9, <3>2, OperatorMakes DEF Others
      <4> QED
        BY <1>7, <1>9, <4>1
    <3> QED
      BY <3>1, <3>2
  <2>10. ASSUME NEW h \in Host, OperatorUnbans(h)  PROVE Upheld(t)'
    <3>1. CASE t = h
      BY <2>10, <3>1, UnbanMakes DEF Upheld
    <3>2. CASE t # h
      <4>1. SameBan(t)
        BY <2>10, <3>2, UnbanMakes DEF Others
      <4> QED
        BY <1>7, <1>9, <4>1
    <3> QED
      BY <3>1, <3>2
  <2>11. CASE Sweep
    BY <1>3, <2>1, <2>11, SweepMakes, UpheldWhile DEF Sweep
  <2>12. CASE CallBegins \/ Reload \/ UNCHANGED vars
    <3>1. UNCHANGED ban
      BY <2>12 DEF CallBegins, M!Begin, Reload, M!Reload, vars, mitVars
    <3> QED
      BY <2>2, <3>1
  <2> QED
    BY <1>9, <2>3, <2>4, <2>5, <2>6, <2>7, <2>8, <2>9, <2>10, <2>11, <2>12, NextIs DEF Apart
<1> QED
  BY <1>8, <1>9

---------------------------------------------------------------------------
(* The theorems.                                                           *)

\* At the start nothing is on its way, promised or banned.
LEMMA PromptInit ==
  ASSUME Init
  PROVE  PromptInv
<1>1. /\ task = [w \in Consumer |-> NoEvent] /\ Lifecycle \in Consumer /\ Heartbeats \in Consumer
      /\ events = <<>> /\ ongoing = <<>> /\ promised = [s \in Subject |-> FALSE]
      /\ ban = [t \in M!Target |-> M!NoBan] /\ NoEvent \notin D!Event
  BY PipelineAssumption DEF Init, D!DetInit, M!Init, Consumer
<1>2. TypeOK /\ Passing
  BY PipelineInitTyped
<1>3. EventsTrue
  BY <1>1 DEF EventsTrue, Awaited
<1>4. BeatsTrue
  BY <1>1 DEF BeatsTrue, Beating
<1>5. Promises
  BY <1>1 DEF Promises
<1>6. Holders
  BY <1>1 DEF Holders, M!NoBan, M!Target
<1> QED
  BY <1>2, <1>3, <1>4, <1>5, <1>6 DEF PromptInv

LEMMA PromptStep ==
  ASSUME Prompt, PromptInv, [Next]_vars
  PROVE  PromptInv'
  BY PipelineStepTyped, EventsStep, BeatsStep, PromisesStep, HoldersStep DEF PromptInv

\* What is on its way, what was promised and what holds a ban agree with the attacks.
THEOREM PromptInvariant ==
  ASSUME Prompt
  PROVE  Spec => []PromptInv
<1>1. Init => PromptInv
  BY PromptInit
<1>2. PromptInv /\ [Next]_vars => PromptInv'
  BY PromptStep
<1> QED
  BY <1>1, <1>2, PTL DEF Spec

\* An attack answered with a ban stays banned for as long as the engine sees it, for any
\* hosts, prefixes, configurations, ttls, hysteresis and channel sizes: the ttl, the other
\* direction, a dropped event and the sweep never take it down.
THEOREM AttackStaysBanned ==
  ASSUME Prompt
  PROVE  Spec => []MitigatedUntilOver
<1>1. PromptInv => MitigatedUntilOver
  BY DEF PromptInv, Promises, MitigatedUntilOver
<1> QED
  BY <1>1, PromptInvariant, PTL

\* A ban nobody holds any more is not left to its ttl unless its end event was dropped.
THEOREM EndReleases ==
  ASSUME Prompt
  PROVE  Spec => []ReleasedAtEnd
<1>1. ASSUME PromptInv, Idle, NEW t \in Host \cup Prefix,
             ban[t].active, ~ban[t].manual, Of(t) \cap lostEnd = {}
      PROVE  \E s \in Of(t) : On(s)
  <2>1. \A e \in D!Event : ~Awaited(e)
    BY <1>1, PipelineAssumption DEF Idle, Drained, Awaited, Consumer
  <2>2. PICK s \in Of(t) : Holding(s)
    BY <1>1 DEF PromptInv, Holders
  <2> QED
    BY <1>1, <2>1, <2>2 DEF Holding, EndComes
<1>2. PromptInv => ReleasedAtEnd
  BY <1>1 DEF ReleasedAtEnd
<1> QED
  BY <1>2, PromptInvariant, PTL

\* No step takes a host's ban down while the operator, or an attack it was promised to,
\* still holds it.
THEOREM BanHeldUntilReleased ==
  ASSUME Prompt
  PROVE  Spec => HeldUntilReleased
<1> DEFINE Released(h) == \/ ban[h].left < 0
                          \/ held[Sweeper] # NoConfig /\ h \notin held[Sweeper].networks
                          \/ OperatorUnbans(h)
                          \/ ~ban[h].manual /\ ~\E s \in Of(h) : promised[s] /\ On(s)
<1>1. ASSUME PromptInv, Next, NEW h \in Host, ban[h].active, ~ban'[h].active
      PROVE  Released(h)
  <2>0. /\ TypeOK /\ Passing /\ EventsTrue /\ BeatsTrue /\ Promises /\ [Next]_vars
        /\ h \in M!Target /\ h \notin Prefix
    BY <1>1, PipelineAssumption DEF PromptInv, M!Target, M!TargetAssumption
  <2>1. ASSUME SameBan(h) \/ ban'[h].active = ban[h].active  PROVE FALSE
    BY <1>1, <2>1 DEF SameBan
  <2>2. CASE TakeEvent
    BY <2>0, <2>1, <2>2, TakeEventMoves
  <2>3. CASE TakeHeartbeat
    BY <2>0, <2>1, <2>3, TakeHeartbeatMoves
  <2>4. ASSUME NEW s \in Subject, HandleStarted(s)  PROVE Released(h)
    BY <1>1, <2>0, <2>1, <2>4, StartMakes DEF Others, Refreshed, Added
  <2>5. ASSUME NEW s \in Subject, HandleHeartbeat(s)  PROVE Released(h)
    BY <1>1, <2>0, <2>1, <2>5, BeatMakes DEF Others, Refreshed
  <2>6. ASSUME NEW s \in Subject, Evaluate(s)  PROVE Released(h)
    BY <2>0, <2>1, <2>6, EvaluateMoves
  <2>7. ASSUME NEW g \in Host, OperatorBans(g)  PROVE Released(h)
    BY <1>1, <2>0, <2>1, <2>7, OperatorMakes DEF Others, Refreshed, Added
  <2>8. ASSUME NEW g \in Host, OperatorUnbans(g)  PROVE Released(h)
    BY <2>0, <2>1, <2>8, UnbanMakes DEF Others
  <2>9. CASE Sweep
    BY <2>0, <2>1, <2>9, SweepMakes DEF Sweep, M!Sweep, Expired
  <2>10. CASE CallBegins \/ Reload
    BY <2>1, <2>10 DEF CallBegins, M!Begin, Reload, M!Reload
  <2>11. CASE Tick
    BY <2>0, <2>1, <2>11, TickMakes DEF Tick
  <2>12. ASSUME NEW r \in Subject, HandleEnded(r)  PROVE Released(h)
    <3>1. r.target = h /\ ~ban[h].manual /\ ban[h].dirs \ {r.dir} = {}
      BY <1>1, <2>0, <2>1, <2>12, EndedMakes DEF Others
    <3>2. ~On(r)
      BY <2>0, <2>12, InHand DEF HandleEnded
    <3>3. ASSUME NEW s \in Of(h), promised[s], On(s)  PROVE FALSE
      <4>1. s \in Subject /\ s.target = h
        BY DEF Of
      <4>2. s.dir \in ban[h].dirs
        BY <1>1, <2>0, <3>3, <4>1 DEF Promises
      <4> QED
        BY <3>1, <3>2, <3>3, <4>1, <4>2, SubjectIs
    <3> QED
      BY <3>1, <3>3
  <2> QED
    BY <1>1, <2>2, <2>3, <2>4, <2>5, <2>6, <2>7, <2>8, <2>9, <2>10, <2>11, <2>12 DEF Next
<1>2. PromptInv /\ [Next]_vars =>
        [\A h \in Host :
           ban[h].active /\ ~ban'[h].active =>
             \/ ban[h].left < 0
             \/ held[Sweeper] # NoConfig /\ h \notin held[Sweeper].networks
             \/ OperatorUnbans(h)
             \/ ~ban[h].manual /\ ~\E s \in Of(h) : promised[s] /\ On(s)]_vars
  BY <1>1
<1> QED
  BY <1>2, PromptInvariant, PTL DEF Spec, HeldUntilReleased
=============================================================================
