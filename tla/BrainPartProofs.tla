-------------------------- MODULE BrainPartProofs ---------------------------
(***************************************************************************)
(* The first parts of the brain, whatever the sizes.                         *)
(*                                                                           *)
(* The ban state file, for every set of hosts, prefixes and configurations, *)
(* every failed save, load and announce, and every crash and restart.  What *)
(* the Mitigator does between them is taken from its own theorems, whose     *)
(* operators are shown to be those the file's Mitigator is built from.      *)
(*                                                                           *)
(* The measurement, for every ring, limit and share sampled: the counts are *)
(* sums over the ring, kept while time moves the owner of each slot.        *)
(*                                                                           *)
(* The telling, for every queue, batch and buffer: what is not yet told is   *)
(* in one place only, so nothing is told twice.                             *)
(***************************************************************************)
EXTENDS Brain, FiniteFacts, SequenceTheorems

\* The theorems of the Mitigator, about the one whose bans are kept in the file.
L == INSTANCE MitigatorProofs WITH MayFail <- BanMayFail \cap {"announce", "install", "withdraw"}

\* What P!Persist has of the Mitigator is what its theorems are about.
LEMMA BansAssumption ==
  ASSUME P!PersistAssumption
  PROVE  L!TargetAssumption /\ L!CallerAssumption /\ L!ConfigAssumption
<1>1. /\ L!TargetAssumption = P!M!TargetAssumption
      /\ L!CallerAssumption = P!M!CallerAssumption
      /\ L!ConfigAssumption = P!M!ConfigAssumption
  BY Zenon
  DEF P!M!TargetAssumption, L!TargetAssumption, P!M!CallerAssumption, L!CallerAssumption,
      P!M!ConfigAssumption, L!ConfigAssumption, P!M!ConfigType, L!ConfigType, P!M!Target, L!Target,
      P!M!Method, L!Method, P!M!Rung, L!Rung, P!M!IsFiniteSet, L!IsFiniteSet
<1> QED
  BY <1>1 DEF P!PersistAssumption

\* Its tables, and what is said of them.
LEMMA BansAre ==
  /\ L!Target = P!M!Target
  /\ L!Caller = P!M!Caller
  /\ L!BanType = P!M!BanType
  /\ L!NoBan = P!M!NoBan
  /\ L!EnvType = P!M!EnvType
  /\ L!NothingUp = P!M!NothingUp
  /\ L!NoStrandedMitigation = P!M!NoStrandedMitigation
  /\ L!ReportedIsEnforced = P!M!ReportedIsEnforced
  /\ L!TypeOK = P!M!TypeOK /\ L!TypeOK' = P!M!TypeOK'
  /\ L!NoStrandedMitigation' = P!M!NoStrandedMitigation'
  /\ L!ReportedIsEnforced' = P!M!ReportedIsEnforced'
  BY Zenon
  DEF P!M!Target, P!M!Caller, P!M!Direction, P!M!Family, P!M!Unicast, P!M!Method,
      P!M!Rung, P!M!ConfigType, P!M!BanType, P!M!NoBan, P!M!EnvType, P!M!NothingUp,
      P!M!TypeOK, P!M!Enforcing, P!M!NoStrandedMitigation, P!M!ReportedIsEnforced,
      L!Target, L!Caller, L!Direction, L!Family, L!Unicast, L!Method, L!Rung,
      L!ConfigType, L!BanType, L!NoBan, L!EnvType, L!NothingUp, L!TypeOK, L!Enforcing,
      L!NoStrandedMitigation, L!ReportedIsEnforced

\* Its backends.
LEMMA BackendsAre ==
  ASSUME NEW e, NEW m, NEW left
  PROVE  /\ L!Announce(e, m, left) = P!M!Announce(e, m, left)
         /\ L!InstallDataplane(e, left) = P!M!InstallDataplane(e, left)
  BY Zenon
  DEF P!M!Announce, P!M!AfterFailure, P!M!InstallDataplane, P!M!Installed, P!M!Cleared,
      P!M!Leaked, P!M!Unicast, L!Announce, L!AfterFailure, L!InstallDataplane,
      L!Installed, L!Cleared, L!Leaked, L!Unicast

\* An announce.
LEMMA BanAnnounceIs ==
  ASSUME NEW e, NEW m, NEW c, NEW left
  PROVE  L!AnnounceMethod(e, m, c, left) = P!M!AnnounceMethod(e, m, c, left)
  BY BackendsAre, Zenon
  DEF P!M!AnnounceMethod, L!AnnounceMethod

\* And its fallback.
LEMMA BanStageIs ==
  ASSUME NEW e, NEW m, NEW c, NEW left
  PROVE  L!AnnounceStage(e, m, c, left) = P!M!AnnounceStage(e, m, c, left)
  BY BanAnnounceIs, Zenon
  DEF P!M!AnnounceStage, P!M!FallsBack, L!AnnounceStage, L!FallsBack

\* A withdrawal.
LEMMA BanWithdrawIs ==
  ASSUME NEW b, NEW e
  PROVE  L!Withdraw(b, e) = P!M!Withdraw(b, e)
  BY Zenon
  DEF P!M!Withdraw, P!M!WithdrawMethod, P!M!Slot, P!M!NoBan, P!M!Cleared, P!M!Leaked,
      P!M!FamilyOf, P!M!Unicast, L!Withdraw, L!WithdrawMethod, L!Slot, L!NoBan,
      L!Cleared, L!Leaked, L!FamilyOf, L!Unicast

\* A call that bans.
LEMMA BanCallIs ==
  ASSUME NEW w, NEW t, NEW ladder, NEW dirs, NEW manual
  PROVE  /\ L!Refuse(w, t) = P!M!Refuse(w, t)
         /\ L!Refresh(w, t, dirs) = P!M!Refresh(w, t, dirs)
         /\ L!Admit(w, t, ladder, dirs, manual) = P!M!Admit(w, t, ladder, dirs, manual)
  BY BanStageIs, Zenon
  DEF P!M!Refuse, P!M!Refresh, P!M!Admit, P!M!Allowed, P!M!Spared, P!M!UnderCap,
      P!M!UnderFraction, P!M!UnderRate, P!M!WindowCount, P!M!CountedIn, P!M!ActiveHosts,
      P!M!ActivePrefixes, P!M!ActiveAddresses, P!M!Covered, P!M!Cardinality, P!M!NewBan,
      P!M!OnRung, P!M!Put, P!M!Slot, P!M!Returns, L!Refuse, L!Refresh, L!Admit,
      L!Allowed, L!Spared, L!UnderCap, L!UnderFraction, L!UnderRate, L!WindowCount,
      L!CountedIn, L!ActiveHosts, L!ActivePrefixes, L!ActiveAddresses, L!Covered,
      L!Cardinality, L!NewBan, L!OnRung, L!Put, L!Slot, L!Returns

\* A heartbeat.
LEMMA BanBeatIs ==
  ASSUME NEW w, NEW t, NEW dirs
  PROVE  L!Heartbeat(w, t, dirs) = P!M!Heartbeat(w, t, dirs)
  BY Zenon
  DEF P!M!Heartbeat, P!M!Kept, P!M!Renewals, P!M!NeedsRenewal, P!M!Spared, P!M!Each,
      P!M!Slot, P!M!Returns, P!M!Target, P!M!InstallDataplane, P!M!Installed,
      P!M!Cleared, P!M!Unicast, L!Heartbeat, L!Kept, L!Renewals, L!NeedsRenewal,
      L!Spared, L!Each, L!Slot, L!Returns, L!Target, L!InstallDataplane, L!Installed,
      L!Cleared, L!Unicast

\* What the file's process does with them.
LEMMA BanStepsAre ==
  ASSUME NEW w, NEW h, NEW d
  PROVE  /\ L!Begin(w) = P!M!Begin(w)
         /\ L!OnAttackStarted(w, h, d) = P!M!OnAttackStarted(w, h, d)
         /\ L!OnAttackOngoing(w, h, d) = P!M!OnAttackOngoing(w, h, d)
         /\ L!OnAttackEnded(h, d) = P!M!OnAttackEnded(h, d)
         /\ L!ManualBan(w, h) = P!M!ManualBan(w, h)
         /\ L!ManualUnban(h) = P!M!ManualUnban(h)
  BY BanCallIs, BanBeatIs, BanWithdrawIs, Zenon
  DEF P!M!Begin, P!M!OnAttackStarted, P!M!OnAttackOngoing, P!M!OnAttackEnded,
      P!M!ManualBan, P!M!ManualUnban, P!M!Put, L!Begin, L!OnAttackStarted,
      L!OnAttackOngoing, L!OnAttackEnded, L!ManualBan, L!ManualUnban, L!Put

\* Its clock.
LEMMA BanClockIs ==
  ASSUME NEW b, NEW n
  PROVE  /\ L!Aged(b) = P!M!Aged(b)
         /\ L!Older(n) = P!M!Older(n)
         /\ L!Tick = P!M!Tick
         /\ L!Init = P!M!Init
  BY Zenon
  DEF P!M!Aged, P!M!Older, P!M!Tick, P!M!Lapse, P!M!Cleared, P!M!Init, P!M!Target,
      P!M!Caller, P!M!NoBan, P!M!NothingUp, L!Aged, L!Older, L!Tick, L!Lapse, L!Cleared,
      L!Init, L!Target, L!Caller, L!NoBan, L!NothingUp

\* Its sweep.
LEMMA BanSweepIs ==
  L!Sweep = P!M!Sweep
  BY Zenon
  DEF P!M!Target, P!M!Caller, P!M!Unicast, P!M!FamilyOf, P!M!Spared, P!M!Installed,
      P!M!Cleared, P!M!Leaked, P!M!AfterFailure, P!M!Announce, P!M!InstallDataplane,
      P!M!AnnounceMethod, P!M!FallsBack, P!M!AnnounceStage, P!M!WithdrawMethod,
      P!M!Slot, P!M!NoBan, P!M!Withdraw, P!M!DueRungs, P!M!TopDue, P!M!OnRung,
      P!M!Superseded, P!M!ClimbTo, P!M!Escalate, P!M!Returns, P!M!Each, P!M!SweepOne,
      P!M!Sweep, L!Target, L!Caller, L!Unicast, L!FamilyOf, L!Spared, L!Installed,
      L!Cleared, L!Leaked, L!AfterFailure, L!Announce, L!InstallDataplane,
      L!AnnounceMethod, L!FallsBack, L!AnnounceStage, L!WithdrawMethod, L!Slot, L!NoBan,
      L!Withdraw, L!DueRungs, L!TopDue, L!OnRung, L!Superseded, L!ClimbTo, L!Escalate,
      L!Returns, L!Each, L!SweepOne, L!Sweep

\* The numbers and tables of the invariant.
LEMMA BansTyped ==
  ASSUME P!PersistAssumption, P!IInv
  PROVE  /\ Horizon \in Nat /\ cfg \in Config /\ cfg.ttl \in 1..Horizon
         /\ ban \in [P!M!Target -> P!M!BanType] /\ env \in [P!M!Target -> P!M!EnvType]
         /\ file \in [P!M!Target -> P!M!BanType] /\ beatAge \in 0..Horizon
         /\ writing \in [P!Writer -> [P!M!Target -> P!M!BanType] \cup {NoSnap}]
         /\ L!TypeOK
<1>1. Horizon \in Nat /\ Config \subseteq P!M!ConfigType
  BY DEF P!PersistAssumption, P!M!ConfigAssumption
<1>2. cfg \in Config
  BY DEF P!IInv, P!TypeOK, P!M!TypeOK
<1>3. cfg.ttl \in 1..Horizon
  BY <1>1, <1>2 DEF P!M!ConfigType
<1> QED
  BY <1>1, <1>2, <1>3, BansAre DEF P!IInv, P!TypeOK, P!M!TypeOK

\* Two bans with the same core differ in their deadline at most.
Alike(a, b) ==
  /\ a.active = b.active /\ a.dryRun = b.dryRun /\ a.manual = b.manual /\ a.age = b.age
  /\ a.dpAge = b.dpAge /\ a.dirs = b.dirs /\ a.method = b.method /\ a.step = b.step
  /\ a.ladder = b.ladder

\* The file keeps two bans apart by everything but their deadline.
LEMMA CoreIs ==
  ASSUME NEW a \in P!M!BanType, NEW b \in P!M!BanType
  PROVE  P!Core(a) = P!Core(b) <=> Alike(a, b)
<1>1. /\ a = [ active |-> a.active, dryRun |-> a.dryRun, manual |-> a.manual, left |-> a.left,
               age |-> a.age, dpAge |-> a.dpAge, dirs |-> a.dirs, method |-> a.method,
               step |-> a.step, ladder |-> a.ladder ]
      /\ b = [ active |-> b.active, dryRun |-> b.dryRun, manual |-> b.manual, left |-> b.left,
               age |-> b.age, dpAge |-> b.dpAge, dirs |-> b.dirs, method |-> b.method,
               step |-> b.step, ladder |-> b.ladder ]
  BY DEF P!M!BanType
<1>2. /\ P!Core(a) = [ active |-> a.active, dryRun |-> a.dryRun, manual |-> a.manual, left |-> 0,
               age |-> a.age, dpAge |-> a.dpAge, dirs |-> a.dirs, method |-> a.method,
               step |-> a.step, ladder |-> a.ladder ]
      /\ P!Core(b) = [ active |-> b.active, dryRun |-> b.dryRun, manual |-> b.manual, left |-> 0,
               age |-> b.age, dpAge |-> b.dpAge, dirs |-> b.dirs, method |-> b.method,
               step |-> b.step, ladder |-> b.ladder ]
  BY <1>1 DEF P!Core
<1> QED
  BY <1>2 DEF Alike

\* What the file holds of a target that is not banned.
LEMMA NoBanIs ==
  ASSUME P!PersistAssumption
  PROVE  P!M!NoBan \in P!M!BanType /\ P!M!NoBan.active = FALSE
<1>1. L!NoBan \in L!BanType
  BY BansAssumption, L!NoBanTyped
<1> QED
  BY <1>1, BansAre DEF P!M!NoBan

\* What is saved of a ban.
LEMMA SavedIs ==
  ASSUME P!PersistAssumption, NEW b \in P!M!BanType
  PROVE  /\ P!Saved(b) \in P!M!BanType /\ P!Saved(b).active = b.active
         /\ b.active => /\ P!Saved(b).dryRun = b.dryRun /\ P!Saved(b).manual = b.manual
                        /\ P!Saved(b).left = b.left /\ P!Saved(b).age = b.age
                        /\ P!Saved(b).dpAge = Horizon /\ P!Saved(b).dirs = {}
                        /\ P!Saved(b).method = b.method /\ P!Saved(b).step = b.step
                        /\ P!Saved(b).ladder = b.ladder
         /\ ~b.active => P!Saved(b) = P!M!NoBan
<1>1. CASE b.active
  <2>1. P!Saved(b) = [b EXCEPT !.dirs = {}, !.dpAge = Horizon]
    BY <1>1 DEF P!Saved
  <2>2. Horizon \in 0..Horizon
    BY DEF P!PersistAssumption, P!M!ConfigAssumption
  <2>3. P!Saved(b) \in P!M!BanType
    BY <2>1, <2>2 DEF P!M!BanType
  <2>4. /\ P!Saved(b).dryRun = b.dryRun /\ P!Saved(b).manual = b.manual
        /\ P!Saved(b).left = b.left /\ P!Saved(b).age = b.age
        /\ P!Saved(b).dpAge = Horizon /\ P!Saved(b).dirs = {}
        /\ P!Saved(b).method = b.method /\ P!Saved(b).step = b.step
        /\ P!Saved(b).ladder = b.ladder /\ P!Saved(b).active = b.active
    BY <2>1 DEF P!M!BanType
  <2> QED
    BY <1>1, <2>3, <2>4
<1>2. CASE ~b.active
  <2>1. P!Saved(b) = P!M!NoBan /\ b.active = FALSE
    BY <1>2 DEF P!Saved, P!M!BanType
  <2> QED
    BY <1>2, <2>1, NoBanIs
<1> QED
  BY <1>1, <1>2

---------------------------------------------------------------------------
(* Calls.                                                                  *)

\* What is enforced, and by which flag.
Flagged(dry) == \A t \in P!M!Target : ban[t].active => ban[t].dryRun = dry

\* The tables agree with each other when each ban is on the ladder, by the flag, and up.
LEMMA ConsistentIs ==
  ASSUME NEW dry
  PROVE  /\ L!Consistent(dry) <=>
              Flagged(dry) /\ P!Climbing(ban) /\ P!M!NoStrandedMitigation /\ P!M!ReportedIsEnforced
         /\ L!Consistent(dry)' <=>
              (Flagged(dry) /\ P!Climbing(ban) /\ P!M!NoStrandedMitigation /\ P!M!ReportedIsEnforced)'
<1>1. L!Consistent(dry) <=>
        Flagged(dry) /\ P!Climbing(ban) /\ L!NoStrandedMitigation /\ L!ReportedIsEnforced
  BY BansAre DEF L!Consistent, L!Good, L!Slot, L!Frozen, L!OnLadder, L!Matches, L!Within, L!Up,
     Flagged, P!Climbing, L!NoStrandedMitigation, L!ReportedIsEnforced
<1>2. L!Consistent(dry)' <=>
        (Flagged(dry) /\ P!Climbing(ban) /\ L!NoStrandedMitigation /\ L!ReportedIsEnforced)'
  BY BansAre DEF L!Consistent, L!Good, L!Slot, L!Frozen, L!OnLadder, L!Matches, L!Within, L!Up,
     Flagged, P!Climbing, L!NoStrandedMitigation, L!ReportedIsEnforced
<1> QED
  BY <1>1, <1>2, BansAre

\* What the process does with the tables is a call of the Mitigator.
LEMMA HandleCalls ==
  ASSUME NEW w \in Worker \cup {Sweeper}, P!Handle(w)
  PROVE  L!Call
<1>1. "in" \in L!Direction /\ w \in L!Caller /\ (w # Sweeper => w \in Worker)
  BY DEF L!Direction, L!Caller
<1>2. \/ L!Begin(w)
      \/ \E h \in Host : w # Sweeper /\ (L!OnAttackStarted(w, h, "in") \/ L!OnAttackEnded(h, "in"))
      \/ \E h \in Host : w # Sweeper /\ (L!ManualBan(w, h) \/ L!ManualUnban(h))
      \/ L!Sweep
  BY BanStepsAre, BanSweepIs DEF P!Handle
<1> QED
  BY <1>1, <1>2 DEF L!Call

\* So is a heartbeat.
LEMMA OngoingCalls ==
  ASSUME NEW w \in Worker, P!Ongoing(w)
  PROVE  L!Call
<1>1. "in" \in L!Direction
  BY DEF L!Direction
<1> QED
  BY <1>1, BanStepsAre DEF P!Ongoing, L!Call

\* What any call leaves.
LEMMA CallLeaves ==
  ASSUME P!PersistAssumption, P!IInv, phase # "down", L!Call
  PROVE  /\ P!M!TypeOK' /\ cfg' = cfg /\ \A w \in P!M!Caller : held'[w] \in {NoConfig, cfg}
         /\ P!Climbing(ban)' /\ Flagged(cfg.dryRun)'
         /\ P!M!NoStrandedMitigation' /\ P!M!ReportedIsEnforced'
         /\ \A t \in P!M!Target : ban'[t].active =>
              (ban[t].active /\ ban'[t].left = ban[t].left) \/ ban'[t].left = cfg.ttl
<1>1. L!TargetAssumption /\ L!CallerAssumption /\ L!ConfigAssumption
  BY BansAssumption
<1>2. L!TypeOK /\ L!Next /\ \A w \in L!Caller : held[w] \in {NoConfig, cfg}
  <2>1. L!Next
    BY <1>1, L!CallMoves
  <2> QED
    BY <2>1, BansTyped, BansAre DEF P!IInv, P!OneRun
<1>3. PICK dry : dry = cfg.dryRun
  OBVIOUS
<1>4. L!Consistent(dry) /\ L!Reads(dry)
  BY <1>2, <1>3, ConsistentIs DEF P!IInv, P!Enforced, P!OnLadders, Flagged, L!Reads
<1>5. L!TypeOK' /\ L!Consistent(dry)'
  BY <1>1, <1>2, <1>4, L!NextTyped, L!NextConsistent
<1>6. cfg' = cfg /\ \A w \in L!Caller : held'[w] \in {held[w], NoConfig, cfg}
  BY <1>1, <1>2, L!CallKeeps
<1>7. L!Deadlines(cfg.ttl)
  BY <1>1, <1>2, L!CallDeadlines
<1>8. \A t \in P!M!Target : ban'[t].active =>
              (ban[t].active /\ ban'[t].left = ban[t].left) \/ ban'[t].left = cfg.ttl
  BY <1>7, BansAre DEF L!Deadlines, L!SameDeadline
<1>9. /\ P!Climbing(ban)' /\ Flagged(dry)'
      /\ P!M!NoStrandedMitigation' /\ P!M!ReportedIsEnforced'
  BY <1>5, ConsistentIs
<1> QED
  BY <1>2, <1>3, <1>5, <1>6, <1>8, <1>9, BansAre DEF Flagged

---------------------------------------------------------------------------
(* What a snapshot says.                                                   *)

\* It goes on saying it while a call changes no more than deadlines, and those only by a
\* ttl from now that the clock of the heartbeats covers.
LEMMA TellsStill ==
  ASSUME P!PersistAssumption, P!IInv, NEW snap \in [P!M!Target -> P!M!BanType], P!Tells(snap),
         cfg' = cfg, beatAge' = beatAge, ban' \in [P!M!Target -> P!M!BanType],
         \A t \in P!M!Target : P!Core(P!Saved(ban'[t])) = P!Core(P!Saved(ban[t])),
         \A t \in P!M!Target : P!M!Target = {t} /\ ban'[t].active =>
           ban'[t].left = ban[t].left \/ (ban'[t].left = cfg.ttl /\ 2 * beatAge < cfg.ttl)
  PROVE  P!Tells(snap)'
<1>1. /\ Horizon \in Nat /\ cfg.ttl \in 1..Horizon /\ beatAge \in 0..Horizon
      /\ ban \in [P!M!Target -> P!M!BanType]
  BY BansTyped
<1> SUFFICES ASSUME NEW t \in P!M!Target
             PROVE  /\ P!Core(snap[t]) = P!Core(P!Saved(ban'[t]))
                    /\ P!M!Target = {t} => /\ P!Beaten(snap[t])'
                                           /\ ban'[t].active => 2 * (ban'[t].left - snap[t].left) <= cfg.ttl
  BY DEF P!Tells
<1>2. /\ P!Core(snap[t]) = P!Core(P!Saved(ban[t]))
      /\ P!M!Target = {t} => /\ P!Beaten(snap[t])
                             /\ ban[t].active => 2 * (ban[t].left - snap[t].left) <= cfg.ttl
  BY DEF P!Tells
<1>3. P!Core(snap[t]) = P!Core(P!Saved(ban'[t]))
  BY <1>2
<1>4. ASSUME P!M!Target = {t}  PROVE  P!Beaten(snap[t])'
  BY <1>2, <1>4 DEF P!Beaten
<1>5. ASSUME P!M!Target = {t}, ban'[t].active
      PROVE  2 * (ban'[t].left - snap[t].left) <= cfg.ttl
  <2>1. snap[t] \in P!M!BanType /\ ban[t] \in P!M!BanType /\ ban'[t] \in P!M!BanType
    BY <1>1
  <2>2. snap[t].active = ban[t].active /\ snap[t].active = ban'[t].active
    BY <1>2, <1>3, <2>1, SavedIs, CoreIs DEF Alike
  <2>3. snap[t].left \in Int /\ ban[t].left \in Int
    BY <1>1, <2>1 DEF P!M!BanType
  <2>4. CASE ban'[t].left = ban[t].left
    BY <1>2, <1>5, <2>2, <2>4
  <2>5. CASE ban'[t].left = cfg.ttl /\ 2 * beatAge < cfg.ttl
    <3>1. beatAge < Horizon
      BY <1>1, <2>5
    <3>2. snap[t].left >= cfg.ttl - beatAge
      BY <1>2, <1>5, <2>2, <3>1 DEF P!Beaten
    <3> QED
      BY <1>1, <2>3, <2>5, <3>2
  <2> QED
    BY <1>5, <2>4, <2>5
<1> QED
  BY <1>3, <1>4, <1>5

\* A snapshot taken now says what the table says.
LEMMA SnapshotTells ==
  ASSUME P!PersistAssumption, P!IInv
  PROVE  /\ P!Snapshot \in [P!M!Target -> P!M!BanType] /\ P!Snapshot # NoSnap
         /\ P!Climbing(P!Snapshot) /\ P!Tells(P!Snapshot)
<1>1. /\ cfg.ttl \in 1..Horizon /\ Horizon \in Nat /\ ban \in [P!M!Target -> P!M!BanType]
  BY BansTyped
<1>2. \A t \in P!M!Target : ban[t] \in P!M!BanType /\ P!Snapshot[t] = P!Saved(ban[t])
  BY <1>1 DEF P!Snapshot
<1>3. P!Snapshot \in [P!M!Target -> P!M!BanType]
  BY <1>2, SavedIs DEF P!Snapshot
<1>4. P!Snapshot # NoSnap
  BY <1>3 DEF P!PersistAssumption
<1>5. P!Climbing(P!Snapshot)
  BY <1>2, SavedIs DEF P!Climbing, P!IInv, P!OnLadders
<1>6. ASSUME NEW t \in P!M!Target
      PROVE  /\ P!Core(P!Snapshot[t]) = P!Core(P!Saved(ban[t]))
             /\ P!M!Target = {t} => /\ P!Beaten(P!Snapshot[t])
                                    /\ ban[t].active => 2 * (ban[t].left - P!Snapshot[t].left) <= cfg.ttl
  <2>1. P!Snapshot[t].active = ban[t].active /\ (ban[t].active => P!Snapshot[t].left = ban[t].left)
    BY <1>2, SavedIs
  <2>2. P!M!Target = {t} => P!Beaten(P!Snapshot[t])
    BY <2>1 DEF P!Beaten, P!IInv, P!BeatsKept
  <2>3. ban[t].left \in Int
    BY <1>1 DEF P!M!BanType
  <2>4. ban[t].active => 2 * (ban[t].left - P!Snapshot[t].left) <= cfg.ttl
    BY <1>1, <2>1, <2>3
  <2> QED
    BY <1>2, <2>2, <2>4
<1> QED
  BY <1>3, <1>4, <1>5, <1>6 DEF P!Tells

---------------------------------------------------------------------------
(* Steps.                                                                  *)

\* What no step but a restart changes, while the tables keep their flags.
LEMMA HandleKeeps ==
  ASSUME P!PersistAssumption, P!IInv, NEW w \in Worker \cup {Sweeper}, P!Handle(w)
  PROVE  P!IInv'
<1>1. /\ phase # "down" /\ phase' = phase /\ restarting' = restarting /\ file' = file
      /\ writing' = writing /\ stale' = stale /\ beatAge' = beatAge
      /\ P!Signals(P!TableChanged)
  BY DEF P!Handle, P!Serving, P!Signals
<1>2. /\ P!M!TypeOK' /\ cfg' = cfg /\ \A x \in P!M!Caller : held'[x] \in {NoConfig, cfg}
      /\ P!Climbing(ban)' /\ Flagged(cfg.dryRun)'
      /\ P!M!NoStrandedMitigation' /\ P!M!ReportedIsEnforced'
      /\ \A t \in P!M!Target : ban'[t].active =>
           (ban[t].active /\ ban'[t].left = ban[t].left) \/ ban'[t].left = cfg.ttl
  BY <1>1, HandleCalls, CallLeaves
<1>3. /\ Horizon \in Nat /\ cfg.ttl \in 1..Horizon /\ beatAge \in 0..Horizon
      /\ ban \in [P!M!Target -> P!M!BanType] /\ ban' \in [P!M!Target -> P!M!BanType]
      /\ file \in [P!M!Target -> P!M!BanType]
      /\ writing \in [P!Writer -> [P!M!Target -> P!M!BanType] \cup {NoSnap}]
  BY <1>2, BansTyped DEF P!M!TypeOK
<1>4. P!TypeOK'
  BY <1>1, <1>2 DEF P!IInv, P!TypeOK, P!Signals
<1>5. P!OneRun' /\ P!OneWriter'
  BY <1>1, <1>2 DEF P!IInv, P!OneRun, P!OneWriter
<1>6. P!BeatsKept'
  BY <1>1, <1>2, <1>3 DEF P!IInv, P!BeatsKept, P!Beaten
<1>7. P!OnLadders' /\ P!Enforced'
  BY <1>1, <1>2 DEF P!IInv, P!OnLadders, P!Enforced, P!Climbing, Flagged
<1>8. CASE P!TableChanged
  <2>1. dirty' /\ (writing["stop"] # NoSnap \/ phase = "drained" => late')
    BY <1>8, <1>1 DEF P!Signals
  <2>2. P!LastWord'
    BY <1>1, <2>1 DEF P!LastWord
  <2> QED
    BY <1>4, <1>5, <1>6, <1>7, <2>2 DEF P!IInv
<1>9. CASE ~P!TableChanged
  <2>1. dirty' = dirty /\ late' = late
    BY <1>1, <1>9 DEF P!Signals, P!IInv, P!TypeOK
  <2>2. \A t \in P!M!Target : P!Saved(ban'[t]) = P!Saved(ban[t])
    BY <1>9 DEF P!TableChanged
  <2>3. \A t \in P!M!Target : ban'[t].active => ban'[t].left = ban[t].left
    BY <1>3, <2>2, SavedIs
  <2>4. ASSUME NEW snap \in [P!M!Target -> P!M!BanType], P!Tells(snap)  PROVE  P!Tells(snap)'
    BY <1>1, <1>2, <1>3, <2>2, <2>3, <2>4, TellsStill
  <2>5. P!Tells(file) => P!Tells(file)'
    <3>1. PICK snap : snap = file
      OBVIOUS
    <3>2. P!Tells(snap) => P!Tells(snap)'
      BY <1>3, <2>4, <3>1
    <3> QED
      BY <1>1, <3>1, <3>2 DEF P!Tells
  <2>6. ASSUME NEW x \in P!Writer, writing[x] # NoSnap  PROVE  P!Tells(writing[x]) => P!Tells(writing[x])'
    <3>1. PICK snap : snap = writing[x]
      OBVIOUS
    <3>2. P!Tells(snap) => P!Tells(snap)'
      BY <1>3, <2>4, <2>6, <3>1
    <3> QED
      BY <1>1, <3>1, <3>2 DEF P!Tells
  <2>7. P!LastWord'
    BY <1>1, <2>1, <2>5, <2>6 DEF P!IInv, P!LastWord, P!Writer
  <2> QED
    BY <1>4, <1>5, <1>6, <1>7, <2>7 DEF P!IInv
<1> QED
  BY <1>8, <1>9

\* A heartbeat that is not written is one the last write covers.
LEMMA OngoingKeeps ==
  ASSUME P!PersistAssumption, P!IInv, NEW w \in Worker, P!Ongoing(w)
  PROVE  P!IInv'
<1> DEFINE covered == 2 * beatAge >= held[w].ttl
<1>1. PICK h \in Host : /\ P!M!OnAttackOngoing(w, h, "in")
                        /\ P!Signals(ban[h].active /\ covered)
                        /\ beatAge' = IF ban[h].active /\ covered THEN 0 ELSE beatAge
  BY DEF P!Ongoing
<1>2. phase = "up"
  BY DEF P!Ongoing
<1>3. /\ phase' = phase /\ restarting' = restarting /\ file' = file
      /\ writing' = writing /\ stale' = stale
  BY <1>1 DEF P!Signals
<1>4. /\ P!M!TypeOK' /\ cfg' = cfg /\ \A x \in P!M!Caller : held'[x] \in {NoConfig, cfg}
      /\ P!Climbing(ban)' /\ Flagged(cfg.dryRun)'
      /\ P!M!NoStrandedMitigation' /\ P!M!ReportedIsEnforced'
  BY <1>2, OngoingCalls, CallLeaves
<1>5. /\ Horizon \in Nat /\ cfg.ttl \in 1..Horizon /\ beatAge \in 0..Horizon
      /\ ban \in [P!M!Target -> P!M!BanType] /\ ban' \in [P!M!Target -> P!M!BanType]
      /\ file \in [P!M!Target -> P!M!BanType]
      /\ writing \in [P!Writer -> [P!M!Target -> P!M!BanType] \cup {NoSnap}]
  BY <1>4, BansTyped DEF P!M!TypeOK
<1>6. h \in P!M!Target /\ h \notin Prefix /\ held[w] = cfg /\ L!Heartbeat(w, h, {"in"})
  <2>1. h \notin Prefix /\ h \in P!M!Target
    BY DEF P!PersistAssumption, P!M!TargetAssumption, P!M!Target
  <2>2. L!Heartbeat(w, h, {"in"})
    BY <1>1, BanStepsAre DEF L!OnAttackOngoing
  <2>3. held[w] # NoConfig /\ w \in P!M!Caller
    BY <2>2 DEF L!Heartbeat, P!M!Caller
  <2> QED
    BY <2>1, <2>2, <2>3 DEF P!IInv, P!OneRun
<1>7. \A t \in P!M!Target :
        /\ ban'[t].active = ban[t].active /\ ban'[t].dryRun = ban[t].dryRun
        /\ ban'[t].manual = ban[t].manual /\ ban'[t].age = ban[t].age
        /\ ban'[t].method = ban[t].method /\ ban'[t].step = ban[t].step
        /\ ban'[t].ladder = ban[t].ladder
        /\ ban'[t].left = IF t = h /\ ban[h].active THEN cfg.ttl ELSE ban[t].left
  <2> TAKE t \in P!M!Target
  <2>1. L!TypeOK /\ {"in"} \in SUBSET L!Direction
    BY BansTyped DEF L!Direction
  <2>2. L!TargetAssumption /\ L!CallerAssumption /\ L!ConfigAssumption
    BY BansAssumption
  <2>3. t \in L!Target /\ h \in L!Target
    BY <1>6, BansAre
  <2> QED
    BY <1>6, <2>1, <2>2, <2>3, L!HeartbeatKeeps
<1>8. \A t \in P!M!Target :
        ban'[t].active = ban[t].active /\ P!Core(P!Saved(ban'[t])) = P!Core(P!Saved(ban[t]))
  <2> TAKE t \in P!M!Target
  <2>1. ban[t] \in P!M!BanType /\ ban'[t] \in P!M!BanType
    BY <1>5
  <2>2. P!Saved(ban[t]) \in P!M!BanType /\ P!Saved(ban'[t]) \in P!M!BanType
    BY <2>1, SavedIs
  <2>3. CASE ban[t].active
    <3>1. /\ P!Saved(ban[t]).active = ban[t].active
          /\ P!Saved(ban[t]).dryRun = ban[t].dryRun /\ P!Saved(ban[t]).manual = ban[t].manual
          /\ P!Saved(ban[t]).age = ban[t].age /\ P!Saved(ban[t]).dpAge = Horizon /\ P!Saved(ban[t]).dirs = {}
          /\ P!Saved(ban[t]).method = ban[t].method /\ P!Saved(ban[t]).step = ban[t].step
          /\ P!Saved(ban[t]).ladder = ban[t].ladder
      BY <2>1, <2>3, SavedIs
    <3>2. /\ P!Saved(ban'[t]).active = ban'[t].active
          /\ P!Saved(ban'[t]).dryRun = ban'[t].dryRun /\ P!Saved(ban'[t]).manual = ban'[t].manual
          /\ P!Saved(ban'[t]).age = ban'[t].age /\ P!Saved(ban'[t]).dpAge = Horizon /\ P!Saved(ban'[t]).dirs = {}
          /\ P!Saved(ban'[t]).method = ban'[t].method /\ P!Saved(ban'[t]).step = ban'[t].step
          /\ P!Saved(ban'[t]).ladder = ban'[t].ladder
      BY <1>7, <2>1, <2>3, SavedIs
    <3>3. Alike(P!Saved(ban'[t]), P!Saved(ban[t]))
      BY <1>7, <3>1, <3>2 DEF Alike
    <3> QED
      BY <1>7, <2>2, <3>3, CoreIs
  <2>4. CASE ~ban[t].active
    BY <1>7, <2>1, <2>4, SavedIs
  <2> QED
    BY <2>3, <2>4
<1>9. P!TypeOK'
  BY <1>1, <1>3, <1>4, <1>5 DEF P!IInv, P!TypeOK, P!Signals
<1>10. P!OneRun' /\ P!OneWriter'
  BY <1>2, <1>3, <1>4 DEF P!IInv, P!OneRun, P!OneWriter
<1>11. P!BeatsKept'
  <2> SUFFICES ASSUME NEW t \in P!M!Target, P!M!Target = {t}, ban'[t].active, beatAge' < Horizon
               PROVE  ban'[t].left >= cfg'.ttl - beatAge'
    BY DEF P!BeatsKept, P!Beaten
  <2>1. t = h /\ ban[h].active
    BY <1>6, <1>8
  <2>2. ban'[t].left = cfg.ttl /\ beatAge' \in Nat
    BY <1>1, <1>5, <1>7, <2>1
  <2> QED
    BY <1>4, <1>5, <2>2
<1>12. P!OnLadders' /\ P!Enforced'
  BY <1>3, <1>4 DEF P!IInv, P!OnLadders, P!Enforced, P!Climbing, Flagged
<1>13. writing["stop"] = NoSnap
  BY <1>2 DEF P!IInv, P!OneWriter
<1>14. CASE ban[h].active /\ covered
  <2>1. dirty'
    BY <1>1, <1>14 DEF P!Signals
  <2>2. P!LastWord'
    BY <1>2, <1>3, <1>13, <2>1 DEF P!LastWord
  <2> QED
    BY <1>9, <1>10, <1>11, <1>12, <2>2 DEF P!IInv
<1>15. CASE ~(ban[h].active /\ covered)
  <2>1. dirty' = dirty /\ late' = late /\ beatAge' = beatAge
    BY <1>1, <1>15 DEF P!Signals, P!IInv, P!TypeOK
  <2>2. \A t \in P!M!Target : P!M!Target = {t} /\ ban'[t].active =>
           ban'[t].left = ban[t].left \/ (ban'[t].left = cfg.ttl /\ 2 * beatAge < cfg.ttl)
    BY <1>5, <1>6, <1>7, <1>15
  <2>3. ASSUME NEW snap \in [P!M!Target -> P!M!BanType], P!Tells(snap)  PROVE  P!Tells(snap)'
    BY <1>4, <1>5, <1>8, <2>1, <2>2, <2>3, TellsStill
  <2>4. P!Tells(file) => P!Tells(file)'
    <3>1. PICK snap : snap = file
      OBVIOUS
    <3>2. P!Tells(snap) => P!Tells(snap)'
      BY <1>5, <2>3, <3>1
    <3> QED
      BY <1>3, <3>1, <3>2 DEF P!Tells
  <2>5. writing["loop"] # NoSnap /\ P!Tells(writing["loop"]) => P!Tells(writing["loop"])'
    <3>1. PICK snap : snap = writing["loop"]
      OBVIOUS
    <3>2. snap # NoSnap /\ P!Tells(snap) => P!Tells(snap)'
      BY <1>5, <2>3, <3>1 DEF P!Writer
    <3> QED
      BY <1>3, <3>1, <3>2 DEF P!Tells
  <2>6. P!LastWord'
    BY <1>2, <1>3, <1>13, <2>1, <2>4, <2>5 DEF P!IInv, P!LastWord
  <2> QED
    BY <1>9, <1>10, <1>11, <1>12, <2>6 DEF P!IInv
<1> QED
  BY <1>14, <1>15

\* While the tables rest, so does what is said of them.
LEMMA TablesRest ==
  ASSUME P!PersistAssumption, P!IInv, UNCHANGED P!mitVars, UNCHANGED beatAge
  PROVE  /\ P!M!TypeOK' /\ P!BeatsKept' /\ P!Climbing(ban)'
         /\ phase' # "down" /\ phase # "down" => P!Enforced'
         /\ phase' # "down" /\ phase # "down" => P!OneRun'
         /\ \A snap : P!Tells(snap) => P!Tells(snap)'
<1>1. P!M!TypeOK'
  BY DEF P!mitVars, P!IInv, P!TypeOK, P!M!TypeOK
<1>2. P!BeatsKept' /\ P!Climbing(ban)' /\ \A snap : P!Tells(snap) => P!Tells(snap)'
  BY DEF P!mitVars, P!IInv, P!BeatsKept, P!Beaten, P!Tells, P!OnLadders, P!Climbing
<1>3. phase' # "down" /\ phase # "down" => P!Enforced'
  BY DEF P!mitVars, P!IInv, P!Enforced, P!M!NoStrandedMitigation, P!M!ReportedIsEnforced
<1>4. phase' # "down" /\ phase # "down" => P!OneRun'
  BY DEF P!mitVars, P!IInv, P!OneRun
<1> QED
  BY <1>1, <1>2, <1>3, <1>4

\* The loop takes its snapshot.
LEMMA LoopFlushKeeps ==
  ASSUME P!PersistAssumption, P!IInv, P!LoopFlush
  PROVE  P!IInv'
<1>1. /\ phase = "up" /\ dirty' = FALSE /\ UNCHANGED P!mitVars
      /\ UNCHANGED <<phase, restarting, file, beatAge, stale, late>>
      /\ writing["stop"] = NoSnap
      /\ writing' = [writing EXCEPT !["loop"] = P!Snapshot]
  BY DEF P!LoopFlush, P!MutexFree, P!Writer
<1>2. PICK snap : snap = P!Snapshot
  OBVIOUS
<1>3. snap \in [P!M!Target -> P!M!BanType] /\ snap # NoSnap /\ P!Climbing(snap) /\ P!Tells(snap)
  BY <1>2, SnapshotTells
<1>4. writing'["loop"] = snap /\ writing'["stop"] = NoSnap
  BY <1>1, <1>2, BansTyped DEF P!Writer
<1>5. P!TypeOK'
  BY <1>1, <1>2, <1>3, TablesRest DEF P!IInv, P!TypeOK
<1>6. P!OneRun' /\ P!BeatsKept' /\ P!Enforced' /\ P!Tells(snap)'
  BY <1>1, <1>3, TablesRest
<1>7. P!OneWriter'
  BY <1>1, <1>4 DEF P!OneWriter
<1>8. P!OnLadders'
  BY <1>1, <1>3, <1>4, TablesRest DEF P!IInv, P!OnLadders, P!Climbing, P!Writer
<1>9. P!LastWord'
  BY <1>1, <1>3, <1>4, <1>6 DEF P!LastWord, P!Tells
<1> QED
  BY <1>5, <1>6, <1>7, <1>8, <1>9 DEF P!IInv

\* And so does the shutdown.
LEMMA DrainFlushKeeps ==
  ASSUME P!PersistAssumption, P!IInv, P!DrainFlush
  PROVE  P!IInv'
<1>1. /\ phase = "draining" /\ UNCHANGED P!mitVars
      /\ UNCHANGED <<phase, restarting, file, dirty, beatAge, stale, late>>
      /\ writing["loop"] = NoSnap
      /\ writing' = [writing EXCEPT !["stop"] = P!Snapshot]
  BY DEF P!DrainFlush, P!MutexFree, P!Writer
<1>2. PICK snap : snap = P!Snapshot
  OBVIOUS
<1>3. snap \in [P!M!Target -> P!M!BanType] /\ snap # NoSnap /\ P!Climbing(snap) /\ P!Tells(snap)
  BY <1>2, SnapshotTells
<1>4. writing'["stop"] = snap /\ writing'["loop"] = NoSnap
  BY <1>1, <1>2, BansTyped DEF P!Writer
<1>5. P!TypeOK'
  BY <1>1, <1>2, <1>3, TablesRest DEF P!IInv, P!TypeOK
<1>6. P!OneRun' /\ P!BeatsKept' /\ P!Enforced' /\ P!Tells(snap)'
  BY <1>1, <1>3, TablesRest
<1>7. P!OneWriter'
  BY <1>1, <1>4 DEF P!OneWriter
<1>8. P!OnLadders'
  BY <1>1, <1>3, <1>4, TablesRest DEF P!IInv, P!OnLadders, P!Climbing, P!Writer
<1>9. P!LastWord'
  BY <1>1, <1>3, <1>4, <1>6 DEF P!LastWord, P!Tells
<1> QED
  BY <1>5, <1>6, <1>7, <1>8, <1>9 DEF P!IInv

\* A save replaces the file by the snapshot in hand, or leaves it stale.
LEMMA SaveKeeps ==
  ASSUME P!PersistAssumption, P!IInv, NEW w \in P!Writer, P!Save(w)
  PROVE  P!IInv'
<1>1. /\ UNCHANGED P!mitVars /\ UNCHANGED <<restarting, dirty, beatAge, late>>
      /\ writing[w] # NoSnap /\ writing' = [writing EXCEPT ![w] = NoSnap]
      /\ (file' = writing[w] /\ stale' = FALSE) \/ (file' = file /\ stale' = TRUE)
      /\ phase' = IF w = "stop" THEN "drained" ELSE phase
  BY DEF P!Save
<1>2. PICK snap : snap = writing[w]
  OBVIOUS
<1>3. snap \in [P!M!Target -> P!M!BanType] /\ P!Climbing(snap)
  BY <1>1, <1>2, BansTyped DEF P!IInv, P!OnLadders
<1>4. /\ w \in {"loop", "stop"} /\ \A x \in P!Writer : writing'[x] = NoSnap
      /\ phase \in {"up", "draining"} /\ (w = "stop" => phase = "draining")
  BY <1>1, BansTyped DEF P!IInv, P!OneWriter, P!Writer
<1>5. P!TypeOK'
  BY <1>1, <1>2, <1>3, <1>4, TablesRest DEF P!IInv, P!TypeOK
<1>6. P!OneRun' /\ P!BeatsKept' /\ P!Enforced' /\ (P!Tells(snap) => P!Tells(snap)')
  BY <1>1, <1>4, TablesRest
<1>7. P!OneWriter'
  BY <1>4 DEF P!OneWriter, P!Writer
<1>8. P!OnLadders'
  BY <1>1, <1>2, <1>3, <1>4, TablesRest DEF P!IInv, P!OnLadders, P!Climbing
<1>9. P!LastWord'
  <2>1. CASE w = "loop"
    BY <1>1, <1>2, <1>4, <1>6, <2>1 DEF P!IInv, P!LastWord, P!Tells, P!Writer
  <2>2. CASE w = "stop"
    BY <1>1, <1>2, <1>4, <1>6, <2>2 DEF P!IInv, P!LastWord, P!Tells, P!Writer
  <2> QED
    BY <1>4, <2>1, <2>2
<1> QED
  BY <1>5, <1>6, <1>7, <1>8, <1>9 DEF P!IInv

\* A cancelled context ends no writer and no ban.
LEMMA CancelKeeps ==
  ASSUME P!PersistAssumption, P!IInv, NEW r \in BOOLEAN, P!Cancel(r)
  PROVE  P!IInv'
<1>1. /\ phase = "up" /\ phase' = "draining" /\ restarting' = r /\ UNCHANGED P!mitVars
      /\ UNCHANGED <<file, dirty, writing, beatAge, stale, late>>
  BY DEF P!Cancel
<1>2. writing["stop"] = NoSnap
  BY <1>1 DEF P!IInv, P!OneWriter
<1>3. P!TypeOK'
  BY <1>1, TablesRest DEF P!IInv, P!TypeOK
<1>4. P!OneRun' /\ P!BeatsKept' /\ P!Enforced'
  BY <1>1, TablesRest
<1>5. P!OneWriter' /\ P!LastWord'
  BY <1>1, <1>2 DEF P!IInv, P!OneWriter, P!LastWord
<1>6. P!OnLadders'
  BY <1>1, TablesRest DEF P!IInv, P!OnLadders, P!Climbing
<1> QED
  BY <1>3, <1>4, <1>5, <1>6 DEF P!IInv

\* No process: no ban, nothing in progress, and of the routes what the peers retain.
LEMMA DownKeeps ==
  ASSUME P!PersistAssumption, P!IInv, NEW e \in [P!M!Target -> P!M!EnvType], P!Down(e),
         restarting' \in BOOLEAN, late' \in BOOLEAN
  PROVE  P!IInv'
<1>1. /\ phase' = "down" /\ ban' = P!NoBans /\ env' = e
      /\ held' = [w \in Worker \cup {Sweeper} |-> NoConfig]
      /\ winAge' = Horizon /\ winCount' = 0 /\ beatAge' = Horizon
      /\ dirty' = FALSE /\ writing' = [w \in P!Writer |-> NoSnap]
      /\ cfg' = cfg /\ file' = file /\ stale' = stale
  BY DEF P!Down
<1>2. /\ Horizon \in Nat /\ \A t \in P!M!Target : ban'[t] = P!M!NoBan
      /\ P!M!NoBan \in P!M!BanType /\ P!M!NoBan.active = FALSE
  BY <1>1, NoBanIs, BansTyped DEF P!NoBans
<1>3. P!M!TypeOK'
  <2>1. cfg' \in Config /\ winAge' \in 0..Horizon /\ winCount' \in Nat
    BY <1>1, <1>2, BansTyped
  <2>2. held' \in [P!M!Caller -> Config \cup {NoConfig}]
    BY <1>1 DEF P!M!Caller
  <2>3. ban' \in [P!M!Target -> P!M!BanType] /\ env' \in [P!M!Target -> P!M!EnvType]
    BY <1>1, <1>2 DEF P!NoBans
  <2> QED
    BY <2>1, <2>2, <2>3 DEF P!M!TypeOK
<1>4. P!TypeOK'
  <2>1. beatAge' \in 0..Horizon
    BY <1>1, <1>2
  <2> QED
    BY <1>1, <1>3, <2>1 DEF P!IInv, P!TypeOK
<1>5. P!OneRun' /\ P!OneWriter'
  BY <1>1 DEF P!OneRun, P!OneWriter, P!Writer, P!M!Caller, P!NoBans
<1>6. P!BeatsKept' /\ P!Enforced'
  BY <1>1, <1>2 DEF P!BeatsKept, P!Beaten, P!Enforced
<1>7. P!OnLadders'
  BY <1>1, <1>2 DEF P!IInv, P!OnLadders, P!Climbing
<1>8. P!LastWord'
  BY <1>1 DEF P!LastWord, P!Writer
<1> QED
  BY <1>4, <1>5, <1>6, <1>7, <1>8 DEF P!IInv

\* Nothing up is nothing to lapse.
LEMMA NothingIs ==
  ASSUME P!PersistAssumption
  PROVE  P!M!NothingUp \in P!M!EnvType /\ L!Matches(P!M!NothingUp, "alert")
<1>1. 0 \in 0..Horizon
  BY DEF P!PersistAssumption, P!M!ConfigAssumption
<1> QED
  BY <1>1 DEF P!M!EnvType, P!M!NothingUp, L!Matches, L!Within, L!Up, L!Unicast

\* Kernel rules that outlive their process are nobody's: no ban is on them.
LEMMA LapsingIs ==
  ASSUME P!PersistAssumption, NEW e \in P!M!EnvType
  PROVE  P!Lapsing(e) \in P!M!EnvType /\ L!Matches(P!Lapsing(e), "alert")
<1>1. e.kernel \in 0..Horizon /\ P!M!Family = {"unicast", "flowspec", "dataplane"}
  BY DEF P!M!EnvType, P!M!Family
<1>2. PICK n \in P!M!EnvType : n = P!M!NothingUp
  BY NothingIs
<1> DEFINE l == IF e.kernel > 0 THEN {"dataplane"} ELSE {}
<1>3. P!Lapsing(e) = [n EXCEPT !.kernel = e.kernel, !.leaked = l] /\ l \in SUBSET P!M!Family
  BY <1>1, <1>2 DEF P!Lapsing
<1>4. n.route = "none" /\ n.flowspec = FALSE
  BY <1>2 DEF P!M!NothingUp
<1> HIDE DEF l
<1>5. P!Lapsing(e) \in P!M!EnvType
  BY <1>1, <1>2, <1>3 DEF P!M!EnvType
<1>6. /\ P!Lapsing(e).route = "none" /\ P!Lapsing(e).flowspec = FALSE /\ P!Lapsing(e).kernel = e.kernel
      /\ P!Lapsing(e).leaked = l
  BY <1>2, <1>3, <1>4 DEF P!M!EnvType
<1>7. L!Matches(P!Lapsing(e), "alert")
  BY <1>1, <1>6 DEF l, L!Matches, L!Within, L!Up, L!Unicast
<1> QED
  BY <1>5, <1>7

\* What a restart finds is nobody's.
LEMMA FoundIs ==
  ASSUME P!PersistAssumption, P!IInv, NEW e \in P!Found
  PROVE  e \in [P!M!Target -> P!M!EnvType] /\ \A t \in P!M!Target : L!Matches(e[t], "alert")
<1>1. CASE e = P!Flushed
  <2>1. \A t \in P!M!Target : P!Lapsing(env[t]) \in P!M!EnvType /\ L!Matches(P!Lapsing(env[t]), "alert")
    BY BansTyped, LapsingIs
  <2> QED
    BY <1>1, <2>1 DEF P!Flushed
<1>2. CASE e = [t \in P!M!Target |-> P!M!NothingUp]
  BY <1>2, NothingIs
<1> QED
  BY <1>1, <1>2 DEF P!Found

\* A process that leaves loses its tables, and not the file.
LEMMA ExitKeeps ==
  ASSUME P!PersistAssumption, P!IInv, P!Exit
  PROVE  P!IInv'
<1>1. P!Flushed \in [P!M!Target -> P!M!EnvType]
  BY FoundIs DEF P!Found
<1>2. PICK e \in [P!M!Target -> P!M!EnvType] : P!Down(e)
  BY <1>1, BansTyped DEF P!Exit
<1>3. restarting' \in BOOLEAN /\ late' \in BOOLEAN
  BY DEF P!Exit, P!IInv, P!TypeOK
<1> QED
  BY <1>2, <1>3, DownKeeps

\* So does one that crashes.
LEMMA CrashKeeps ==
  ASSUME P!PersistAssumption, P!IInv, P!Crash
  PROVE  P!IInv'
<1>1. P!Flushed \in [P!M!Target -> P!M!EnvType]
  BY FoundIs DEF P!Found
<1>2. PICK e \in [P!M!Target -> P!M!EnvType] : P!Down(e)
  BY <1>1, BansTyped DEF P!Crash
<1>3. restarting' \in BOOLEAN /\ late' \in BOOLEAN
  BY DEF P!Crash
<1> QED
  BY <1>2, <1>3, DownKeeps

\* A ban of the file comes back on the method it was on, with the live flag and nothing
\* else up, or not at all.
LEMMA RehydratedIs ==
  ASSUME P!PersistAssumption, P!IInv, NEW c \in Config, NEW t \in P!M!Target, file[t].active,
         NEW e \in P!M!EnvType, L!Matches(e, "alert"), NEW r \in P!Rehydrated(t, c, e)
  PROVE  /\ r.ban \in P!M!BanType /\ r.env \in P!M!EnvType
         /\ L!Good(L!Slot(r.ban, r.env), c.dryRun)
<1> DEFINE b == P!Reconciled(file[t], c)
           m == P!CurrentMethod(file[t])
           n == [b EXCEPT !.method = m]
<1>1. L!TargetAssumption /\ L!CallerAssumption /\ L!ConfigAssumption
  BY BansAssumption
<1>2. /\ file[t] \in P!M!BanType /\ file[t].step \in 1..Len(file[t].ladder)
      /\ c.dryRun \in BOOLEAN
  BY BansTyped
  DEF P!IInv, P!OnLadders, P!Climbing, P!PersistAssumption, P!M!ConfigAssumption,
      P!M!ConfigType
<1>3. m \in P!M!Method
  <2>1. file[t].ladder \in Seq(P!M!Rung) /\ file[t].method \in P!M!Method
    BY <1>2 DEF P!M!BanType
  <2>2. file[t].ladder[file[t].step] \in P!M!Rung
    BY <1>2, <2>1
  <2>3. file[t].ladder[file[t].step].action \in P!M!Method
    BY <2>2 DEF P!M!Rung
  <2> QED
    BY <2>1, <2>3 DEF P!CurrentMethod
<1>4. /\ b \in P!M!BanType /\ b.active = file[t].active /\ b.dryRun = c.dryRun
      /\ b.step = file[t].step /\ b.ladder = file[t].ladder
  BY <1>2 DEF P!Reconciled, P!M!BanType
<1> HIDE DEF b, m
<1>5. /\ n \in P!M!BanType /\ n.active = file[t].active /\ n.dryRun = c.dryRun
      /\ n.step = file[t].step /\ n.ladder = file[t].ladder /\ n.method = m
  BY <1>3, <1>4 DEF P!M!BanType
<1>6. PICK o \in P!M!AnnounceMethod(e, m, c, file[t].left) :
        r = IF o.ok THEN [ban |-> n, env |-> o.env] ELSE [ban |-> P!M!NoBan, env |-> o.env]
  BY DEF P!Rehydrated, b, m
<1> HIDE DEF n
<1>7. n \in L!BanType /\ n.active /\ n.dryRun = c.dryRun /\ L!OnLadder(n) /\ file[t].left \in -1..Horizon
  BY <1>2, <1>5, BansAre DEF L!OnLadder, P!M!BanType
<1>8. o \in L!AnnounceMethod(e, n.method, c, file[t].left) /\ e \in L!EnvType
  BY <1>5, <1>6, BansAre, BanAnnounceIs
<1>9. /\ o.ok \in BOOLEAN /\ o.env \in L!EnvType
      /\ o.ok => L!Good(L!Slot(n, o.env), c.dryRun)
      /\ ~o.ok => L!Good(L!Slot(L!NoBan, o.env), c.dryRun)
  BY <1>1, <1>7, <1>8, L!RestoredGood
<1>10. CASE o.ok
  BY <1>5, <1>6, <1>9, <1>10, BansAre
<1>11. CASE ~o.ok
  BY <1>6, <1>9, <1>11, BansAre, NoBanIs
<1> QED
  BY <1>10, <1>11

\* What a start restores is up, with the flag of the new configuration.
LEMMA StartKeeps ==
  ASSUME P!PersistAssumption, P!IInv, P!Start
  PROVE  P!IInv'
<1>1. /\ phase = "down" /\ cfg' \in Config
      /\ phase' = "up" /\ restarting' = FALSE /\ late' = FALSE /\ stale' = TRUE
      /\ UNCHANGED <<held, winAge, winCount, file, dirty, writing, beatAge>>
  BY DEF P!Start
<1>2. /\ dirty = FALSE /\ beatAge = Horizon /\ \A w \in P!M!Caller : held[w] = NoConfig
      /\ \A w \in P!Writer : writing[w] = NoSnap
  BY <1>1 DEF P!IInv, P!TypeOK, P!OneRun, P!OneWriter, P!Writer
<1>3. PICK c : c = cfg'
  OBVIOUS
<1>4. PICK e \in P!Found :
        \/ \E chosen \in SUBSET P!Eligible(c) :
           \E f :
             /\ \A t \in chosen : f[t] \in P!Rehydrated(t, c, e[t])
             /\ ban' = [t \in P!M!Target |-> IF t \in chosen THEN f[t].ban ELSE P!M!NoBan]
             /\ env' = [t \in P!M!Target |-> IF t \in chosen THEN f[t].env ELSE e[t]]
        \/ ban' = P!NoBans /\ env' = e
  <2>1. PICK e \in P!Found :
          \/ \E S1 \in SUBSET P!Eligible(cfg') :
             \E f \in [S1 -> UNION {P!Rehydrated(t, cfg', e[t]) : t \in S1}] :
               /\ \A t \in S1 : f[t] \in P!Rehydrated(t, cfg', e[t])
               /\ P!Tried(S1, {t \in S1 : f[t].ban.active}, cfg')
               /\ ban' = [t \in P!M!Target |-> IF t \in S1 THEN f[t].ban ELSE P!M!NoBan]
               /\ env' = [t \in P!M!Target |-> IF t \in S1 THEN f[t].env ELSE e[t]]
          \/ ban' = P!NoBans /\ env' = e
    BY DEF P!Start
  <2>2. CASE ban' = P!NoBans /\ env' = e
    BY <2>2
  <2>3. CASE ~(ban' = P!NoBans /\ env' = e)
    <3>1. PICK S1, f :
            /\ S1 \in SUBSET P!Eligible(cfg')
            /\ \A t \in S1 : f[t] \in P!Rehydrated(t, cfg', e[t])
            /\ ban' = [t \in P!M!Target |-> IF t \in S1 THEN f[t].ban ELSE P!M!NoBan]
            /\ env' = [t \in P!M!Target |-> IF t \in S1 THEN f[t].env ELSE e[t]]
      BY <2>1, <2>3, Zenon
    <3>2. S1 \in SUBSET P!Eligible(c) /\ \A t \in S1 : f[t] \in P!Rehydrated(t, c, e[t])
      BY <1>3, <3>1, Zenon
    <3> QED
      BY <3>1, <3>2, Zenon
  <2> QED
    BY <2>2, <2>3
<1>5. /\ e \in [P!M!Target -> P!M!EnvType] /\ P!M!NoBan \in P!M!BanType
       /\ \A t \in P!M!Target : L!Matches(e[t], "alert") /\ L!Good(L!Slot(P!M!NoBan, e[t]), c.dryRun)
  <2>1. e \in [P!M!Target -> P!M!EnvType] /\ \A t \in P!M!Target : L!Matches(e[t], "alert")
    BY FoundIs
  <2>2. L!NoBan = P!M!NoBan /\ P!M!NoBan \in P!M!BanType
    BY NoBanIs, BansAre
  <2>3. \A t \in P!M!Target : L!Good(L!Slot(L!NoBan, e[t]), c.dryRun)
    BY <2>1 DEF L!Good, L!Slot, L!Frozen, L!OnLadder, L!Enforcing, L!NoBan
  <2> QED
    BY <2>1, <2>2, <2>3
<1>6. /\ ban' \in [P!M!Target -> P!M!BanType] /\ env' \in [P!M!Target -> P!M!EnvType]
      /\ \A t \in P!M!Target : L!Good(L!Slot(ban'[t], env'[t]), c.dryRun)
  <2>1. CASE ban' = P!NoBans /\ env' = e
    BY <1>5, <2>1 DEF P!NoBans
  <2>2. ASSUME NEW chosen \in SUBSET P!Eligible(c), NEW f,
               \A t \in chosen : f[t] \in P!Rehydrated(t, c, e[t]),
               ban' = [t \in P!M!Target |-> IF t \in chosen THEN f[t].ban ELSE P!M!NoBan],
               env' = [t \in P!M!Target |-> IF t \in chosen THEN f[t].env ELSE e[t]]
        PROVE  /\ ban' \in [P!M!Target -> P!M!BanType] /\ env' \in [P!M!Target -> P!M!EnvType]
               /\ \A t \in P!M!Target : L!Good(L!Slot(ban'[t], env'[t]), c.dryRun)
    <3>1. \A t \in chosen : t \in P!M!Target /\ file[t].active
      BY DEF P!Eligible
    <3>2. \A t \in chosen : /\ f[t].ban \in P!M!BanType /\ f[t].env \in P!M!EnvType
                       /\ L!Good(L!Slot(f[t].ban, f[t].env), c.dryRun)
      BY <1>1, <1>3, <1>5, <2>2, <3>1, RehydratedIs
    <3> QED
      BY <1>5, <2>2, <3>2
  <2> QED
    BY <1>4, <2>1, <2>2
<1>7. P!M!TypeOK'
  BY <1>1, <1>6 DEF P!IInv, P!TypeOK, P!M!TypeOK
<1>8. P!TypeOK'
  BY <1>1, <1>7 DEF P!IInv, P!TypeOK
<1>9. L!Consistent(c.dryRun)'
  BY <1>3, <1>6, BansAre DEF L!Consistent
<1>10. P!Climbing(ban)' /\ P!Enforced'
  <2>1. PICK dry : dry = c.dryRun
    OBVIOUS
  <2>2. L!Consistent(dry)'
    BY <1>9, <2>1 DEF L!Consistent
  <2>3. /\ P!Climbing(ban)' /\ Flagged(dry)'
        /\ P!M!NoStrandedMitigation' /\ P!M!ReportedIsEnforced'
    BY <2>2, ConsistentIs
  <2> QED
    BY <1>3, <2>1, <2>3 DEF P!Enforced, Flagged
<1>11. P!OneRun' /\ P!OneWriter' /\ P!LastWord'
  BY <1>1, <1>2 DEF P!OneRun, P!OneWriter, P!LastWord, P!Writer
<1>12. P!BeatsKept'
  <2>1. Horizon \in Nat
    BY BansTyped
  <2> QED
    BY <1>1, <1>2, <2>1 DEF P!BeatsKept, P!Beaten
<1>13. P!OnLadders'
  BY <1>1, <1>10 DEF P!IInv, P!OnLadders, P!Climbing
<1> QED
  BY <1>8, <1>10, <1>11, <1>12, <1>13 DEF P!IInv

---------------------------------------------------------------------------
(* A second.                                                               *)

\* A second ages a ban and moves its deadline, and nothing else of it.
LEMMA AgedIs ==
  ASSUME P!PersistAssumption, NEW b \in P!M!BanType
  PROVE  /\ P!M!Aged(b) \in P!M!BanType
         /\ ~b.active => P!M!Aged(b) = b
         /\ P!M!Aged(b).active = b.active /\ P!M!Aged(b).dryRun = b.dryRun
         /\ P!M!Aged(b).manual = b.manual /\ P!M!Aged(b).dirs = b.dirs
         /\ P!M!Aged(b).method = b.method /\ P!M!Aged(b).step = b.step
         /\ P!M!Aged(b).ladder = b.ladder
         /\ b.active => /\ P!M!Aged(b).left = IF b.left >= 0 THEN b.left - 1 ELSE b.left
                        /\ P!M!Aged(b).age = P!M!Older(b.age)
                        /\ P!M!Aged(b).dpAge = P!M!Older(b.dpAge)
<1>1. L!TargetAssumption /\ L!CallerAssumption /\ L!ConfigAssumption
  BY BansAssumption
<1>2. P!M!NothingUp \in P!M!EnvType
  <2>1. Horizon \in Nat
    BY DEF P!PersistAssumption, P!M!ConfigAssumption
  <2> QED
    BY <2>1 DEF P!M!NothingUp, P!M!EnvType
<1>3. L!Aged(b) \in L!BanType
  BY <1>1, <1>2, BansAre, L!AgedTyped
<1>4. P!M!Aged(b) \in P!M!BanType
  BY <1>3, BansAre, BanClockIs
<1> QED
  BY <1>4 DEF P!M!Aged, P!M!BanType

\* A snapshot ages with the table.
LEMMA TellsOlder ==
  ASSUME P!PersistAssumption, P!IInv, NEW snap \in [P!M!Target -> P!M!BanType], P!Tells(snap),
         cfg' = cfg, beatAge' = P!M!Older(beatAge),
         ban' = [t \in P!M!Target |-> P!M!Aged(ban[t])]
  PROVE  P!Tells([t \in P!M!Target |-> P!M!Aged(snap[t])])'
<1>1. /\ Horizon \in Nat /\ cfg.ttl \in 1..Horizon /\ beatAge \in 0..Horizon
      /\ ban \in [P!M!Target -> P!M!BanType]
  BY BansTyped
<1>2. ASSUME NEW t \in P!M!Target
      PROVE  /\ P!Core(P!M!Aged(snap[t])) = P!Core(P!Saved(P!M!Aged(ban[t])))
             /\ P!M!Target = {t} =>
                  /\ P!Beaten(P!M!Aged(snap[t]))'
                  /\ P!M!Aged(ban[t]).active =>
                       2 * (P!M!Aged(ban[t]).left - P!M!Aged(snap[t]).left) <= cfg.ttl
  <2>1. PICK b \in P!M!BanType : b = ban[t]
    BY <1>1
  <2>2. PICK s \in P!M!BanType : s = snap[t]
    OBVIOUS
  <2>3. /\ P!Core(s) = P!Core(P!Saved(b))
        /\ P!M!Target = {t} => /\ P!Beaten(s)
                               /\ b.active => 2 * (b.left - s.left) <= cfg.ttl
    BY <2>1, <2>2 DEF P!Tells
  <2>4. Alike(s, P!Saved(b)) /\ P!Saved(b) \in P!M!BanType
    BY <2>3, CoreIs, SavedIs
  <2>5. s.active = b.active /\ s.left \in Int /\ b.left \in Int /\ s.left >= -1 /\ b.left >= -1
    <3>1. s.left \in -1..Horizon /\ b.left \in -1..Horizon
      BY DEF P!M!BanType
    <3>2. P!Saved(b).active = b.active
      BY SavedIs
    <3> QED
      BY <1>1, <2>4, <3>1, <3>2 DEF Alike
  <2>6. P!Core(P!M!Aged(s)) = P!Core(P!Saved(P!M!Aged(b)))
    <3>1. CASE b.active
      <4>1. /\ s.age = b.age /\ s.dpAge = Horizon /\ s.dirs = {} /\ s.dryRun = b.dryRun
            /\ s.manual = b.manual /\ s.method = b.method /\ s.step = b.step
            /\ s.ladder = b.ladder
        BY <2>4, <3>1, SavedIs DEF Alike
      <4>2. P!M!Older(Horizon) = Horizon
        BY <1>1 DEF P!M!Older
      <4>3. /\ P!M!Aged(s) \in P!M!BanType /\ P!M!Aged(b) \in P!M!BanType
            /\ P!M!Aged(s).active /\ P!M!Aged(b).active
        BY <2>5, <3>1, AgedIs
      <4>4. P!Saved(P!M!Aged(b)) \in P!M!BanType
        BY <4>3, SavedIs
      <4>5. Alike(P!M!Aged(s), P!Saved(P!M!Aged(b)))
        <5>1. /\ P!M!Aged(s).age = P!M!Older(b.age) /\ P!M!Aged(s).dpAge = Horizon
              /\ P!M!Aged(s).dirs = {} /\ P!M!Aged(s).dryRun = b.dryRun
              /\ P!M!Aged(s).manual = b.manual /\ P!M!Aged(s).method = b.method
              /\ P!M!Aged(s).step = b.step /\ P!M!Aged(s).ladder = b.ladder
              /\ P!M!Aged(s).active = b.active
          BY <2>5, <3>1, <4>1, <4>2, AgedIs
        <5>2. PICK a \in P!M!BanType : a = P!M!Aged(b)
          BY <4>3
        <5>3. /\ a.age = P!M!Older(b.age) /\ a.dryRun = b.dryRun
              /\ a.manual = b.manual /\ a.method = b.method
              /\ a.step = b.step /\ a.ladder = b.ladder /\ a.active = b.active
          BY <3>1, <5>2, AgedIs
        <5>4. Alike(P!M!Aged(s), P!Saved(a))
          BY <3>1, <5>1, <5>3, SavedIs DEF Alike
        <5> QED
          BY <5>2, <5>4
      <4> QED
        BY <4>3, <4>4, <4>5, CoreIs
    <3>2. CASE ~b.active
      BY <2>3, <2>5, <3>2, AgedIs
    <3> QED
      BY <3>1, <3>2
  <2>7. ASSUME P!M!Target = {t}  PROVE  P!Beaten(P!M!Aged(s))'
    <3>1. s.active /\ beatAge < Horizon => s.left >= cfg.ttl - beatAge
      BY <2>3, <2>7 DEF P!Beaten
    <3>2. P!M!Aged(s).active = s.active
      BY AgedIs
    <3>3. s.active => P!M!Aged(s).left = IF s.left >= 0 THEN s.left - 1 ELSE s.left
      BY AgedIs
    <3>4. CASE s.active /\ beatAge' < Horizon
      <4>1. beatAge < Horizon /\ beatAge' = beatAge + 1
        BY <1>1, <3>4 DEF P!M!Older
      <4>2. P!M!Aged(s).left >= cfg'.ttl - beatAge'
        BY <1>1, <2>5, <3>1, <3>3, <3>4, <4>1
      <4> QED
        BY <4>2 DEF P!Beaten
    <3> QED
      BY <3>2, <3>4 DEF P!Beaten
  <2>8. ASSUME P!M!Target = {t}, P!M!Aged(b).active
        PROVE  2 * (P!M!Aged(b).left - P!M!Aged(s).left) <= cfg.ttl
    <3>1. b.active /\ s.active
      BY <2>5, <2>8, AgedIs
    <3>2. 2 * (b.left - s.left) <= cfg.ttl
      BY <2>3, <2>8, <3>1
    <3>3. /\ P!M!Aged(b).left = IF b.left >= 0 THEN b.left - 1 ELSE b.left
          /\ P!M!Aged(s).left = IF s.left >= 0 THEN s.left - 1 ELSE s.left
      BY <3>1, AgedIs
    <3> QED
      BY <1>1, <2>5, <3>2, <3>3
  <2> QED
    BY <2>1, <2>2, <2>6, <2>7, <2>8
<1> QED
  BY <1>2 DEF P!Tells

\* What is on a current rung stays on it.
LEMMA ClimbingOlder ==
  ASSUME P!PersistAssumption, NEW snap \in [P!M!Target -> P!M!BanType], P!Climbing(snap)
  PROVE  /\ [t \in P!M!Target |-> P!M!Aged(snap[t])] \in [P!M!Target -> P!M!BanType]
         /\ P!Climbing([t \in P!M!Target |-> P!M!Aged(snap[t])])
<1>1. \A t \in P!M!Target : /\ P!M!Aged(snap[t]) \in P!M!BanType
                            /\ P!M!Aged(snap[t]).active = snap[t].active
                            /\ P!M!Aged(snap[t]).step = snap[t].step
                            /\ P!M!Aged(snap[t]).ladder = snap[t].ladder
  BY AgedIs
<1> QED
  BY <1>1 DEF P!Climbing

\* A second ages the table, the file and the snapshots alike.
LEMMA TickKeeps ==
  ASSUME P!PersistAssumption, P!IInv, P!Tick
  PROVE  P!IInv'
<1> DEFINE Old(snap) == [t \in P!M!Target |-> P!M!Aged(snap[t])]
<1>1. /\ ban' = Old(ban) /\ env' = [t \in P!M!Target |-> P!M!Lapse(env[t])]
      /\ UNCHANGED <<cfg, held, phase, restarting, dirty, stale, late>>
      /\ file' = Old(file) /\ beatAge' = P!M!Older(beatAge)
      /\ writing' = [w \in P!Writer |-> IF writing[w] = NoSnap THEN NoSnap ELSE Old(writing[w])]
  BY DEF P!Tick, P!M!Tick
<1>2. /\ Horizon \in Nat /\ cfg.ttl \in 1..Horizon /\ beatAge \in 0..Horizon
      /\ ban \in [P!M!Target -> P!M!BanType] /\ file \in [P!M!Target -> P!M!BanType]
      /\ writing \in [P!Writer -> [P!M!Target -> P!M!BanType] \cup {NoSnap}]
  BY BansTyped
<1>3. \A w \in P!Writer : writing[w] # NoSnap =>
        writing[w] \in [P!M!Target -> P!M!BanType] /\ P!Climbing(writing[w])
  BY <1>2 DEF P!IInv, P!OnLadders
<1>4. /\ Old(ban) \in [P!M!Target -> P!M!BanType] /\ P!Climbing(Old(ban))
      /\ Old(file) \in [P!M!Target -> P!M!BanType] /\ P!Climbing(Old(file))
  BY <1>2, ClimbingOlder DEF P!IInv, P!OnLadders
<1>5. \A w \in P!Writer : writing[w] # NoSnap =>
        Old(writing[w]) \in [P!M!Target -> P!M!BanType] /\ P!Climbing(Old(writing[w]))
  BY <1>3, ClimbingOlder
<1>6. \A snap \in [P!M!Target -> P!M!BanType] : P!Tells(snap) => P!Tells(Old(snap))'
  BY <1>1, TellsOlder
<1>7. \A w \in P!Writer : Old(writing[w]) \in [P!M!Target -> P!M!BanType] => Old(writing[w]) # NoSnap
  BY DEF P!PersistAssumption
<1> HIDE DEF Old
<1>8. \A w \in P!Writer : /\ writing[w] = NoSnap => writing'[w] = NoSnap
                          /\ writing[w] # NoSnap => writing'[w] = Old(writing[w]) /\ writing'[w] # NoSnap
  BY <1>1, <1>5, <1>7
<1>9. P!M!TypeOK'
  <2>1. L!TargetAssumption /\ L!CallerAssumption /\ L!ConfigAssumption
    BY BansAssumption
  <2>2. L!Next
    BY BanClockIs DEF P!Tick, L!Next
  <2>3. L!TypeOK'
    BY <2>1, <2>2, BansTyped, L!NextTyped
  <2> QED
    BY <2>3, BansAre
<1>10. P!TypeOK'
  <2>1. beatAge' \in 0..Horizon
    BY <1>1, <1>2 DEF P!M!Older
  <2>2. writing' \in [P!Writer -> [P!M!Target -> P!M!BanType] \cup {NoSnap}]
    BY <1>1, <1>5
  <2> QED
    BY <1>1, <1>4, <1>9, <2>1, <2>2 DEF P!IInv, P!TypeOK
<1>11. P!OneRun'
  <2>1. ASSUME phase = "down"  PROVE  ban' = P!NoBans /\ beatAge' = Horizon
    <3>1. ban = P!NoBans /\ beatAge = Horizon
      BY <2>1 DEF P!IInv, P!OneRun
    <3>2. P!M!Aged(P!M!NoBan) = P!M!NoBan
      BY NoBanIs, AgedIs
    <3>3. P!M!Older(Horizon) = Horizon
      BY <1>2 DEF P!M!Older
    <3> QED
      BY <1>1, <3>1, <3>2, <3>3 DEF P!NoBans, Old
  <2> QED
    BY <1>1, <2>1 DEF P!IInv, P!OneRun
<1>12. P!OneWriter'
  BY <1>1, <1>8 DEF P!IInv, P!OneWriter, P!Writer
<1>13. P!BeatsKept'
  <2> SUFFICES ASSUME NEW t \in P!M!Target, P!M!Target = {t}
               PROVE  P!Beaten(ban[t])'
    BY DEF P!BeatsKept
  <2>1. ban'[t] = P!M!Aged(ban[t]) /\ ban[t] \in P!M!BanType /\ ban[t].left \in Int
    BY <1>1, <1>2 DEF Old, P!M!BanType
  <2>2. ban[t].active /\ beatAge < Horizon => ban[t].left >= cfg.ttl - beatAge
    BY DEF P!IInv, P!BeatsKept, P!Beaten
  <2>3. /\ ban'[t].active = ban[t].active
        /\ ban[t].active => ban'[t].left = IF ban[t].left >= 0 THEN ban[t].left - 1 ELSE ban[t].left
    BY <2>1, AgedIs
  <2>4. CASE ban[t].active /\ beatAge' < Horizon
    <3>1. beatAge < Horizon /\ beatAge' = beatAge + 1
      BY <1>1, <1>2, <2>4 DEF P!M!Older
    <3>2. ban'[t].left >= cfg'.ttl - beatAge'
      BY <1>1, <1>2, <2>1, <2>2, <2>3, <2>4, <3>1
    <3> QED
      BY <3>2 DEF P!Beaten
  <2> QED
    BY <2>3, <2>4 DEF P!Beaten
<1>14. P!LastWord'
  <2>1. P!Tells(file) => P!Tells(file)'
    BY <1>1, <1>2, <1>6
  <2>2. ASSUME NEW w \in P!Writer, writing'[w] # NoSnap, P!Tells(writing[w])
        PROVE  P!Tells(writing[w])'
    BY <1>3, <1>6, <1>8, <2>2
  <2>3. "loop" \in P!Writer /\ "stop" \in P!Writer
    BY DEF P!Writer
  <2> QED
    BY <1>1, <1>8, <2>1, <2>2, <2>3 DEF P!IInv, P!LastWord
<1>15. P!OnLadders'
  BY <1>1, <1>4, <1>5, <1>8 DEF P!IInv, P!OnLadders, P!Climbing
<1>16. P!Enforced'
  <2>1. SUFFICES ASSUME phase # "down"  PROVE P!Enforced'
    BY <1>1 DEF P!Enforced
  <2>2. PICK dry : dry = cfg.dryRun
    OBVIOUS
  <2>3. L!TargetAssumption /\ L!CallerAssumption /\ L!ConfigAssumption
    BY BansAssumption
  <2>4. L!TypeOK /\ L!Consistent(dry) /\ L!Reads(dry) /\ L!Next
    BY <2>1, <2>2, BansTyped, BansAre, ConsistentIs, BanClockIs
    DEF P!IInv, P!Enforced, P!OnLadders, P!OneRun, Flagged, L!Reads, P!Tick, L!Next
  <2>5. L!Consistent(dry)'
    BY <2>3, <2>4, L!NextConsistent
  <2>6. /\ Flagged(dry)' /\ P!M!NoStrandedMitigation' /\ P!M!ReportedIsEnforced'
    BY <2>5, ConsistentIs
  <2> QED
    BY <1>1, <2>2, <2>6 DEF P!Enforced, Flagged
<1> QED
  BY <1>10, <1>11, <1>12, <1>13, <1>14, <1>15, <1>16 DEF P!IInv

---------------------------------------------------------------------------
(* The file.                                                               *)

\* Nothing is banned at the start, and the file says so.
LEMMA PersistInit ==
  ASSUME P!PersistAssumption, P!Init
  PROVE  P!IInv
<1>1. L!TargetAssumption /\ L!CallerAssumption /\ L!ConfigAssumption
  BY BansAssumption
<1>2. /\ P!M!Init /\ phase = "up" /\ restarting = FALSE /\ file = P!NoBans /\ dirty = FALSE
      /\ writing = [w \in P!Writer |-> NoSnap] /\ beatAge = Horizon
      /\ stale = FALSE /\ late = FALSE
  BY DEF P!Init
<1>3. P!M!TypeOK
  BY <1>1, <1>2, BansAre, BanClockIs, L!InitTyped
<1>4. PICK dry : dry = cfg.dryRun
  OBVIOUS
<1>5. L!Consistent(dry)
  BY <1>1, <1>2, BanClockIs, L!InitConsistent
<1>6. P!Climbing(ban) /\ P!Enforced
  BY <1>4, <1>5, ConsistentIs DEF P!Enforced, Flagged
<1>7. /\ P!M!NoBan \in P!M!BanType /\ P!M!NoBan.active = FALSE /\ Horizon \in Nat
      /\ ban = P!NoBans /\ \A w \in P!M!Caller : held[w] = NoConfig
  BY <1>2, NoBanIs DEF P!NoBans, P!M!Init, P!PersistAssumption, P!M!ConfigAssumption
<1>8. \A t \in P!M!Target : /\ file[t] = P!M!NoBan /\ ban[t] = P!M!NoBan
                            /\ ~ban[t].active /\ P!Saved(ban[t]) = P!M!NoBan
  BY <1>2, <1>7, SavedIs DEF P!NoBans
<1>9. P!TypeOK
  <2>1. file \in [P!M!Target -> P!M!BanType]
    BY <1>2, <1>7 DEF P!NoBans
  <2>2. writing \in [P!Writer -> [P!M!Target -> P!M!BanType] \cup {NoSnap}]
    BY <1>2
  <2>3. beatAge \in 0..Horizon
    BY <1>2, <1>7
  <2> QED
    BY <1>2, <1>3, <2>1, <2>2, <2>3 DEF P!TypeOK
<1>10. P!OneRun /\ P!OneWriter /\ P!BeatsKept
  BY <1>2, <1>7, <1>8 DEF P!OneRun, P!OneWriter, P!BeatsKept, P!Beaten, P!Writer
<1>11. P!Tells(file)
  BY <1>8 DEF P!Tells, P!Beaten
<1>12. P!LastWord
  BY <1>2, <1>11 DEF P!LastWord, P!Writer
<1>13. P!OnLadders
  BY <1>2, <1>6, <1>8 DEF P!OnLadders, P!Climbing, P!Writer
<1> QED
  BY <1>6, <1>9, <1>10, <1>12, <1>13 DEF P!IInv

\* Every step of the ban table and of its file keeps the invariant.
LEMMA PersistStep ==
  ASSUME P!PersistAssumption, P!IInv, [P!Next]_P!vars
  PROVE  P!IInv'
<1>1. ASSUME NEW w \in Worker \cup {Sweeper}, P!Handle(w)  PROVE  P!IInv'
  BY <1>1, HandleKeeps
<1>2. ASSUME NEW w \in Worker, P!Ongoing(w)  PROVE  P!IInv'
  BY <1>2, OngoingKeeps
<1>3. CASE P!LoopFlush
  BY <1>3, LoopFlushKeeps
<1>4. CASE P!DrainFlush
  BY <1>4, DrainFlushKeeps
<1>5. ASSUME NEW w \in P!Writer, P!Save(w)  PROVE  P!IInv'
  BY <1>5, SaveKeeps
<1>6. ASSUME NEW r \in BOOLEAN, P!Cancel(r)  PROVE  P!IInv'
  BY <1>6, CancelKeeps
<1>7. CASE P!Exit
  BY <1>7, ExitKeeps
<1>8. CASE P!Crash
  BY <1>8, CrashKeeps
<1>9. CASE P!Start
  BY <1>9, StartKeeps
<1>10. CASE P!Tick
  BY <1>10, TickKeeps
<1>11. CASE UNCHANGED P!vars
  <2>1. /\ UNCHANGED P!mitVars /\ UNCHANGED beatAge /\ UNCHANGED P!fileVars
    BY <1>11 DEF P!vars, P!fileVars
  <2>2. P!M!TypeOK' /\ P!BeatsKept' /\ P!Climbing(ban)' /\ \A snap : P!Tells(snap) => P!Tells(snap)'
    BY <2>1, TablesRest
  <2>3. UNCHANGED <<phase, restarting, file, dirty, writing, beatAge, stale, late>>
    BY <2>1 DEF P!fileVars
  <2>4. P!Enforced' /\ P!OneRun'
    <3>1. CASE phase # "down"
      BY <2>1, <2>3, <3>1, TablesRest
    <3>2. CASE phase = "down"
      BY <2>1, <2>3, <3>2 DEF P!mitVars, P!IInv, P!OneRun, P!Enforced, P!NoBans
    <3> QED
      BY <3>1, <3>2
  <2>5. P!TypeOK' /\ P!OneWriter' /\ P!OnLadders'
    BY <2>2, <2>3 DEF P!IInv, P!TypeOK, P!OneWriter, P!OnLadders, P!Climbing
  <2>6. P!LastWord'
    BY <2>2, <2>3 DEF P!IInv, P!LastWord
  <2> QED
    BY <2>2, <2>4, <2>5, <2>6 DEF P!IInv
<1> QED
  BY <1>1, <1>2, <1>3, <1>4, <1>5, <1>6, <1>7, <1>8, <1>9, <1>10, <1>11 DEF P!Next

\* The file is as good as the last word, and what is up in a running process is what a
\* ban is on.
LEMMA PersistHeld ==
  ASSUME P!PersistAssumption, P!IInv
  PROVE  P!TypeOK /\ P!FileCurrent /\ P!RestartStrandsNothing
<1>1. ASSUME P!Settled  PROVE  P!Tells(file)
  <2>1. CASE phase = "up" /\ ~dirty
    BY <1>1, <2>1 DEF P!Settled, P!Writer, P!IInv, P!LastWord
  <2>2. CASE phase = "drained" /\ ~late
    BY <1>1, <2>2 DEF P!Settled, P!IInv, P!LastWord
  <2> QED
    BY <1>1, <2>1, <2>2 DEF P!Settled
<1>2. P!FileCurrent
  BY <1>1 DEF P!FileCurrent, P!Tells, P!DeadlineAhead
<1> QED
  BY <1>2 DEF P!IInv, P!RestartStrandsNothing, P!Enforced

---------------------------------------------------------------------------
(* Windows: arithmetic of the ring.                                        *)

\* A product of a positive number is no smaller than it.
LEMMA TimesPositive ==
  ASSUME NEW n \in Nat \ {0}, NEW k \in Int, k >= 1
  PROVE  n * k >= n /\ n * k \in Int
<1>1. n * k = n + n * (k - 1)
  OBVIOUS
<1>2. k - 1 >= 0 /\ n >= 0 => n * (k - 1) >= 0
  OBVIOUS
<1> QED
  BY <1>1, <1>2

\* A number by a divisor and what is left.
LEMMA Divided ==
  ASSUME NEW n \in Nat \ {0}, NEW a \in Nat
  PROVE  a = n * (a \div n) + (a % n) /\ a \div n \in Int /\ a % n \in 0..(n - 1)
  OBVIOUS

\* Numbers less than a divisor apart leave the same only if they are the same.
LEMMA ModApart ==
  ASSUME NEW n \in Nat \ {0}, NEW a \in Nat, NEW b \in Nat, a % n = b % n, a - b < n, b - a < n
  PROVE  a = b
<1> DEFINE p == a \div n
           q == b \div n
<1>1. a = n * p + (a % n) /\ b = n * q + (b % n) /\ p \in Int /\ q \in Int /\ a % n \in Int
  BY Divided
<1> HIDE DEF p, q
<1>2. a - b = n * (p - q) /\ b - a = n * (q - p)
  BY <1>1
<1>3. ~(p - q >= 1)
  <2> SUFFICES ASSUME p - q >= 1  PROVE FALSE
    OBVIOUS
  <2>1. n * (p - q) >= n
    BY <1>1, TimesPositive
  <2> QED
    BY <1>2, <2>1
<1>4. ~(q - p >= 1)
  <2> SUFFICES ASSUME q - p >= 1  PROVE FALSE
    OBVIOUS
  <2>1. n * (q - p) >= n
    BY <1>1, TimesPositive
  <2> QED
    BY <1>2, <2>1
<1>5. p = q
  BY <1>1, <1>3, <1>4
<1> QED
  BY <1>1, <1>5

\* Half of a number, rounded down.
LEMMA Halved ==
  ASSUME NEW x \in Int
  PROVE  x \div 2 \in Int /\ 2 * (x \div 2) <= x /\ x <= 2 * (x \div 2) + 1
  OBVIOUS

---------------------------------------------------------------------------
(* Windows: the counts.                                                    *)

\* What the ring is measured by.
LEMMA RingFacts ==
  /\ Window \in Nat \ {0} /\ Lag \in 0..Window /\ LastSecond \in Nat /\ LastSecond >= Window
  /\ W!RingSize = Window + 1 /\ W!RingSize \in Nat \ {0} /\ W!Second = 0..LastSecond /\ W!Never = -1
  /\ NoFlow \notin [host : Address, epoch : W!Second, count : Nat] /\ Volume \subseteq Nat
  /\ \A s \in W!Second : s % W!RingSize \in 0..Window
<1>1. /\ Window \in Nat \ {0} /\ Lag \in 0..Window /\ LastSecond \in Nat /\ LastSecond >= Window
      /\ W!RingSize = Window + 1 /\ W!Second = 0..LastSecond /\ W!Never = -1
      /\ NoFlow \notin [host : Address, epoch : W!Second, count : Nat] /\ Volume \subseteq Nat
  BY BrainAssumption DEF BrainAssumption, W!WindowsAssumption, W!RingSize, W!Second, W!Never
<1>2. ASSUME NEW s \in W!Second  PROVE s % W!RingSize \in 0..Window
  <2>1. s \in Nat /\ Window + 1 \in Nat \ {0}
    BY <1>1
  <2>2. s % (Window + 1) \in 0..((Window + 1) - 1)
    BY <2>1, Divided
  <2>3. (Window + 1) - 1 = Window
    BY <1>1
  <2> QED
    BY <1>1, <2>2, <2>3
<1> QED
  BY <1>1, <1>2

\* Two seconds of one window have buckets of their own.
LEMMA RingApart ==
  ASSUME NEW s \in W!Second, NEW t \in W!Second, s % W!RingSize = t % W!RingSize, s - t <= Window, t - s <= Window
  PROVE  s = t
<1>1. s \in Nat /\ t \in Nat /\ W!RingSize \in Nat \ {0} /\ s - t < W!RingSize /\ t - s < W!RingSize
  BY RingFacts
<1> QED
  BY <1>1, ModApart

\* What is said of the counts.
Flow == [host : Address, epoch : W!Second, count : Nat]
Bucket == [epoch : W!Second \cup {-1}, count : Nat]
CountsTyped ==
  /\ clock \in W!Second /\ pending \in [Ingest -> {NoFlow} \cup Flow]
  /\ tracked \subseteq Address
  /\ ring \in [Address -> [0..Window -> Bucket]]
  /\ seen \in [Address -> W!Second \cup {-1}]
  /\ truth \in [Address -> [W!Second -> Nat]]
RingInTime(h) ==
  \A i \in 0..Window :
    ring[h][i].epoch = -1 \/ (ring[h][i].epoch <= clock /\ ring[h][i].epoch % W!RingSize = i)
TruthInTime(h) ==
  /\ seen[h] <= clock
  /\ \A s \in W!Second : s > clock => truth[h][s] = 0
  /\ \A s \in W!Second : s - Lag > seen[h] /\ s >= clock - Window => truth[h][s] = 0
Measures(h) ==
  /\ \A s \in W!Second : s >= clock - Window => W!Bucket(h, s) = truth[h][s]
  /\ \A s \in W!Second : s >= clock - 1 - Window => W!Bucket(h, s) <= truth[h][s]
CountsKept ==
  /\ CountsTyped /\ W!FlowInTime
  /\ \A h \in Address : /\ RingInTime(h) /\ TruthInTime(h) /\ Measures(h)
                        /\ h \notin tracked => ring[h] = W!EmptyRing

\* A bucket is of the second it says.
LEMMA BucketIs ==
  ASSUME CountsTyped, NEW h \in Address, NEW s \in W!Second
  PROVE  /\ s % W!RingSize \in 0..Window /\ ring[h][s % W!RingSize] \in Bucket
         /\ W!Bucket(h, s) = IF ring[h][s % W!RingSize].epoch = s THEN ring[h][s % W!RingSize].count ELSE 0
         /\ W!Bucket(h, s) \in Nat
<1>1. s % W!RingSize \in 0..Window
  BY RingFacts
<1>2. ring[h][s % W!RingSize] \in Bucket
  BY <1>1 DEF CountsTyped
<1>3. W!Bucket(h, s) = IF ring[h][s % W!RingSize].epoch = s THEN ring[h][s % W!RingSize].count ELSE 0
  BY DEF W!Bucket
<1> QED
  BY <1>1, <1>2, <1>3 DEF Bucket

\* The counts are numbers.
LEMMA CountsNatural ==
  ASSUME CountsTyped, NEW h \in Address
  PROVE  /\ clock \in Nat /\ clock \in 0..LastSecond /\ Window \in Nat /\ LastSecond \in Nat /\ seen[h] \in Int
         /\ \A s \in W!Second : s \in Nat /\ truth[h][s] \in Nat /\ W!Bucket(h, s) \in Nat
<1>1. W!Second = 0..LastSecond /\ Window \in Nat /\ LastSecond \in Nat
  BY RingFacts
<1>2. clock \in W!Second /\ seen[h] \in W!Second \cup {-1} /\ truth[h] \in [W!Second -> Nat]
  BY DEF CountsTyped
<1>3. \A s \in W!Second : truth[h][s] \in Nat
  BY <1>2
<1>4. \A s \in W!Second : W!Bucket(h, s) \in Nat
  BY BucketIs
<1>5. \A s \in W!Second : s \in Nat
  BY <1>1
<1>6. clock \in Nat /\ seen[h] \in Int
  BY <1>1, <1>2
<1> QED
  BY <1>1, <1>2, <1>3, <1>4, <1>5, <1>6

\* A host without a ring has counted nothing.
LEMMA EmptyBucket ==
  ASSUME CountsTyped, NEW h \in Address, NEW s \in W!Second, ring[h] = W!EmptyRing
  PROVE  W!Bucket(h, s) = 0
<1>1. s % W!RingSize \in 0..Window /\ W!Bucket(h, s) = IF ring[h][s % W!RingSize].epoch = s THEN ring[h][s % W!RingSize].count ELSE 0
  BY BucketIs
<1>2. ring[h][s % W!RingSize].count = 0
  BY <1>1 DEF W!EmptyRing
<1> QED
  BY <1>1, <1>2

\* Of a second to come no bucket says anything.
LEMMA EarlyBucket ==
  ASSUME CountsTyped, NEW h \in Address, RingInTime(h), NEW s \in W!Second, s > clock
  PROVE  W!Bucket(h, s) = 0
<1>1. s % W!RingSize \in 0..Window /\ W!Bucket(h, s) = IF ring[h][s % W!RingSize].epoch = s THEN ring[h][s % W!RingSize].count ELSE 0
  BY BucketIs
<1>2. s \in Nat /\ clock \in Nat
  BY RingFacts DEF CountsTyped
<1> QED
  BY <1>1, <1>2 DEF RingInTime

\* A bucket, and what is typed, is what the parts' variables say.
LEMMA CountsUnchanged ==
  ASSUME CountsKept, clock' = clock, tracked' = tracked, ring' = ring, seen' = seen, truth' = truth
  PROVE  /\ (pending' = pending => CountsKept')
         /\ (pending' \in [Ingest -> {NoFlow} \cup Flow] /\ W!FlowInTime' => CountsKept')
<1>1. \A h \in Address : (RingInTime(h) <=> RingInTime(h)') /\ (TruthInTime(h) <=> TruthInTime(h)') /\ (Measures(h) <=> Measures(h)')
  BY DEF RingInTime, TruthInTime, Measures, W!Bucket
<1>2. pending' = pending => W!FlowInTime' /\ pending' \in [Ingest -> {NoFlow} \cup Flow]
  BY DEF CountsKept, CountsTyped, W!FlowInTime
<1>3. pending' \in [Ingest -> {NoFlow} \cup Flow] => CountsTyped'
  BY DEF CountsKept, CountsTyped
<1> QED
  BY <1>1, <1>2, <1>3 DEF CountsKept

\* A flow is stamped with the running second.
LEMMA FlowStamped ==
  ASSUME CountsKept, NEW w \in Ingest, NEW h \in Address, NEW v \in Volume, W!Process(w, h, v)
  PROVE  CountsKept'
<1> PICK f : f = [host |-> h, epoch |-> clock, count |-> v]
  OBVIOUS
<1>1. /\ pending' = [pending EXCEPT ![w] = f]
      /\ clock' = clock /\ tracked' = tracked /\ ring' = ring /\ seen' = seen /\ truth' = truth
  BY DEF W!Process
<1>2. clock \in W!Second /\ clock \in Nat /\ v \in Nat /\ Lag \in Nat
  BY RingFacts DEF CountsKept, CountsTyped
<1>3. f \in Flow /\ f.epoch = clock
  BY <1>2 DEF Flow
<1>4. pending' \in [Ingest -> {NoFlow} \cup Flow] /\ \A x \in Ingest : pending'[x] = IF x = w THEN f ELSE pending[x]
  BY <1>1, <1>3 DEF CountsKept, CountsTyped
<1>5. W!FlowInTime'
  BY <1>1, <1>2, <1>3, <1>4 DEF CountsKept, W!FlowInTime
<1> QED
  BY <1>1, <1>4, <1>5, CountsUnchanged

\* A flow is counted in the bucket of its second, which is of no later one.
LEMMA FlowCounted ==
  ASSUME CountsKept, NEW w \in Ingest, W!Record(w)
  PROVE  CountsKept'
<1> PICK f, h, i : f = pending[w] /\ h = f.host /\ i = f.epoch % W!RingSize
  OBVIOUS
<1>1. /\ f # NoFlow /\ tracked' = tracked \cup {h}
      /\ ring' = [ring EXCEPT ![h] = [(IF h \in tracked THEN ring[h] ELSE W!EmptyRing) EXCEPT ![i] = W!Counted(@, f)]]
      /\ seen' = [seen EXCEPT ![h] = f.epoch]
      /\ truth' = [truth EXCEPT ![h][f.epoch] = @ + f.count]
      /\ pending' = [pending EXCEPT ![w] = NoFlow] /\ clock' = clock
  BY DEF W!Record
<1>2. CountsTyped /\ f \in Flow /\ h \in Address /\ f.epoch \in W!Second /\ f.count \in Nat
  BY <1>1 DEF CountsKept, CountsTyped, Flow
<1>3. /\ clock \in Nat /\ f.epoch \in Nat /\ Window \in Nat /\ Lag \in Nat
      /\ f.epoch <= clock /\ clock - f.epoch <= Lag /\ clock - f.epoch <= Window
      /\ i \in 0..Window
  <2>1. f.epoch <= clock /\ clock - f.epoch <= Lag
    BY <1>1 DEF CountsKept, W!FlowInTime
  <2> QED
    BY <1>2, <2>1, RingFacts DEF CountsTyped
<1>4. RingInTime(h) /\ TruthInTime(h) /\ Measures(h)
  BY <1>2 DEF CountsKept
<1>5. ring' = [ring EXCEPT ![h] = [ring[h] EXCEPT ![i] = W!Counted(ring[h][i], f)]]
  <2>1. (IF h \in tracked THEN ring[h] ELSE W!EmptyRing) = ring[h]
    BY <1>2 DEF CountsKept
  <2> QED
    BY <1>1, <2>1
<1>6. /\ \A g \in Address : g # h => ring'[g] = ring[g] /\ seen'[g] = seen[g] /\ truth'[g] = truth[g]
      /\ ring'[h] \in [0..Window -> Bucket] /\ \A j \in 0..Window : j # i => ring'[h][j] = ring[h][j]
      /\ ring'[h][i] = [epoch |-> f.epoch, count |-> IF ring[h][i].epoch = f.epoch THEN ring[h][i].count + f.count ELSE f.count]
      /\ seen'[h] = f.epoch
      /\ truth'[h][f.epoch] = truth[h][f.epoch] + f.count
      /\ \A s \in W!Second : s # f.epoch => truth'[h][s] = truth[h][s]
  <2>1. ring[h] \in [0..Window -> Bucket] /\ ring[h][i] \in Bucket
    BY <1>2, <1>3 DEF CountsTyped
  <2>2. W!Counted(ring[h][i], f) = [epoch |-> f.epoch, count |-> IF ring[h][i].epoch = f.epoch THEN ring[h][i].count + f.count ELSE f.count]
    BY DEF W!Counted
  <2>3. W!Counted(ring[h][i], f) \in Bucket
    BY <1>2, <2>1, <2>2 DEF Bucket
  <2>4. ring'[h] = [ring[h] EXCEPT ![i] = W!Counted(ring[h][i], f)]
    BY <1>2, <1>5 DEF CountsTyped
  <2>5. \A g \in Address : g # h => ring'[g] = ring[g]
    BY <1>2, <1>5 DEF CountsTyped
  <2>6. ring'[h] \in [0..Window -> Bucket] /\ (\A j \in 0..Window : j # i => ring'[h][j] = ring[h][j])
        /\ ring'[h][i] = W!Counted(ring[h][i], f)
    BY <1>3, <2>1, <2>3, <2>4
  <2>7. seen'[h] = f.epoch /\ \A g \in Address : g # h => seen'[g] = seen[g] /\ truth'[g] = truth[g]
    BY <1>1, <1>2 DEF CountsTyped
  <2>8. truth'[h] = [truth[h] EXCEPT ![f.epoch] = @ + f.count] /\ truth[h] \in [W!Second -> Nat]
    BY <1>1, <1>2 DEF CountsTyped
  <2>9. truth'[h][f.epoch] = truth[h][f.epoch] + f.count /\ \A s \in W!Second : s # f.epoch => truth'[h][s] = truth[h][s]
    BY <1>2, <2>8
  <2> QED
    BY <2>2, <2>5, <2>6, <2>7, <2>9
<1>7. CountsTyped'
  <2>1. ring' \in [Address -> [0..Window -> Bucket]]
    BY <1>2, <1>5, <1>6 DEF CountsTyped
  <2>2. seen' \in [Address -> W!Second \cup {-1}]
    BY <1>1, <1>2 DEF CountsTyped
  <2>3. truth' \in [Address -> [W!Second -> Nat]]
    BY <1>1, <1>2 DEF CountsTyped
  <2> QED
    BY <1>1, <1>2, <2>1, <2>2, <2>3 DEF CountsTyped
<1>8. RingInTime(h)'
  <2> SUFFICES ASSUME NEW j \in 0..Window
               PROVE  ring'[h][j].epoch = -1 \/ (ring'[h][j].epoch <= clock /\ ring'[h][j].epoch % W!RingSize = j)
    BY <1>1 DEF RingInTime
  <2>1. CASE j = i
    <3>1. ring'[h][j].epoch = f.epoch
      BY <1>6, <2>1
    <3> QED
      BY <1>3, <2>1, <3>1
  <2>2. CASE j # i
    BY <1>4, <1>6, <2>2 DEF RingInTime
  <2> QED
    BY <2>1, <2>2
<1>9. TruthInTime(h)'
  <2>1. seen[h] \in Int /\ \A s \in W!Second : s \in Nat
    BY <1>2, CountsNatural
  <2>2. \A s \in W!Second : s - Lag > f.epoch => s > clock /\ s # f.epoch
    BY <1>3, <2>1
  <2> QED
    BY <1>1, <1>3, <1>4, <1>6, <2>1, <2>2 DEF TruthInTime
<1>10. ASSUME NEW s \in W!Second
       PROVE  /\ s >= clock - Window => W!Bucket(h, s)' = truth'[h][s]
              /\ s >= clock - 1 - Window => W!Bucket(h, s)' <= truth'[h][s]
  <2> DEFINE j == s % W!RingSize
  <2>1. /\ j \in 0..Window /\ ring[h][j] \in Bucket
        /\ W!Bucket(h, s) = IF ring[h][j].epoch = s THEN ring[h][j].count ELSE 0
        /\ W!Bucket(h, s) \in Nat /\ s \in Nat /\ truth[h][s] \in Nat
    BY <1>2, BucketIs, CountsNatural
  <2>2. W!Bucket(h, s)' = IF ring'[h][j].epoch = s THEN ring'[h][j].count ELSE 0
    BY DEF W!Bucket
  <2>3. /\ s >= clock - Window => W!Bucket(h, s) = truth[h][s]
        /\ s >= clock - 1 - Window => W!Bucket(h, s) <= truth[h][s]
        /\ s > clock => truth[h][s] = 0
    BY <1>4 DEF Measures, TruthInTime
  <2>4. CASE s = f.epoch
    <3>1. j = i
      BY <2>4
    <3>2. W!Bucket(h, s)' = W!Bucket(h, s) + f.count
      BY <1>2, <1>6, <2>1, <2>2, <2>4, <3>1 DEF Bucket
    <3>3. truth'[h][s] = truth[h][s] + f.count
      BY <1>6, <2>4
    <3> QED
      BY <1>2, <1>3, <2>1, <2>3, <3>2, <3>3
  <2>5. CASE s # f.epoch /\ j # i
    <3>1. W!Bucket(h, s)' = W!Bucket(h, s) /\ truth'[h][s] = truth[h][s]
      BY <1>6, <2>1, <2>2, <2>5
    <3> QED
      BY <2>3, <3>1
  <2>6. CASE s # f.epoch /\ j = i
    <3>1. W!Bucket(h, s)' = 0 /\ truth'[h][s] = truth[h][s]
      BY <1>6, <2>2, <2>6
    <3>2. s >= clock - Window => s > clock
      <4> SUFFICES ASSUME s >= clock - Window, s <= clock  PROVE FALSE
        BY <1>3, <2>1
      <4>1. s - f.epoch <= Window /\ f.epoch - s <= Window
        BY <1>3, <2>1
      <4> QED
        BY <1>2, <2>6, <4>1, RingApart
    <3> QED
      BY <2>1, <2>3, <3>1, <3>2
  <2> QED
    BY <2>4, <2>5, <2>6
<1>11. Measures(h)'
  <2> HIDE DEF Measures
  <2>1. Measures(h)' <=> /\ \A s \in W!Second : s >= clock - Window => W!Bucket(h, s)' = truth'[h][s]
                         /\ \A s \in W!Second : s >= clock - 1 - Window => W!Bucket(h, s)' <= truth'[h][s]
    BY <1>1 DEF Measures, W!Bucket
  <2> QED
    BY <1>10, <2>1
<1>12. ASSUME NEW g \in Address, g # h
       PROVE  RingInTime(g)' /\ TruthInTime(g)' /\ Measures(g)' /\ (g \notin tracked' => ring'[g] = W!EmptyRing)
  <2>1. RingInTime(g) /\ TruthInTime(g) /\ Measures(g) /\ (g \notin tracked => ring[g] = W!EmptyRing)
    BY DEF CountsKept
  <2>2. ring'[g] = ring[g] /\ seen'[g] = seen[g] /\ truth'[g] = truth[g]
    BY <1>6, <1>12
  <2> QED
    BY <1>1, <1>12, <2>1, <2>2 DEF RingInTime, TruthInTime, Measures, W!Bucket
<1>13. W!FlowInTime'
  BY <1>1, <1>2 DEF CountsKept, CountsTyped, W!FlowInTime
<1>14. h \in tracked'
  BY <1>1
<1> QED
  BY <1>7, <1>8, <1>9, <1>11, <1>12, <1>13, <1>14 DEF CountsKept, W!EmptyRing

\* The second turns: what leaves the window may be forgotten, and the new second is empty.
LEMMA SecondTurned ==
  ASSUME CountsKept, W!Turn
  PROVE  CountsKept'
<1>1. /\ clock < LastSecond /\ clock' = clock + 1
      /\ \A w \in Ingest : pending[w] # NoFlow => clock + 1 - pending[w].epoch <= Lag
      /\ truth' = [h \in Address |-> [s \in W!Second |-> IF s >= clock - Window THEN truth[h][s] ELSE 0]]
      /\ pending' = pending /\ tracked' = tracked /\ ring' = ring /\ seen' = seen
  BY DEF W!Turn
<1>2. CountsTyped /\ clock \in 0..LastSecond /\ LastSecond \in Nat /\ Window \in Nat
  BY RingFacts DEF CountsKept, CountsTyped
<1>3. \A h \in Address, s \in W!Second : truth'[h][s] = IF s >= clock - Window THEN truth[h][s] ELSE 0
  BY <1>1
<1>4. CountsTyped'
  <2>1. truth' \in [Address -> [W!Second -> Nat]]
    BY <1>1, <1>2 DEF CountsTyped
  <2> QED
    BY <1>1, <1>2, <2>1, RingFacts DEF CountsTyped
<1>5. W!FlowInTime'
  <2>1. \A w \in Ingest : pending[w] # NoFlow => pending[w].epoch \in Nat
    BY <1>2, RingFacts DEF CountsTyped, Flow
  <2>2. clock \in Nat /\ Lag \in Nat
    BY <1>2, RingFacts
  <2>3. \A w \in Ingest : pending[w] # NoFlow => pending[w].epoch <= clock
    BY DEF CountsKept, W!FlowInTime
  <2> QED
    BY <1>1, <2>1, <2>2, <2>3 DEF W!FlowInTime
<1>6. ASSUME NEW h \in Address
      PROVE  RingInTime(h)' /\ TruthInTime(h)' /\ Measures(h)' /\ (h \notin tracked' => ring'[h] = W!EmptyRing)
  <2>1. RingInTime(h) /\ TruthInTime(h) /\ Measures(h) /\ (h \notin tracked => ring[h] = W!EmptyRing)
    BY DEF CountsKept
  <2>2. RingInTime(h)'
    <3>1. \A i \in 0..Window : ring[h][i].epoch \in W!Second \cup {-1}
      BY <1>2 DEF CountsTyped, Bucket
    <3>2. \A i \in 0..Window : ring[h][i].epoch \in Int
      BY <1>2, <3>1, CountsNatural
    <3>3. \A i \in 0..Window : ring[h][i].epoch <= clock => ring[h][i].epoch <= clock + 1
      BY <1>2, <3>2
    <3> QED
      BY <1>1, <2>1, <3>3 DEF RingInTime
  <2>3. TruthInTime(h)'
    <3>1. Lag \in Nat /\ seen[h] \in Int /\ \A s \in W!Second : s \in Nat /\ truth[h][s] \in Nat
      BY <1>2, RingFacts DEF CountsTyped
    <3> QED
      BY <1>1, <1>2, <1>3, <2>1, <3>1 DEF TruthInTime
  <2>4. Measures(h)'
    <3>1. \A s \in W!Second : W!Bucket(h, s)' = W!Bucket(h, s)
      BY <1>1 DEF W!Bucket
    <3>4. \A s \in W!Second : s \in Nat /\ W!Bucket(h, s) \in Nat /\ truth[h][s] \in Nat
      BY <1>2, CountsNatural
    <3>2. Measures(h)' <=> /\ \A s \in W!Second : s >= clock' - Window => W!Bucket(h, s)' = truth'[h][s]
                           /\ \A s \in W!Second : s >= clock' - 1 - Window => W!Bucket(h, s)' <= truth'[h][s]
      BY DEF Measures, W!Bucket
    <3>3. \A s \in W!Second : s >= clock - Window => W!Bucket(h, s) = truth[h][s]
      BY <2>1 DEF Measures
    <3> QED
      BY <1>1, <1>2, <1>3, <3>1, <3>2, <3>3, <3>4
  <2> QED
    BY <1>1, <2>1, <2>2, <2>3, <2>4
<1> QED
  BY <1>4, <1>5, <1>6 DEF CountsKept, W!EmptyRing

\* A host is forgotten only when what was counted of it has left the window.
LEMMA HostForgotten ==
  ASSUME CountsKept, NEW h \in Address, NEW at \in W!Second, at \in {clock - 1, clock}, seen[h] < at - Window, ~W!HasData(h, at),
         tracked' = tracked \ {h}, ring' = [ring EXCEPT ![h] = W!EmptyRing],
         seen' = [seen EXCEPT ![h] = W!Never], clock' = clock, pending' = pending, truth' = truth
  PROVE  CountsKept'
<1>1. CountsTyped /\ clock \in Nat /\ at \in Nat /\ Window \in Nat /\ W!Never = -1 /\ seen[h] \in Int /\ \A s \in W!Second : s \in Nat
  <2>1. CountsTyped
    BY DEF CountsKept
  <2>2. W!Never = -1
    BY RingFacts
  <2> QED
    BY <2>1, <2>2, CountsNatural
<1>2. W!EmptyRing \in [0..Window -> Bucket] /\ \A i \in 0..Window : W!EmptyRing[i].epoch = -1 /\ W!EmptyRing[i].count = 0
  BY <1>1 DEF W!EmptyRing, Bucket
<1>3. /\ ring'[h] = W!EmptyRing /\ seen'[h] = -1
      /\ \A g \in Address : g # h => ring'[g] = ring[g] /\ seen'[g] = seen[g]
  BY <1>1 DEF CountsTyped
<1>4. CountsTyped'
  BY <1>1, <1>2 DEF CountsTyped
<1>5. RingInTime(h)'
  BY <1>2, <1>3 DEF RingInTime
<1>6. RingInTime(h) /\ TruthInTime(h) /\ Measures(h)
  BY DEF CountsKept
<1>7. ASSUME NEW s \in W!Second, s >= clock - Window  PROVE truth[h][s] = 0
  <2>1. s \in Nat /\ Lag \in Nat /\ Lag <= Window
    BY <1>1, RingFacts
  <2>2. CASE s >= at
    <3>1. s - Lag > seen[h]
      BY <1>1, <2>1, <2>2
    <3> QED
      BY <1>6, <1>7, <3>1 DEF TruthInTime
  <2>3. CASE s < at
    <3>1. s \in W!InWindow(at)
      BY <1>1, <1>7, <2>1, <2>3 DEF W!InWindow
    <3>2. W!Bucket(h, s) = 0
      BY <1>1, <3>1, BucketIs DEF W!HasData
    <3> QED
      BY <1>6, <1>7, <3>2 DEF Measures
  <2> QED
    BY <1>1, <2>1, <2>2, <2>3
<1>8. TruthInTime(h)'
  <2>2. -1 <= clock
    BY <1>1
  <2> QED
    BY <1>3, <1>6, <1>7, <2>2 DEF TruthInTime
<1>9. Measures(h)'
  <2>1. ASSUME NEW s \in W!Second  PROVE W!Bucket(h, s)' = 0
    <3>1. W!Bucket(h, s)' = IF ring'[h][s % W!RingSize].epoch = s THEN ring'[h][s % W!RingSize].count ELSE 0
      BY DEF W!Bucket
    <3>2. s % W!RingSize \in 0..Window
      BY RingFacts
    <3> QED
      BY <1>2, <1>3, <3>1, <3>2
  <2>2. \A s \in W!Second : truth[h][s] \in Nat /\ (s >= clock - Window => truth[h][s] = 0)
    BY <1>1, <1>7, CountsNatural
  <2>3. Measures(h)' <=> /\ \A s \in W!Second : s >= clock - Window => W!Bucket(h, s)' = truth[h][s]
                         /\ \A s \in W!Second : s >= clock - 1 - Window => W!Bucket(h, s)' <= truth[h][s]
    BY DEF Measures, W!Bucket
  <2>4. \A s \in W!Second : s >= clock - Window => W!Bucket(h, s)' = truth[h][s]
    BY <2>1, <2>2
  <2>5. \A s \in W!Second : W!Bucket(h, s)' <= truth[h][s]
    BY <2>1, <2>2
  <2> QED
    BY <2>3, <2>4, <2>5
<1>10. ASSUME NEW g \in Address, g # h
       PROVE  RingInTime(g)' /\ TruthInTime(g)' /\ Measures(g)' /\ (g \notin tracked' => ring'[g] = W!EmptyRing)
  <2>1. RingInTime(g) /\ TruthInTime(g) /\ Measures(g) /\ (g \notin tracked => ring[g] = W!EmptyRing)
    BY DEF CountsKept
  <2>2. ring'[g] = ring[g] /\ seen'[g] = seen[g]
    BY <1>3, <1>10
  <2> QED
    BY <1>10, <2>1, <2>2 DEF RingInTime, TruthInTime, Measures, W!Bucket
<1>11. W!FlowInTime'
  BY DEF CountsKept, W!FlowInTime
<1> QED
  BY <1>3, <1>4, <1>5, <1>8, <1>9, <1>10, <1>11 DEF CountsKept, W!EmptyRing

\* The host's rate is a number, and no more than what was counted.
LEMMA MeasuredIs ==
  ASSUME CountsKept, NEW h \in Address, NEW at \in W!Second
  PROVE  /\ W!Measured(h, at) \in Nat
         /\ at >= clock - 1 => W!Measured(h, at) <= W!SumFunctionOnSet(truth[h], W!InWindow(at))
<1> DEFINE R == W!InWindow(at)
           F == [s \in R |-> W!Bucket(h, s)]
           u == truth[h]
<1>1. CountsTyped
  BY DEF CountsKept
<1>2. \A f, Z : W!SumFunctionOnSet(f, Z) = SumFunctionOnSet(f, Z)
  BY DEF W!SumFunctionOnSet, W!FoldFunctionOnSet, W!MapThenFoldSet, SumFunctionOnSet, FoldFunctionOnSet, MapThenFoldSet
<1>3. IsFiniteSet(R)
  <2>1. R \in SUBSET (0..LastSecond)
    BY RingFacts DEF W!InWindow
  <2>2. IsFiniteSet(0..LastSecond)
    BY RingFacts, FS_Interval
  <2> QED
    BY <2>1, <2>2, FS_Subset
<1>4. \A s \in R : s \in W!Second /\ s >= at - Window
  BY DEF W!InWindow
<1>5. \A s \in R : F[s] = W!Bucket(h, s) /\ F[s] \in Nat /\ u[s] \in Nat
  BY <1>1, <1>4, CountsNatural
<1>6. W!Measured(h, at) = SumFunctionOnSet(F, R)
  BY <1>2 DEF W!Measured
<1>7. at >= clock - 1 => \A s \in R : F[s] <= u[s]
  <2>1. clock \in Nat /\ Window \in Nat /\ at \in Nat /\ \A s \in R : s \in Nat
    BY <1>1, <1>4, CountsNatural
  <2>2. at >= clock - 1 => \A s \in R : s >= clock - 1 - Window
    BY <1>4, <2>1
  <2>3. \A s \in W!Second : s >= clock - 1 - Window => W!Bucket(h, s) <= u[s]
    BY DEF CountsKept, Measures
  <2> QED
    BY <1>4, <1>5, <2>2, <2>3
<1> HIDE DEF R, F, u
<1>8. SumFunctionOnSet(F, R) \in Int /\ SumFunctionOnSet(F, R) >= 0
  <2>1. \A s \in R : F[s] \in Int /\ F[s] >= 0
    BY <1>5
  <2>2. SumFunctionOnSet(F, R) \in Int
    BY <1>3, <2>1, SumInt
  <2>3. SumFunctionOnSet(F, R) >= 0
    BY <1>3, <2>1, SumInt
  <2> QED
    BY <2>2, <2>3
<1>9. at >= clock - 1 => SumFunctionOnSet(F, R) <= SumFunctionOnSet(u, R)
  <2>1. ASSUME at >= clock - 1
        PROVE  SumFunctionOnSet(F, R) <= SumFunctionOnSet(u, R)
    <3>1. \A s \in R : F[s] \in Int /\ u[s] \in Int /\ F[s] <= u[s]
      BY <1>5, <1>7, <2>1
    <3> QED
      BY <1>3, <3>1, SumMonotone
  <2> QED
    BY <2>1
<1>10. W!SumFunctionOnSet(truth[h], W!InWindow(at)) = SumFunctionOnSet(u, R)
  BY <1>2 DEF u, R
<1> QED
  BY <1>6, <1>8, <1>9, <1>10

---------------------------------------------------------------------------
(* Windows: the judgement.                                                 *)

\* What is judged, and what is learned of it.
Assault == [on : BOOLEAN, bar : Nat, below : W!Second \cup {-1}]
Level == [valid : BOOLEAN, level : Nat, since : W!Second]

\* Whatever is learned has a limit.
Limited == \A c \in Setting : c.learn => c.limit > 0

\* What a setting says.
LEMMA SettingIs ==
  ASSUME NEW c \in Setting
  PROVE  /\ c.inside \subseteq Address /\ c.group \in [Address -> Group] /\ c.total \subseteq Group
         /\ c.limit \in Nat /\ c.learn \in BOOLEAN /\ W!Own(c) \subseteq Address
         /\ Factor \in Nat \ {0} /\ Floor \in Nat /\ Warmup \in Nat /\ Hysteresis \in Nat
  BY BrainAssumption DEF BrainAssumption, W!WindowsAssumption, W!Own

\* A bar is no higher than the static limit, and is one wherever there is a limit.
LEMMA BarIs ==
  ASSUME NEW c \in Setting, NEW b \in Level, b.valid => b.level > 0, NEW at
  PROVE  LET bar == W!Bar(c, b, at)
         IN bar \in Nat /\ bar <= c.limit /\ (c.limit > 0 => bar > 0)
<1> DEFINE learned == b.level * Factor
<1>1. c.limit \in Nat /\ Factor \in Nat \ {0} /\ Floor \in Nat /\ b.level \in Nat
  BY SettingIs DEF Level
<1>2. learned \in Nat
  BY <1>1
<1>3. b.level > 0 => learned > 0
  <2>1. ASSUME b.level > 0  PROVE learned > 0
    <3>1. b.level \in Nat \ {0} /\ Factor \in Int /\ Factor >= 1
      BY <1>1, <2>1
    <3>2. b.level * Factor >= b.level
      BY <3>1, TimesPositive
    <3> QED
      BY <1>1, <1>2, <2>1, <3>2
  <2> QED
    BY <2>1
<1> HIDE DEF learned
<1>4. W!Bar(c, b, at) =
        IF ~c.learn \/ ~b.valid \/ at - b.since < Warmup \/ learned >= c.limit THEN c.limit
        ELSE IF learned < Floor THEN (IF Floor < c.limit THEN Floor ELSE c.limit) ELSE learned
  BY DEF W!Bar, W!Least, learned
<1>5. CASE ~c.learn \/ ~b.valid \/ at - b.since < Warmup \/ learned >= c.limit
  <2>1. W!Bar(c, b, at) = c.limit
    BY <1>4, <1>5
  <2> QED
    BY <1>1, <2>1
<1>6. CASE ~(~c.learn \/ ~b.valid \/ at - b.since < Warmup \/ learned >= c.limit)
  <2>1. W!Bar(c, b, at) = IF learned < Floor THEN (IF Floor < c.limit THEN Floor ELSE c.limit) ELSE learned
    BY <1>4, <1>6
  <2>2. b.valid /\ ~(learned >= c.limit)
    BY <1>6
  <2>3. learned > 0
    BY <1>3, <2>2
  <2> QED
    BY <1>1, <1>2, <2>1, <2>2, <2>3
<1> QED
  BY <1>5, <1>6

\* What is judged stays under a static limit, unless it is an attack.
LEMMA JudgedIs ==
  ASSUME NEW c \in Setting, NEW a \in Assault, NEW b \in Level, b.valid => b.level > 0,
         a.on => a.bar > 0 /\ \E d \in Setting : a.bar <= d.limit,
         NEW v \in Nat, NEW at \in W!Second
  PROVE  LET j == W!Judged(a, b, c, v, at)
         IN /\ j \in Assault
            /\ j.on => j.bar > 0 /\ \E d \in Setting : j.bar <= d.limit
            /\ Limited /\ c.learn /\ ~j.on => \E d \in Setting : v <= d.limit
<1> DEFINE bar == IF a.on THEN a.bar ELSE W!Bar(c, b, at)
           since == IF a.below = W!Never THEN at ELSE a.below
           j == W!Judged(a, b, c, v, at)
<1>1. bar \in Nat /\ (\E d \in Setting : bar <= d.limit) /\ (Limited /\ c.learn => bar > 0)
  <2>1. CASE a.on
    BY <2>1 DEF Assault
  <2>2. CASE ~a.on
    <3>1. bar = W!Bar(c, b, at)
      BY <2>2
    <3>2. W!Bar(c, b, at) \in Nat /\ W!Bar(c, b, at) <= c.limit /\ (c.limit > 0 => W!Bar(c, b, at) > 0)
      BY BarIs
    <3> HIDE DEF bar
    <3> QED
      BY <3>1, <3>2 DEF Limited
  <2> QED
    BY <2>1, <2>2
<1>2. since \in W!Second \cup {-1} /\ W!Never = -1 /\ a.on \in BOOLEAN
  BY RingFacts DEF Assault
<1>3. j = IF bar > 0 /\ v > bar THEN [on |-> TRUE, bar |-> bar, below |-> W!Never]
          ELSE IF ~a.on \/ at - since >= Hysteresis THEN W!Calm
          ELSE [a EXCEPT !.below = since]
  BY DEF W!Judged
<1>4. W!Calm = [on |-> FALSE, bar |-> 0, below |-> -1]
  BY <1>2 DEF W!Calm
<1> HIDE DEF bar, since, j
<1>5. \A d \in Setting : d.limit \in Nat
  BY SettingIs
<1>6. ASSUME ~(bar > 0 /\ v > bar)
      PROVE  Limited /\ c.learn => \E d \in Setting : v <= d.limit
  BY <1>1, <1>5, <1>6
<1>7. CASE bar > 0 /\ v > bar
  <2>1. j = [on |-> TRUE, bar |-> bar, below |-> -1]
    BY <1>2, <1>3, <1>7
  <2> QED
    BY <1>1, <1>7, <2>1 DEF Assault, j
<1>8. CASE ~(bar > 0 /\ v > bar) /\ (~a.on \/ at - since >= Hysteresis)
  <2>1. j = [on |-> FALSE, bar |-> 0, below |-> -1]
    BY <1>3, <1>4, <1>8
  <2> QED
    BY <1>6, <1>8, <2>1 DEF Assault, j
<1>9. CASE ~(bar > 0 /\ v > bar) /\ ~(~a.on \/ at - since >= Hysteresis)
  <2>1. j = [a EXCEPT !.below = since]
    BY <1>3, <1>9
  <2>2. j \in Assault /\ j.on = a.on /\ j.bar = a.bar
    BY <1>2, <2>1 DEF Assault
  <2> QED
    BY <1>6, <1>9, <2>2 DEF j
<1> QED
  BY <1>7, <1>8, <1>9

\* What is learned is no more than what was learned before or than what is measured.
LEMMA TaughtIs ==
  ASSUME NEW c \in Setting, NEW a \in Assault, NEW b \in Level, b.valid => b.level > 0,
         NEW v \in Nat, NEW at \in W!Second
  PROVE  LET t == W!Taught(a, b, c, v, at)
         IN /\ t \in Level /\ (t.valid => t.level > 0)
            /\ t.level <= b.level \/ (c.learn /\ ~a.on /\ t.level <= v)
<1> DEFINE t == W!Taught(a, b, c, v, at)
           cap == b.level * Factor
           sample == IF b.level > 0 THEN W!Least(v, cap) ELSE v
           x == sample - b.level
           n == b.level + (x \div 2)
<1>1. b.level \in Nat /\ Factor \in Nat \ {0} /\ cap \in Nat
  BY SettingIs DEF Level
<1>2. t = IF c.learn /\ ~a.on /\ v > 0 THEN W!Learned(b, v, at) ELSE b
  BY DEF W!Taught
<1>3. W!Learned(b, v, at) = IF ~b.valid THEN [valid |-> TRUE, level |-> v, since |-> at] ELSE [b EXCEPT !.level = n]
  <2>1. CASE ~b.valid
    BY <2>1 DEF W!Learned
  <2>2. CASE b.valid
    <3>1. W!Learned(b, v, at) = [b EXCEPT !.level = @ + ((sample - @) \div 2)]
      BY <2>2 DEF W!Learned
    <3> QED
      BY <2>2, <3>1
  <2> QED
    BY <2>1, <2>2
<1>4. b.level > 0 => cap >= 1
  <2>1. ASSUME b.level > 0  PROVE cap >= 1
    <3>1. b.level \in Nat \ {0} /\ Factor \in Int /\ Factor >= 1
      BY <1>1, <2>1
    <3>2. b.level * Factor >= b.level
      BY <3>1, TimesPositive
    <3> QED
      BY <1>1, <2>1, <3>2
  <2> QED
    BY <2>1
<1> HIDE DEF cap
<1>5. sample \in Nat /\ sample <= v /\ (v > 0 => sample >= 1)
  BY <1>1, <1>4 DEF W!Least
<1> HIDE DEF sample, t
<1>6. x \div 2 \in Int /\ 2 * (x \div 2) <= x /\ x <= 2 * (x \div 2) + 1
  <2>1. x \in Int
    BY <1>1, <1>5
  <2> HIDE DEF x
  <2> QED
    BY <2>1, Halved
<1>7. PICK k : k = x \div 2
  OBVIOUS
<1>8. k \in Int /\ 2 * k <= sample - b.level /\ sample - b.level <= 2 * k + 1 /\ n = b.level + k
  BY <1>6, <1>7
<1> HIDE DEF n, x
<1>9. n \in Int /\ (b.level > 0 /\ v > 0 => n > 0) /\ (n <= b.level \/ n <= v)
  BY <1>1, <1>5, <1>8
<1>10. CASE ~(c.learn /\ ~a.on /\ v > 0)
  <2>1. t = b
    BY <1>2, <1>10
  <2> QED
    BY <1>1, <2>1 DEF t
<1>11. CASE c.learn /\ ~a.on /\ v > 0 /\ ~b.valid
  <2>1. t = [valid |-> TRUE, level |-> v, since |-> at]
    BY <1>2, <1>3, <1>11
  <2> QED
    BY <1>11, <2>1 DEF Level, t
<1>12. CASE c.learn /\ ~a.on /\ v > 0 /\ b.valid
  <2>1. t = [b EXCEPT !.level = n]
    BY <1>2, <1>3, <1>12
  <2>2. n \in Nat /\ n > 0
    BY <1>9, <1>12
  <2>3. t \in Level /\ t.level = n
    BY <2>1, <2>2 DEF Level
  <2> QED
    BY <1>9, <1>12, <2>2, <2>3 DEF t
<1> QED
  BY <1>10, <1>11, <1>12 DEF Level

\* What is said of a subject's attack and of what was learned of it.
Fair(a) == a.on => a.bar > 0 /\ \E c \in Setting : a.bar <= c.limit
Learnt(b) == (b.valid => b.level > 0) /\ (Limited => \E c \in Setting : b.level <= c.limit)
JudgeKept ==
  /\ setting \in Setting /\ settled \in Setting /\ totals \subseteq Group
  /\ attack \in [W!Subject -> Assault] /\ base \in [W!Subject -> Level]
  /\ \A s \in W!Subject : Fair(attack[s]) /\ Learnt(base[s])
  /\ W!OneOwner /\ W!AttackedAreTracked /\ W!TickOwner

\* What is said of the tick.
TickKept ==
  /\ tick \in [on : BOOLEAN, at : W!Second, left : SUBSET Address, cfg : Setting, sums : [Group -> Nat]]
  /\ tick.on => tick.at \in {clock - 1, clock}

\* What is judged and taught again is as it should be.
LEMMA JudgedAgain ==
  ASSUME NEW c \in Setting, NEW a \in Assault, NEW b \in Level, Fair(a), Learnt(b),
         NEW v \in Nat, NEW at \in W!Second
  PROVE  LET j == W!Judged(a, b, c, v, at)
         IN j \in Assault /\ Fair(j) /\ W!Taught(j, b, c, v, at) \in Level /\ Learnt(W!Taught(j, b, c, v, at))
<1> DEFINE j == W!Judged(a, b, c, v, at)
           t == W!Taught(j, b, c, v, at)
<1>1. /\ j \in Assault /\ Fair(j)
      /\ Limited /\ c.learn /\ ~j.on => \E d \in Setting : v <= d.limit
  BY JudgedIs DEF Fair, Learnt
<1> HIDE DEF j
<1>2. t \in Level /\ (t.valid => t.level > 0) /\ (t.level <= b.level \/ (c.learn /\ ~j.on /\ t.level <= v))
  BY <1>1, TaughtIs DEF Learnt
<1> HIDE DEF t
<1>3. t.level \in Nat /\ b.level \in Nat /\ \A d \in Setting : d.limit \in Nat
  BY <1>2, SettingIs DEF Level
<1>4. Limited => \E d \in Setting : t.level <= d.limit
  <2> SUFFICES ASSUME Limited  PROVE \E d \in Setting : t.level <= d.limit
    OBVIOUS
  <2>1. CASE t.level <= b.level
    <3>1. PICK d \in Setting : b.level <= d.limit
      BY DEF Learnt
    <3>2. t.level <= d.limit
      BY <1>3, <2>1, <3>1
    <3> QED
      BY <3>2
  <2>2. CASE c.learn /\ ~j.on /\ t.level <= v
    <3>1. PICK d \in Setting : v <= d.limit
      BY <1>1, <2>2
    <3>2. t.level <= d.limit
      BY <1>3, <2>2, <3>1
    <3> QED
      BY <3>2
  <2> QED
    BY <1>2, <2>1, <2>2
<1> QED
  BY <1>1, <1>2, <1>4 DEF Learnt, j, t

\* What is at rest is as it should be.
LEMMA AtRest ==
  /\ W!Calm \in Assault /\ Fair(W!Calm) /\ ~W!Calm.on
  /\ W!Untaught \in Level /\ (Setting # {} => Learnt(W!Untaught))
<1>1. W!Calm = [on |-> FALSE, bar |-> 0, below |-> -1] /\ W!Untaught = [valid |-> FALSE, level |-> 0, since |-> 0]
      /\ 0 \in W!Second
  BY RingFacts DEF W!Calm, W!Untaught
<1>2. \A c \in Setting : c.limit \in Nat
  BY SettingIs
<1> QED
  BY <1>1, <1>2 DEF Assault, Level, Fair, Learnt

\* A host is evaluated: it is judged if it is the policy's, and forgotten if it is calm and quiet.
LEMMA HostEvaluated ==
  ASSUME CountsKept, TickKept, JudgeKept, NEW h \in Address, W!EvalHost(h)
  PROVE  CountsKept' /\ TickKept' /\ JudgeKept'
<1> PICK c, at, v : c = tick.cfg /\ at = tick.at /\ v = W!Measured(h, at)
  OBVIOUS
<1> DEFINE a == IF h \in W!Own(c) THEN W!Judged(attack[h], base[h], c, v, at) ELSE W!Calm
           b == IF h \in W!Own(c) THEN W!Taught(a, base[h], c, v, at) ELSE base[h]
           evicted == ~a.on /\ W!Quiet(h, at)
           sums == [tick.sums EXCEPT ![c.group[h]] = IF h \in c.inside /\ W!InTotal(c, h) THEN @ + v ELSE @]
<1>1. /\ tick.on /\ h \in tick.left
      /\ IF h \notin tracked
         THEN UNCHANGED <<tracked, ring, seen, attack, base>> /\ tick' = [tick EXCEPT !.left = @ \ {h}]
         ELSE /\ tracked' = IF evicted THEN tracked \ {h} ELSE tracked
              /\ ring' = IF evicted THEN [ring EXCEPT ![h] = W!EmptyRing] ELSE ring
              /\ seen' = IF evicted THEN [seen EXCEPT ![h] = W!Never] ELSE seen
              /\ attack' = [attack EXCEPT ![h] = a]
              /\ base' = [base EXCEPT ![h] = IF evicted THEN W!Untaught ELSE b]
              /\ tick' = [tick EXCEPT !.left = @ \ {h},
                            !.sums[c.group[h]] = IF h \in c.inside /\ W!InTotal(c, h) THEN @ + v ELSE @]
      /\ clock' = clock /\ setting' = setting /\ pending' = pending /\ totals' = totals
      /\ settled' = settled /\ truth' = truth
  BY DEF W!EvalHost
<1>2. /\ c \in Setting /\ at \in W!Second /\ at \in {clock - 1, clock} /\ v \in Nat
      /\ tick.left \subseteq Address /\ tick.sums \in [Group -> Nat] /\ c.group[h] \in Group
      /\ h \in W!Subject
  <2>1. c \in Setting /\ at \in W!Second /\ at \in {clock - 1, clock} /\ tick.left \subseteq Address /\ tick.sums \in [Group -> Nat]
    BY <1>1 DEF TickKept
  <2>2. c.group[h] \in Group
    BY <2>1, SettingIs
  <2>3. v \in Nat
    BY <2>1, MeasuredIs
  <2> QED
    BY <2>1, <2>2, <2>3 DEF W!Subject
<1>3. a \in Assault /\ Fair(a) /\ (a.on => h \in W!Own(c)) /\ b \in Level /\ Learnt(b) /\ Learnt(W!Untaught)
  <2>1. attack[h] \in Assault /\ base[h] \in Level /\ Fair(attack[h]) /\ Learnt(base[h])
    BY <1>2 DEF JudgeKept
  <2>2. CASE h \in W!Own(c)
    BY <1>2, <2>1, <2>2, JudgedAgain, AtRest
  <2>3. CASE h \notin W!Own(c)
    BY <1>2, <2>1, <2>3, AtRest
  <2> QED
    BY <2>2, <2>3
<1>4. W!Quiet(h, at) => seen[h] < at - Window /\ ~W!HasData(h, at)
  BY DEF W!Quiet
<1>5. \A s \in W!Subject : attack[s] \in Assault /\ base[s] \in Level /\ Fair(attack[s]) /\ Learnt(base[s])
  BY DEF JudgeKept
<1> HIDE DEF a, b
<1>6. CASE h \notin tracked
  <2>1. tracked' = tracked /\ ring' = ring /\ seen' = seen /\ attack' = attack /\ base' = base
        /\ tick' = [tick EXCEPT !.left = @ \ {h}]
    BY <1>1, <1>6
  <2>2. CountsKept'
    BY <1>1, <2>1, CountsUnchanged
  <2>3. TickKept' /\ tick'.on /\ tick'.left = tick.left \ {h} /\ tick'.cfg = tick.cfg
    BY <1>1, <2>1 DEF TickKept
  <2>4. ~attack[h].on
    BY <1>6 DEF JudgeKept, W!AttackedAreTracked
  <2>5. W!TickOwner'
    <3>1. \A g \in Address \ tick.left : attack[g].on => g \in W!Own(tick.cfg)
      BY <1>1 DEF JudgeKept, W!TickOwner
    <3> QED
      BY <2>1, <2>3, <2>4, <3>1 DEF W!TickOwner, W!Own, W!InTotal
  <2>6. W!OneOwner' /\ W!AttackedAreTracked'
    BY <2>1, <2>3 DEF JudgeKept, W!OneOwner, W!AttackedAreTracked
  <2> QED
    BY <1>1, <2>1, <2>2, <2>3, <2>5, <2>6 DEF JudgeKept, Fair, Learnt
<1>7. CASE h \in tracked
  <2>1. /\ tracked' = IF evicted THEN tracked \ {h} ELSE tracked
        /\ ring' = IF evicted THEN [ring EXCEPT ![h] = W!EmptyRing] ELSE ring
        /\ seen' = IF evicted THEN [seen EXCEPT ![h] = W!Never] ELSE seen
        /\ attack' = [attack EXCEPT ![h] = a]
        /\ base' = [base EXCEPT ![h] = IF evicted THEN W!Untaught ELSE b]
        /\ tick' = [tick EXCEPT !.left = @ \ {h},
                      !.sums[c.group[h]] = IF h \in c.inside /\ W!InTotal(c, h) THEN @ + v ELSE @]
    BY <1>1, <1>7
  <2>2. CountsKept'
    <3>1. CASE evicted
      <4>1. tracked' = tracked \ {h} /\ ring' = [ring EXCEPT ![h] = W!EmptyRing] /\ seen' = [seen EXCEPT ![h] = W!Never]
            /\ seen[h] < at - Window /\ ~W!HasData(h, at)
        BY <1>4, <2>1, <3>1
      <4> QED
        BY <1>1, <1>2, <4>1, HostForgotten
    <3>2. CASE ~evicted
      BY <1>1, <2>1, <3>2, CountsUnchanged
    <3> QED
      BY <3>1, <3>2
  <2>3. tick'.on = tick.on /\ tick'.at = tick.at /\ tick'.left = tick.left \ {h} /\ tick'.cfg = tick.cfg /\ TickKept'
    <3>1. tick \in [on : BOOLEAN, at : W!Second, left : SUBSET Address, cfg : Setting, sums : [Group -> Nat]]
      BY DEF TickKept
    <3>2. tick' = [tick EXCEPT !.left = tick.left \ {h}, !.sums = sums]
      BY <2>1, <3>1
    <3>3. sums \in [Group -> Nat]
      BY <1>2
    <3> HIDE DEF sums
    <3>4. tick' \in [on : BOOLEAN, at : W!Second, left : SUBSET Address, cfg : Setting, sums : [Group -> Nat]]
      BY <3>1, <3>2, <3>3
    <3>5. tick'.on = tick.on /\ tick'.at = tick.at /\ tick'.left = tick.left \ {h} /\ tick'.cfg = tick.cfg
      BY <3>1, <3>2
    <3> QED
      BY <1>1, <3>4, <3>5 DEF TickKept
  <2>4. /\ attack' \in [W!Subject -> Assault] /\ base' \in [W!Subject -> Level]
        /\ attack'[h] = a /\ \A s \in W!Subject : s # h => attack'[s] = attack[s]
        /\ \A s \in W!Subject : Fair(attack'[s]) /\ Learnt(base'[s])
    <3>1. attack \in [W!Subject -> Assault] /\ base \in [W!Subject -> Level]
      BY DEF JudgeKept
    <3>2. PICK d : d = IF evicted THEN W!Untaught ELSE b
      OBVIOUS
    <3>3. d \in Level /\ Learnt(d) /\ base' = [base EXCEPT ![h] = d] /\ attack' = [attack EXCEPT ![h] = a]
      BY <1>3, <2>1, <3>2, AtRest
    <3>4. /\ attack' \in [W!Subject -> Assault] /\ base' \in [W!Subject -> Level]
          /\ attack'[h] = a /\ base'[h] = d
          /\ \A s \in W!Subject : s # h => attack'[s] = attack[s] /\ base'[s] = base[s]
      BY <1>2, <1>3, <3>1, <3>3
    <3> QED
      BY <1>3, <1>5, <3>3, <3>4
  <2>5. W!TickOwner'
    <3>1. \A g \in Address \ tick.left : attack[g].on => g \in W!Own(tick.cfg)
      BY <1>1 DEF JudgeKept, W!TickOwner
    <3>2. ASSUME NEW g \in Address, g \notin tick'.left, attack'[g].on
          PROVE  g \in W!Own(tick'.cfg)
      <4>1. CASE g = h
        BY <1>3, <2>3, <2>4, <3>2, <4>1
      <4>2. CASE g # h
        <5>1. g \notin tick.left /\ attack'[g] = attack[g]
          BY <2>3, <2>4, <3>2, <4>2 DEF W!Subject
        <5> QED
          BY <2>3, <3>1, <3>2, <5>1
      <4> QED
        BY <4>1, <4>2
    <3> QED
      BY <3>2 DEF W!TickOwner, W!Own, W!InTotal
  <2>6. W!AttackedAreTracked'
    <3>1. ASSUME NEW g \in Address, attack'[g].on  PROVE g \in tracked'
      <4>1. CASE g = h
        BY <1>7, <2>1, <2>4, <3>1, <4>1
      <4>2. CASE g # h
        <5>1. attack'[g] = attack[g]
          BY <2>4, <4>2 DEF W!Subject
        <5>2. g \in tracked
          BY <3>1, <5>1 DEF JudgeKept, W!AttackedAreTracked
        <5> QED
          BY <2>1, <4>2, <5>2
      <4> QED
        BY <4>1, <4>2
    <3> QED
      BY <3>1 DEF W!AttackedAreTracked
  <2>7. W!OneOwner'
    BY <1>1, <2>3 DEF W!OneOwner
  <2> QED
    BY <1>1, <2>2, <2>3, <2>4, <2>5, <2>6, <2>7 DEF JudgeKept, Fair, Learnt
<1> QED
  BY <1>6, <1>7

\* The groups are judged last, and the tick is over.
LEMMA GroupsEvaluated ==
  ASSUME TickKept, JudgeKept, W!EvalGroups
  PROVE  TickKept' /\ JudgeKept'
<1> PICK c, at : c = tick.cfg /\ at = tick.at
  OBVIOUS
<1> DEFINE a(g) == W!Judged(attack[g], base[g], c, tick.sums[g], at)
           b(g) == W!Taught(a(g), base[g], c, tick.sums[g], at)
<1>1. /\ tick.on /\ tick.left = {} /\ totals' = c.total /\ settled' = c
      /\ attack' = [s \in W!Subject |-> IF s \in Address THEN attack[s] ELSE IF s \in c.total THEN a(s) ELSE W!Calm]
      /\ base' = [s \in W!Subject |-> IF s \in Address THEN base[s] ELSE IF s \in c.total THEN b(s) ELSE W!Untaught]
      /\ tick' = [W!NoTick EXCEPT !.at = at]
      /\ clock' = clock /\ setting' = setting /\ tracked' = tracked
  <2>1. /\ tick.on /\ tick.left = {} /\ totals' = c.total /\ settled' = c
        /\ tick' = [W!NoTick EXCEPT !.at = at]
        /\ clock' = clock /\ setting' = setting /\ tracked' = tracked
    BY DEF W!EvalGroups
  <2>2. attack' = [s \in W!Subject |-> IF s \in Address THEN attack[s] ELSE IF s \in c.total THEN a(s) ELSE W!Calm]
    <3>1. attack' = [s \in W!Subject |-> IF s \in Address THEN attack[s] ELSE IF s \in c.total
                       THEN [g \in c.total |-> W!Judged(attack[g], base[g], c, tick.sums[g], at)][s] ELSE W!Calm]
      BY DEF W!EvalGroups
    <3> QED
      BY <3>1
  <2>3. base' = [s \in W!Subject |-> IF s \in Address THEN base[s] ELSE IF s \in c.total THEN b(s) ELSE W!Untaught]
    <3>1. base' = [s \in W!Subject |-> IF s \in Address THEN base[s] ELSE IF s \in c.total
                     THEN W!Taught([g \in c.total |-> W!Judged(attack[g], base[g], c, tick.sums[g], at)][s],
                                   base[s], c, tick.sums[s], at) ELSE W!Untaught]
      BY DEF W!EvalGroups
    <3> QED
      BY <3>1
  <2> QED
    BY <2>1, <2>2, <2>3
<1>2. c \in Setting /\ at \in W!Second /\ c.total \subseteq Group /\ tick.sums \in [Group -> Nat]
  <2>1. c \in Setting /\ at \in W!Second /\ tick.sums \in [Group -> Nat]
    BY DEF TickKept
  <2> QED
    BY <2>1, SettingIs
<1>3. \A s \in W!Subject : attack[s] \in Assault /\ base[s] \in Level /\ Fair(attack[s]) /\ Learnt(base[s])
  BY DEF JudgeKept
<1>4. \A g \in c.total : g \in W!Subject /\ tick.sums[g] \in Nat
  BY <1>2 DEF W!Subject
<1>5. \A g \in c.total : a(g) \in Assault /\ Fair(a(g)) /\ b(g) \in Level /\ Learnt(b(g))
  BY <1>2, <1>3, <1>4, JudgedAgain
<1> HIDE DEF a, b
<1>6. W!Calm \in Assault /\ Fair(W!Calm) /\ ~W!Calm.on /\ W!Untaught \in Level /\ Learnt(W!Untaught)
  BY <1>2, AtRest
<1>7. attack' \in [W!Subject -> Assault] /\ base' \in [W!Subject -> Level]
  BY <1>1, <1>3, <1>5, <1>6
<1>8. ASSUME NEW s \in W!Subject
      PROVE  Fair(attack'[s]) /\ Learnt(base'[s])
             /\ (s \in Address => attack'[s] = attack[s])
             /\ (s \notin Address /\ attack'[s].on => s \in c.total)
  <2>1. CASE s \in Address
    BY <1>1, <1>3, <2>1
  <2>2. CASE s \notin Address /\ s \in c.total
    BY <1>1, <1>5, <2>2
  <2>3. CASE s \notin Address /\ s \notin c.total
    BY <1>1, <1>6, <2>3
  <2> QED
    BY <2>1, <2>2, <2>3
<1>9. tick' = [on |-> FALSE, at |-> at, left |-> {}, cfg |-> setting, sums |-> [g \in Group |-> 0]]
  BY <1>1 DEF W!NoTick
<1>10. TickKept'
  BY <1>2, <1>9 DEF TickKept, JudgeKept
<1>11. W!OneOwner'
  <2>1. \A g \in Address : attack[g].on => g \in W!Own(c)
    BY <1>1 DEF JudgeKept, W!TickOwner
  <2>2. \A s \in W!Subject : attack'[s].on => s \in W!Own(c) \cup c.total
    BY <1>8, <2>1
  <2> QED
    BY <1>1, <2>2 DEF W!OneOwner, W!Own, W!InTotal
<1>12. W!AttackedAreTracked'
  BY <1>1, <1>8 DEF JudgeKept, W!AttackedAreTracked, W!Subject
<1>13. W!TickOwner'
  BY <1>9 DEF W!TickOwner
<1> QED
  BY <1>1, <1>2, <1>7, <1>8, <1>10, <1>11, <1>12, <1>13 DEF JudgeKept, Fair, Learnt

\* A tick begins with every host still to do.
LEMMA TickBegun ==
  ASSUME CountsKept, TickKept, JudgeKept, W!BeginTick
  PROVE  TickKept' /\ JudgeKept'
<1>1. /\ tick' = [on |-> TRUE, at |-> clock, left |-> Address, cfg |-> setting, sums |-> [g \in Group |-> 0]]
      /\ clock' = clock /\ setting' = setting /\ tracked' = tracked /\ attack' = attack /\ base' = base
      /\ totals' = totals /\ settled' = settled
  BY DEF W!BeginTick
<1>2. TickKept'
  BY <1>1 DEF TickKept, JudgeKept, CountsKept, CountsTyped
<1>3. W!OneOwner' /\ W!AttackedAreTracked' /\ W!TickOwner'
  BY <1>1 DEF JudgeKept, W!OneOwner, W!AttackedAreTracked, W!TickOwner
<1> QED
  BY <1>1, <1>2, <1>3 DEF JudgeKept, Fair, Learnt

\* A reload is what the next tick goes by.
LEMMA SettingReloaded ==
  ASSUME TickKept, JudgeKept, NEW c \in Setting, W!Reload(c)
  PROVE  TickKept' /\ JudgeKept'
<1>1. /\ setting' = c /\ tick' = IF tick.on THEN tick ELSE [tick EXCEPT !.cfg = c]
      /\ clock' = clock /\ tracked' = tracked /\ attack' = attack /\ base' = base
      /\ totals' = totals /\ settled' = settled
  BY DEF W!Reload
<1>2. TickKept' /\ tick'.on = tick.on
  BY <1>1 DEF TickKept
<1>3. W!OneOwner' /\ W!AttackedAreTracked'
  BY <1>1, <1>2 DEF JudgeKept, W!OneOwner, W!AttackedAreTracked, W!Own, W!InTotal
<1>4. W!TickOwner'
  <2>1. CASE tick.on
    BY <1>1, <2>1 DEF JudgeKept, W!TickOwner, W!Own, W!InTotal
  <2>2. CASE ~tick.on
    BY <1>2, <2>2 DEF W!TickOwner
  <2> QED
    BY <2>1, <2>2
<1> QED
  BY <1>1, <1>2, <1>3, <1>4 DEF JudgeKept, Fair, Learnt

\* What the tick and the judgement rest on is left alone.
LEMMA JudgeUnchanged ==
  ASSUME JudgeKept, setting' = setting, settled' = settled, totals' = totals, attack' = attack, base' = base,
         tick' = tick, tracked \subseteq tracked'
  PROVE  JudgeKept'
<1>1. W!OneOwner' /\ W!AttackedAreTracked' /\ W!TickOwner'
  BY DEF JudgeKept, W!OneOwner, W!AttackedAreTracked, W!TickOwner, W!Own, W!InTotal
<1> QED
  BY <1>1 DEF JudgeKept, Fair, Learnt

---------------------------------------------------------------------------
(* Windows: together.                                                      *)

\* The invariant of the measurement, by what it speaks of.
LEMMA WindowsParts == W!IInv <=> CountsKept /\ TickKept /\ JudgeKept
<1>1. W!TypeOK <=>
        /\ CountsTyped
        /\ setting \in Setting /\ settled \in Setting /\ totals \subseteq Group
        /\ attack \in [W!Subject -> Assault] /\ base \in [W!Subject -> Level]
        /\ tick \in [on : BOOLEAN, at : W!Second, left : SUBSET Address, cfg : Setting, sums : [Group -> Nat]]
  BY RingFacts DEF W!TypeOK, CountsTyped, Flow, Bucket, Assault, Level
<1>2. W!NormalIsNormal /\ W!BarsStatic <=> \A s \in W!Subject : Fair(attack[s]) /\ Learnt(base[s])
  BY DEF W!NormalIsNormal, W!BarsStatic, Fair, Learnt, Limited
<1>3. W!CountedInTime <=> \A h \in Address : RingInTime(h) /\ TruthInTime(h) /\ (h \notin tracked => ring[h] = W!EmptyRing)
  BY RingFacts DEF W!CountedInTime, RingInTime, TruthInTime
<1>4. ASSUME CountsTyped, W!CountedInTime, tick.on => tick.at \in {clock - 1, clock}
      PROVE  W!MeasureTrue /\ W!TickInTime <=> \A h \in Address : Measures(h)
  <2>1. clock \in Nat /\ Window \in Nat /\ \A s \in W!Second : s \in Nat
    BY <1>4, RingFacts DEF CountsTyped
  <2>2. \A s : s \in W!InWindow(clock) \cup {clock} <=> s \in W!Second /\ clock - Window <= s /\ s <= clock
    <3>1. clock \in W!Second /\ clock - Window <= clock
      BY <1>4, <2>1 DEF CountsTyped
    <3>2. ASSUME NEW s \in W!Second  PROVE s \in W!InWindow(clock) \cup {clock} <=> clock - Window <= s /\ s <= clock
      BY <2>1, <3>1 DEF W!InWindow
    <3>3. W!InWindow(clock) \subseteq W!Second
      BY DEF W!InWindow
    <3> QED
      BY <3>1, <3>2, <3>3
  <2>3. \A h \in Address, s \in W!Second :
          /\ h \notin tracked => W!Bucket(h, s) = 0
          /\ s > clock => W!Bucket(h, s) = 0 /\ truth[h][s] = 0
          /\ truth[h][s] \in Nat
    BY <1>3, <1>4, EmptyBucket, EarlyBucket, CountsNatural DEF TruthInTime
  <2>4. ASSUME W!MeasureTrue, W!TickInTime, NEW h \in Address  PROVE Measures(h)
    <3>1. ASSUME NEW s \in W!Second, s >= clock - Window  PROVE W!Bucket(h, s) = truth[h][s]
      <4>1. CASE s > clock
        BY <2>3, <4>1
      <4>2. CASE s <= clock
        <5>1. s \in W!InWindow(clock) \cup {clock}
          BY <2>1, <2>2, <3>1, <4>2
        <5>2. IF h \in tracked THEN W!Bucket(h, s) = truth[h][s] ELSE truth[h][s] = 0
          BY <2>4, <5>1 DEF W!MeasureTrue
        <5> QED
          BY <2>3, <5>2
      <4> QED
        BY <2>1, <4>1, <4>2
    <3>2. ASSUME NEW s \in W!Second, s >= clock - 1 - Window  PROVE W!Bucket(h, s) <= truth[h][s]
      <4>1. CASE h \in tracked
        BY <2>4, <3>2, <4>1 DEF W!TickInTime
      <4>2. CASE h \notin tracked
        BY <2>3, <4>2
      <4> QED
        BY <4>1, <4>2
    <3> QED
      BY <3>1, <3>2 DEF Measures
  <2>5. ASSUME \A h \in Address : Measures(h)  PROVE W!MeasureTrue /\ W!TickInTime
    <3>1. W!MeasureTrue
      <4>1. ASSUME NEW h \in Address, NEW s \in W!InWindow(clock) \cup {clock}
            PROVE  IF h \in tracked THEN W!Bucket(h, s) = truth[h][s] ELSE truth[h][s] = 0
        <5>1. s \in W!Second /\ s >= clock - Window
          BY <2>1, <2>2
        <5>2. W!Bucket(h, s) = truth[h][s]
          BY <2>5, <5>1 DEF Measures
        <5> QED
          BY <2>3, <5>1, <5>2
      <4> QED
        BY <4>1 DEF W!MeasureTrue
    <3>2. W!TickInTime
      BY <1>4, <2>5 DEF W!TickInTime, Measures, CountsTyped
    <3> QED
      BY <3>1, <3>2
  <2> QED
    BY <2>4, <2>5
<1>5. W!TickInTime => (tick.on => tick.at \in {clock - 1, clock})
  BY DEF W!TickInTime
<1>6. W!IInv => CountsKept /\ TickKept /\ JudgeKept
  <2> SUFFICES ASSUME W!IInv  PROVE CountsKept /\ TickKept /\ JudgeKept
    OBVIOUS
  <2>1. /\ W!TypeOK /\ W!MeasureTrue /\ W!NormalIsNormal /\ W!OneOwner /\ W!AttackedAreTracked
        /\ W!CountedInTime /\ W!FlowInTime /\ W!TickInTime /\ W!TickOwner /\ W!BarsStatic
    BY DEF W!IInv
  <2>2. \A h \in Address : Measures(h)
    BY <1>1, <1>4, <1>5, <2>1
  <2> QED
    BY <1>1, <1>2, <1>3, <1>5, <2>1, <2>2 DEF CountsKept, TickKept, JudgeKept
<1>7. CountsKept /\ TickKept /\ JudgeKept => W!IInv
  <2> SUFFICES ASSUME CountsKept, TickKept, JudgeKept  PROVE W!IInv
    OBVIOUS
  <2>1. CountsTyped /\ W!CountedInTime /\ W!FlowInTime /\ (tick.on => tick.at \in {clock - 1, clock})
        /\ \A h \in Address : Measures(h)
    BY <1>3 DEF CountsKept, TickKept
  <2>2. W!MeasureTrue /\ W!TickInTime
    BY <1>4, <2>1
  <2>3. W!TypeOK /\ W!NormalIsNormal /\ W!BarsStatic /\ W!OneOwner /\ W!AttackedAreTracked /\ W!TickOwner
    BY <1>1, <1>2, <2>1 DEF TickKept, JudgeKept
  <2> QED
    BY <2>1, <2>2, <2>3 DEF W!IInv
<1> QED
  BY <1>6, <1>7

\* The measurement starts in its invariant.
LEMMA WindowsInit ==
  ASSUME W!Init
  PROVE  W!IInv
<1>1. /\ clock = Window /\ setting \in Setting /\ pending = [w \in Ingest |-> NoFlow]
      /\ tracked = {} /\ ring = [h \in Address |-> W!EmptyRing] /\ seen = [h \in Address |-> -1]
      /\ attack = [s \in W!Subject |-> W!Calm] /\ base = [s \in W!Subject |-> W!Untaught]
      /\ totals = {} /\ tick = [W!NoTick EXCEPT !.at = Window] /\ settled = setting
      /\ truth = [h \in Address |-> [s \in W!Second |-> 0]]
  BY RingFacts DEF W!Init
<1>2. Window \in Nat /\ Window \in W!Second /\ LastSecond \in Nat /\ W!Second = 0..LastSecond /\ W!Never = -1
  BY RingFacts
<1>3. W!EmptyRing \in [0..Window -> Bucket] /\ \A i \in 0..Window : W!EmptyRing[i].epoch = -1
  BY <1>2 DEF W!EmptyRing, Bucket
<1>4. CountsTyped
  BY <1>1, <1>2, <1>3 DEF CountsTyped
<1>5. ASSUME NEW h \in Address
      PROVE  RingInTime(h) /\ TruthInTime(h) /\ Measures(h) /\ ring[h] = W!EmptyRing
  <2>1. ring[h] = W!EmptyRing /\ seen[h] = -1 /\ \A s \in W!Second : truth[h][s] = 0
    BY <1>1
  <2>2. RingInTime(h)
    BY <1>3, <2>1 DEF RingInTime
  <2>3. TruthInTime(h)
    BY <1>1, <1>2, <2>1 DEF TruthInTime
  <2>4. \A s \in W!Second : W!Bucket(h, s) = 0
    BY <1>4, <2>1, EmptyBucket
  <2> QED
    BY <2>1, <2>2, <2>3, <2>4 DEF Measures
<1>6. CountsKept
  BY <1>1, <1>4, <1>5 DEF CountsKept, W!FlowInTime
<1>7. tick = [on |-> FALSE, at |-> Window, left |-> {}, cfg |-> setting, sums |-> [g \in Group |-> 0]]
  BY <1>1 DEF W!NoTick
<1>8. TickKept
  <2>1. PICK z \in [Group -> Nat] : z = [g \in Group |-> 0]
    OBVIOUS
  <2>2. tick = [on |-> FALSE, at |-> Window, left |-> {}, cfg |-> setting, sums |-> z]
    BY <1>7, <2>1
  <2>3. tick \in [on : BOOLEAN, at : W!Second, left : SUBSET Address, cfg : Setting, sums : [Group -> Nat]]
    <3>1. Window \in W!Second /\ setting \in Setting /\ {} \in SUBSET Address
      BY <1>1, <1>2
    <3> QED
      BY <2>1, <2>2, <3>1
  <2>4. ~tick.on
    BY <1>7
  <2> QED
    BY <2>3, <2>4 DEF TickKept
<1>9. JudgeKept
  <2>1. W!Calm \in Assault /\ Fair(W!Calm) /\ ~W!Calm.on /\ W!Untaught \in Level /\ Learnt(W!Untaught)
    BY <1>1, AtRest
  <2>2. \A s \in W!Subject : attack[s] = W!Calm /\ base[s] = W!Untaught
    BY <1>1
  <2>3. W!OneOwner /\ W!AttackedAreTracked /\ W!TickOwner
    BY <1>7, <2>1, <2>2 DEF W!OneOwner, W!AttackedAreTracked, W!TickOwner, W!Subject
  <2> QED
    BY <1>1, <2>1, <2>2, <2>3 DEF JudgeKept
<1> QED
  BY <1>6, <1>8, <1>9, WindowsParts

\* Every step of the measurement keeps it.
LEMMA WindowsStep ==
  ASSUME W!IInv, [W!Next]_W!vars
  PROVE  W!IInv'
<1>1. CountsKept /\ TickKept /\ JudgeKept
  BY WindowsParts
<1>2. (CountsKept /\ TickKept /\ JudgeKept)' => W!IInv'
  BY WindowsParts, PTL
<1>3. tick' = tick /\ clock' = clock => TickKept'
  BY <1>1 DEF TickKept
<1>4. CASE \E w \in Ingest, h \in Address, v \in Volume : W!Process(w, h, v)
  <2>1. CountsKept'
    BY <1>1, <1>4, FlowStamped
  <2>2. UNCHANGED <<clock, setting, tracked, attack, base, totals, tick, settled>>
    BY <1>4 DEF W!Process
  <2> QED
    BY <1>1, <1>2, <1>3, <2>1, <2>2, JudgeUnchanged
<1>5. CASE \E w \in Ingest : W!Record(w)
  <2>1. CountsKept'
    BY <1>1, <1>5, FlowCounted
  <2>2. UNCHANGED <<clock, setting, attack, base, totals, tick, settled>> /\ tracked \subseteq tracked'
    BY <1>5 DEF W!Record
  <2> QED
    BY <1>1, <1>2, <1>3, <2>1, <2>2, JudgeUnchanged
<1>6. CASE W!BeginTick
  <2>1. UNCHANGED <<clock, pending, tracked, ring, seen, truth>>
    BY <1>6 DEF W!BeginTick
  <2> QED
    BY <1>1, <1>2, <1>6, <2>1, TickBegun, CountsUnchanged
<1>7. CASE \E h \in Address : W!EvalHost(h)
  BY <1>1, <1>2, <1>7, HostEvaluated
<1>8. CASE W!EvalGroups
  <2>1. UNCHANGED <<clock, pending, tracked, ring, seen, truth>>
    BY <1>8 DEF W!EvalGroups
  <2> QED
    BY <1>1, <1>2, <1>8, <2>1, GroupsEvaluated, CountsUnchanged
<1>9. CASE W!Turn
  <2>1. CountsKept'
    BY <1>1, <1>9, SecondTurned
  <2>2. UNCHANGED <<setting, tracked, attack, base, totals, tick, settled>> /\ clock' = clock + 1 /\ (tick.on => tick.at = clock)
    BY <1>9 DEF W!Turn
  <2>3. clock \in Nat
    BY <1>1, RingFacts DEF CountsKept, CountsTyped
  <2>4. TickKept'
    BY <1>1, <2>2, <2>3 DEF TickKept
  <2> QED
    BY <1>1, <1>2, <2>1, <2>2, <2>4, JudgeUnchanged
<1>10. CASE \E c \in Setting : W!Reload(c)
  <2>1. UNCHANGED <<clock, pending, tracked, ring, seen, truth>>
    BY <1>10 DEF W!Reload
  <2> QED
    BY <1>1, <1>2, <1>10, <2>1, SettingReloaded, CountsUnchanged
<1>11. CASE UNCHANGED W!vars
  <2>1. UNCHANGED <<clock, setting, pending, tracked, ring, seen, attack, base, totals, tick, settled, truth>>
    BY <1>11 DEF W!vars
  <2> QED
    BY <1>1, <1>2, <1>3, <2>1, JudgeUnchanged, CountsUnchanged
<1> QED
  BY <1>4, <1>5, <1>6, <1>7, <1>8, <1>9, <1>10, <1>11 DEF W!Next

\* The invariant, and the sum of what is not too much, is an honest measurement.
LEMMA WindowsHeld ==
  ASSUME W!IInv
  PROVE  W!TypeOK /\ W!MeasurementHonest
<1>1. CountsKept /\ TickKept
  BY WindowsParts
<1>2. W!NeverLong
  <2>1. ASSUME tick.on, NEW h \in tracked
        PROVE  W!Measured(h, tick.at) <= W!SumFunctionOnSet(truth[h], W!InWindow(tick.at))
    <3>1. h \in Address /\ tick.at \in W!Second /\ tick.at \in {clock - 1, clock} /\ clock \in Nat
      BY <1>1, <2>1, RingFacts DEF CountsKept, CountsTyped, TickKept
    <3> QED
      BY <1>1, <3>1, MeasuredIs
  <2> QED
    BY <2>1 DEF W!NeverLong
<1> QED
  BY <1>2 DEF W!IInv, W!MeasurementHonest

---------------------------------------------------------------------------
(* Sinks: how often a thing is in a sequence.                              *)

\* The sizes of the sinks' part are the library's.
LEMMA SinksCounted ==
  /\ \A R : T!IsFiniteSet(R) <=> IsFiniteSet(R)
  /\ \A R : T!Cardinality(R) = Cardinality(R)
<1>1. \A R : T!IsFiniteSet(R) <=> IsFiniteSet(R)
  BY DEF T!IsFiniteSet, IsFiniteSet
<1>2. \A R : T!Cardinality(R) = Cardinality(R)
  BY DEF T!Cardinality, Cardinality
<1> QED
  BY <1>1, <1>2

\* Where in a sequence a thing is.
Places(s, x) == {i \in DOMAIN s : s[i] = x}

\* It is there so often, and not at all if nowhere.
LEMMA TimesAre ==
  ASSUME NEW R, NEW s \in Seq(R), NEW x
  PROVE  /\ IsFiniteSet(Places(s, x)) /\ T!Times(s, x) = Cardinality(Places(s, x))
         /\ T!Times(s, x) \in Nat
         /\ T!Times(s, x) = 0 <=> x \notin T!ToSet(s)
<1>1. DOMAIN s = 1..Len(s) /\ Len(s) \in Nat
  OBVIOUS
<1>2. IsFiniteSet(1..Len(s))
  BY <1>1, FS_Interval
<1>3. Places(s, x) \in SUBSET (1..Len(s))
  BY <1>1 DEF Places
<1>4. IsFiniteSet(Places(s, x))
  BY <1>2, <1>3, FS_Subset
<1>5. T!Times(s, x) = Cardinality(Places(s, x))
  BY SinksCounted DEF T!Times, Places
<1>6. Cardinality(Places(s, x)) \in Nat /\ (Cardinality(Places(s, x)) = 0 <=> Places(s, x) = {})
  BY <1>4, FS_CardinalityType, FS_EmptySet
<1>7. Places(s, x) = {} <=> x \notin T!ToSet(s)
  BY DEF Places, T!ToSet
<1> QED
  BY <1>4, <1>5, <1>6, <1>7

\* Once more after it is appended.
LEMMA TimesAppend ==
  ASSUME NEW R, NEW s \in Seq(R), NEW y \in R, NEW x
  PROVE  T!Times(Append(s, y), x) = T!Times(s, x) + (IF x = y THEN 1 ELSE 0)
<1> DEFINE t == Append(s, y)
           n == Len(s) + 1
<1>1. t \in Seq(R) /\ DOMAIN t = 1..n /\ DOMAIN s = 1..Len(s) /\ Len(s) \in Nat
      /\ t[n] = y /\ \A i \in 1..Len(s) : t[i] = s[i]
  BY AppendProperties
<1>2. Places(t, x) = IF x = y THEN Places(s, x) \cup {n} ELSE Places(s, x)
  BY <1>1 DEF Places
<1>3. n \notin Places(s, x)
  BY <1>1 DEF Places
<1>4. IsFiniteSet(Places(s, x)) /\ T!Times(s, x) = Cardinality(Places(s, x)) /\ T!Times(s, x) \in Nat
  BY TimesAre
<1> HIDE DEF t, n
<1>5. T!Times(t, x) = Cardinality(Places(t, x))
  BY <1>1, TimesAre
<1>6. CASE x = y
  <2>1. Cardinality(Places(s, x) \cup {n}) = Cardinality(Places(s, x)) + 1
    BY <1>3, <1>4, FS_AddElement
  <2>2. Places(t, x) = Places(s, x) \cup {n}
    BY <1>2, <1>6
  <2> QED
    BY <1>4, <1>5, <1>6, <2>1, <2>2 DEF t
<1>7. CASE x # y
  <2>1. Places(t, x) = Places(s, x)
    BY <1>2, <1>7
  <2> QED
    BY <1>4, <1>5, <1>7, <2>1 DEF t
<1> QED
  BY <1>6, <1>7

\* Once less when it was the head.
LEMMA TimesTail ==
  ASSUME NEW R, NEW s \in Seq(R), s # <<>>, NEW x
  PROVE  T!Times(s, x) = T!Times(Tail(s), x) + (IF x = Head(s) THEN 1 ELSE 0)
<1> DEFINE t == Tail(s)
           J == Places(s, x) \ {1}
           f == [i \in Places(t, x) |-> i + 1]
<1>1. /\ t \in Seq(R) /\ DOMAIN s = 1..Len(s) /\ Len(s) \in Nat /\ Len(s) > 0 /\ Head(s) = s[1]
      /\ DOMAIN t = 1..(Len(s) - 1) /\ \A i \in 1..(Len(s) - 1) : t[i] = s[i + 1]
  BY HeadTailProperties
<1>2. f \in Bijection(Places(t, x), J)
  <2>1. f \in [Places(t, x) -> J]
    <3>1. \A i \in Places(t, x) : i + 1 \in J
      BY <1>1 DEF Places
    <3> QED
      BY <3>1
  <2>2. \A i, j \in Places(t, x) : f[i] = f[j] => i = j
    BY <1>1 DEF Places
  <2>3. \A j \in J : \E i \in Places(t, x) : f[i] = j
    <3> SUFFICES ASSUME NEW j \in J  PROVE \E i \in Places(t, x) : f[i] = j
      OBVIOUS
    <3>1. j - 1 \in Places(t, x) /\ (j - 1) + 1 = j
      BY <1>1 DEF Places
    <3> QED
      BY <3>1
  <2> HIDE DEF f, J
  <2> QED
    BY <2>1, <2>2, <2>3 DEF Bijection, Injection, Surjection, IsInjective
<1>3. IsFiniteSet(Places(s, x)) /\ T!Times(s, x) = Cardinality(Places(s, x)) /\ T!Times(s, x) \in Nat
  BY TimesAre
<1>4. J = Places(s, x) \ {1} /\ (1 \in Places(s, x) <=> x = Head(s))
  BY <1>1 DEF Places
<1> HIDE DEF t, f, J
<1>5. IsFiniteSet(Places(t, x)) /\ T!Times(t, x) = Cardinality(Places(t, x)) /\ T!Times(t, x) \in Nat
  BY <1>1, TimesAre
<1>6. Cardinality(J) = Cardinality(Places(t, x))
  BY <1>2, <1>5, FS_Bijection DEF ExistsBijection
<1>7. Cardinality(Places(s, x) \ {1}) = IF 1 \in Places(s, x) THEN Cardinality(Places(s, x)) - 1 ELSE Cardinality(Places(s, x))
  BY <1>3, FS_RemoveElement
<1>8. Cardinality(J) = IF x = Head(s) THEN T!Times(s, x) - 1 ELSE T!Times(s, x)
  BY <1>3, <1>4, <1>7
<1> QED
  BY <1>3, <1>5, <1>6, <1>8 DEF t

\* At most once where nothing is twice.
LEMMA TimesOnce ==
  ASSUME NEW R, NEW s \in Seq(R), T!NoneTwice(s), NEW x
  PROVE  T!Times(s, x) <= 1
<1>1. IsFiniteSet(Places(s, x)) /\ T!Times(s, x) = Cardinality(Places(s, x)) /\ T!Times(s, x) \in Nat
  BY TimesAre
<1>2. \A i, j \in Places(s, x) : i = j
  BY DEF Places, T!NoneTwice
<1>3. CASE Places(s, x) = {}
  <2>1. Cardinality(Places(s, x)) = 0
    BY <1>3, FS_EmptySet, Zenon
  <2> QED
    BY <1>1, <2>1
<1>4. CASE Places(s, x) # {}
  <2>1. PICK i \in Places(s, x) : Places(s, x) = {i}
    BY <1>2, <1>4
  <2>2. Cardinality(Places(s, x)) = 1
    BY <2>1, FS_Singleton, Zenon
  <2> QED
    BY <1>1, <2>2
<1> QED
  BY <1>3, <1>4

---------------------------------------------------------------------------
(* Sinks: the rows.                                                        *)

\* Events, and the three kinds of rows.
Event == [kind : {"started", "ended"}, id : Attack]
LEMMA RowsAre ==
  /\ \A a \in Attack : T!Started(a) \in T!Rows /\ T!Ended(a) \in T!Rows
  /\ \A x \in Audit : T!Audited(x) \in T!Rows /\ T!Audited(x).table = "audit"
  /\ \A a, b : T!Started(a) # T!Ended(b) /\ T!Started(a) # T!Audited(b) /\ T!Ended(a) # T!Audited(b)
  /\ \A a, b : /\ T!Started(a) = T!Started(b) => a = b
               /\ T!Ended(a) = T!Ended(b) => a = b
<1>1. \A a : /\ T!Started(a).table = "attacks" /\ T!Started(a).version = 1 /\ T!Started(a).id = a
             /\ T!Ended(a).table = "attacks" /\ T!Ended(a).version = 2 /\ T!Ended(a).id = a
             /\ T!Audited(a).table = "audit"
  BY DEF T!Started, T!Ended, T!Audited
<1>2. /\ \A a \in Attack : T!Started(a) \in T!Rows /\ T!Ended(a) \in T!Rows
      /\ \A x \in Audit : T!Audited(x) \in T!Rows
  BY DEF T!Rows
<1>3. \A a, b : T!Started(a) # T!Ended(b) /\ T!Started(a) # T!Audited(b) /\ T!Ended(a) # T!Audited(b)
  BY <1>1
<1>4. \A a, b : /\ T!Started(a) = T!Started(b) => a = b
                /\ T!Ended(a) = T!Ended(b) => a = b
  <2>1. \A a : T!Started(a).id = a /\ T!Ended(a).id = a
    BY <1>1
  <2>2. ASSUME NEW a, NEW b, T!Started(a) = T!Started(b)  PROVE a = b
    <3>1. T!Started(a).id = a /\ T!Started(b).id = b
      BY <2>1, Zenon
    <3> QED
      BY <2>2, <3>1, Zenon
  <2>3. ASSUME NEW a, NEW b, T!Ended(a) = T!Ended(b)  PROVE a = b
    <3>1. T!Ended(a).id = a /\ T!Ended(b).id = b
      BY <2>1, Zenon
    <3> QED
      BY <2>3, <3>1, Zenon
  <2> QED
    BY <2>2, <2>3, Zenon
<1> QED
  BY <1>1, <1>2, <1>3, <1>4

\* What is said of the rows.
RowsKept ==
  /\ queue \in Seq(T!Rows) /\ Len(queue) <= QueueSize
  /\ batch \cup sending \cup refused \cup dropped \cup asked \subseteq T!Rows
  /\ db \in [T!Rows -> Nat]
  /\ T!RowsOnce /\ IsFiniteSet(asked)

\* A row handed over is where it was not.
LEMMA SinksEnqueued ==
  ASSUME T!SinksAssumption, RowsKept, NEW r \in T!Rows, r \notin asked, T!Enqueued(r)
  PROVE  RowsKept' /\ asked' = asked \cup {r}
         /\ T!ToSet(queue)' \subseteq T!ToSet(queue) \cup {r}
<1>1. /\ asked' = asked \cup {r}
      /\ IF Len(queue) < QueueSize THEN queue' = Append(queue, r) /\ dropped' = dropped
         ELSE dropped' = dropped \cup {r} /\ queue' = queue
      /\ batch' = batch /\ sending' = sending /\ db' = db /\ refused' = refused
  BY DEF T!Enqueued
<1>2. /\ queue \in Seq(T!Rows) /\ Len(queue) <= QueueSize /\ Len(queue) \in Nat /\ QueueSize \in Nat
      /\ batch \cup sending \cup refused \cup dropped \cup asked \subseteq T!Rows
      /\ db \in [T!Rows -> Nat] /\ IsFiniteSet(asked)
  BY DEF RowsKept, T!SinksAssumption
<1>3. queue' \in Seq(T!Rows) /\ Len(queue') <= QueueSize
  <2>1. Append(queue, r) \in Seq(T!Rows) /\ Len(Append(queue, r)) = Len(queue) + 1
    BY <1>2, AppendProperties
  <2>2. CASE Len(queue) < QueueSize
    <3>1. queue' = Append(queue, r)
      BY <1>1, <2>2
    <3>2. Len(queue') = Len(queue) + 1
      BY <2>1, <3>1
    <3> QED
      BY <1>2, <2>1, <2>2, <3>1, <3>2
  <2>3. CASE ~(Len(queue) < QueueSize)
    BY <1>1, <1>2, <2>3
  <2> QED
    BY <2>2, <2>3
<1>4. IsFiniteSet(asked')
  BY <1>1, <1>2, FS_AddElement
<1>5. T!ToSet(queue)' \subseteq T!ToSet(queue) \cup {r}
  <2>1. CASE Len(queue) < QueueSize
    <3>1. /\ DOMAIN queue' = 1..(Len(queue) + 1) /\ DOMAIN queue = 1..Len(queue)
          /\ \A i \in 1..Len(queue) : queue'[i] = queue[i]
          /\ queue'[Len(queue) + 1] = r
      BY <1>1, <1>2, <2>1, AppendProperties
    <3> QED
      BY <1>2, <3>1 DEF T!ToSet
  <2>2. CASE ~(Len(queue) < QueueSize)
    BY <1>1, <2>2 DEF T!ToSet
  <2> QED
    BY <2>1, <2>2
<1>6. ASSUME NEW x \in T!Rows
      PROVE  T!Holding(x)' = IF x \in asked' THEN 1 ELSE 0
  <2>1. T!Holding(x) = IF x \in asked THEN 1 ELSE 0
    BY DEF RowsKept, T!RowsOnce
  <2>2. T!Times(queue, x) \in Nat /\ db[x] \in Nat
    BY <1>2, TimesAre
  <2>3. T!Has(dropped, x) + T!Has(batch, x) + T!Has(sending, x) + T!Has(refused, x) \in Nat
        /\ T!Has(dropped, x) \in {0, 1}
    BY DEF T!Has
  <2>4. CASE Len(queue) < QueueSize
    <3>1. T!Times(queue, x)' = T!Times(queue, x) + (IF x = r THEN 1 ELSE 0)
      <4>1. T!Times(queue, x)' = T!Times(queue', x)
        BY DEF T!Times
      <4>2. T!Times(Append(queue, r), x) = T!Times(queue, x) + (IF x = r THEN 1 ELSE 0)
        BY <1>2, TimesAppend
      <4> QED
        BY <1>1, <2>4, <4>1, <4>2
    <3>2. T!Holding(x)' = T!Times(queue, x)' + T!Has(batch, x) + T!Has(sending, x) + db[x] + T!Has(refused, x) + T!Has(dropped, x)
      BY <1>1, <2>4 DEF T!Holding, T!Has
    <3>3. T!Holding(x) = T!Times(queue, x) + T!Has(batch, x) + T!Has(sending, x) + db[x] + T!Has(refused, x) + T!Has(dropped, x)
      BY DEF T!Holding
    <3>4. T!Has(batch, x) \in Nat /\ T!Has(sending, x) \in Nat /\ T!Has(refused, x) \in Nat /\ T!Has(dropped, x) \in Nat
      BY DEF T!Has
    <3> QED
      BY <1>1, <2>1, <2>2, <3>1, <3>2, <3>3, <3>4
  <2>5. CASE ~(Len(queue) < QueueSize)
    <3>1. T!Times(queue, x)' = T!Times(queue, x)
      BY <1>1, <2>5 DEF T!Times
    <3>2. T!Holding(x)' = T!Times(queue, x) + T!Has(batch, x) + T!Has(sending, x) + db[x] + T!Has(refused, x) + T!Has(dropped, x)'
      BY <1>1, <3>1 DEF T!Holding, T!Has
    <3>3. T!Holding(x) = T!Times(queue, x) + T!Has(batch, x) + T!Has(sending, x) + db[x] + T!Has(refused, x) + T!Has(dropped, x)
      BY DEF T!Holding
    <3>4. T!Has(batch, x) \in Nat /\ T!Has(sending, x) \in Nat /\ T!Has(refused, x) \in Nat /\ T!Has(dropped, x) \in {0, 1}
          /\ T!Has(dropped, x)' = IF x = r THEN 1 ELSE T!Has(dropped, x)
      BY <1>1, <2>5 DEF T!Has
    <3>5. x = r => T!Has(dropped, x) = 0
      BY <2>1, <2>2, <3>3, <3>4
    <3> QED
      BY <1>1, <2>1, <2>2, <3>2, <3>3, <3>4, <3>5
  <2> QED
    BY <2>4, <2>5
<1>7. T!RowsOnce'
  BY <1>6 DEF T!RowsOnce
<1> QED
  BY <1>1, <1>2, <1>3, <1>4, <1>5, <1>7 DEF RowsKept

\* The places a row can be in, and that it is in one of them if it was handed over.
LEMMA SinksHolding ==
  ASSUME RowsKept, NEW x \in T!Rows
  PROVE  /\ T!Times(queue, x) \in Nat /\ db[x] \in Nat
         /\ T!Has(batch, x) \in {0, 1} /\ T!Has(sending, x) \in {0, 1}
         /\ T!Has(refused, x) \in {0, 1} /\ T!Has(dropped, x) \in {0, 1}
         /\ T!Times(queue, x) + T!Has(batch, x) + T!Has(sending, x) + db[x] + T!Has(refused, x) + T!Has(dropped, x)
              = IF x \in asked THEN 1 ELSE 0
<1>1. T!Times(queue, x) \in Nat
  BY TimesAre DEF RowsKept
<1>2. T!Holding(x) = IF x \in asked THEN 1 ELSE 0
  BY DEF RowsKept, T!RowsOnce
<1> QED
  BY <1>1, <1>2 DEF RowsKept, T!Holding, T!Has

\* A row taken from the queue is in the batch.
LEMMA SinksBatch ==
  ASSUME T!SinksAssumption, RowsKept, T!Batch
  PROVE  RowsKept'
<1> DEFINE r == Head(queue)
<1>1. /\ queue # <<>> /\ queue' = Tail(queue) /\ batch' = batch \cup {r}
      /\ sending' = sending /\ db' = db /\ refused' = refused /\ dropped' = dropped /\ asked' = asked
  BY DEF T!Batch
<1>2. queue \in Seq(T!Rows) /\ Len(queue) <= QueueSize /\ Len(queue) \in Nat
  BY DEF RowsKept
<1>3. r \in T!Rows /\ queue' \in Seq(T!Rows) /\ Len(queue') = Len(queue) - 1
  BY <1>1, <1>2, HeadTailProperties
<1>4. Len(queue') <= QueueSize
  BY <1>2, <1>3 DEF T!SinksAssumption
<1>5. ASSUME NEW x \in T!Rows
      PROVE  T!Holding(x)' = IF x \in asked' THEN 1 ELSE 0
  <2>1. /\ T!Times(queue, x) \in Nat /\ db[x] \in Nat
        /\ T!Has(batch, x) \in {0, 1} /\ T!Has(sending, x) \in {0, 1}
        /\ T!Has(refused, x) \in {0, 1} /\ T!Has(dropped, x) \in {0, 1}
        /\ T!Times(queue, x) + T!Has(batch, x) + T!Has(sending, x) + db[x] + T!Has(refused, x) + T!Has(dropped, x)
             = IF x \in asked THEN 1 ELSE 0
    BY SinksHolding
  <2>2. T!Times(queue, x) = T!Times(Tail(queue), x) + (IF x = r THEN 1 ELSE 0)
    BY <1>1, <1>2, TimesTail
  <2>3. T!Times(queue', x) \in Nat
    BY <1>3, TimesAre
  <2>4. x = r => T!Has(batch, x) = 0
    BY <1>1, <2>1, <2>2, <2>3
  <2>5. T!Has(batch', x) = IF x = r THEN 1 ELSE T!Has(batch, x)
    BY <1>1 DEF T!Has
  <2>6. T!Holding(x)' = T!Times(queue', x) + T!Has(batch', x) + T!Has(sending, x) + db[x] + T!Has(refused, x) + T!Has(dropped, x)
    BY <1>1 DEF T!Holding, T!Times, T!Has
  <2> QED
    BY <1>1, <2>1, <2>2, <2>3, <2>4, <2>5, <2>6
<1>6. T!RowsOnce'
  BY <1>5 DEF T!RowsOnce
<1>7. batch' \cup sending' \cup refused' \cup dropped' \cup asked' \subseteq T!Rows /\ db' \in [T!Rows -> Nat] /\ IsFiniteSet(asked')
  BY <1>1, <1>3 DEF RowsKept
<1> QED
  BY <1>2, <1>3, <1>4, <1>6, <1>7 DEF RowsKept

\* A batch is flushed into what is being sent, and what is sent arrives or is given up.
LEMMA SinksSend ==
  ASSUME RowsKept, T!Flush \/ \E t \in T!Tables, ok \in BOOLEAN : T!Send(t, ok)
  PROVE  RowsKept'
<1>1. /\ queue' = queue /\ asked' = asked /\ dropped' = dropped
      /\ batch' \cup sending' \cup refused' \subseteq batch \cup sending \cup refused
      /\ db' \in [T!Rows -> Nat]
  BY DEF RowsKept, T!Flush, T!Send, T!ResetBatch
<1>2. ASSUME NEW x \in T!Rows
      PROVE  T!Holding(x)' = IF x \in asked' THEN 1 ELSE 0
  <2>1. /\ T!Times(queue, x) \in Nat /\ db[x] \in Nat
        /\ T!Has(batch, x) \in {0, 1} /\ T!Has(sending, x) \in {0, 1}
        /\ T!Has(refused, x) \in {0, 1} /\ T!Has(dropped, x) \in {0, 1}
        /\ T!Times(queue, x) + T!Has(batch, x) + T!Has(sending, x) + db[x] + T!Has(refused, x) + T!Has(dropped, x)
             = IF x \in asked THEN 1 ELSE 0
    BY SinksHolding
  <2>2. T!Holding(x)' = T!Times(queue, x) + T!Has(batch', x) + T!Has(sending', x) + db'[x] + T!Has(refused', x) + T!Has(dropped, x)
    BY <1>1 DEF T!Holding, T!Times, T!Has
  <2>3. CASE T!Flush
    <3>1. T!Has(batch', x) = T!Has(sending, x) /\ T!Has(sending', x) = T!Has(batch, x) /\ db' = db /\ refused' = refused
      BY <2>3 DEF T!Flush, T!ResetBatch, T!Has
    <3> QED
      BY <1>1, <2>1, <2>2, <3>1
  <2>4. ASSUME NEW t \in T!Tables, NEW ok \in BOOLEAN, T!Send(t, ok)
        PROVE  T!Holding(x)' = IF x \in asked' THEN 1 ELSE 0
    <3> DEFINE rows == {q \in sending : q.table = t}
    <3>1. batch' = batch /\ sending' = sending \ rows
      BY <2>4 DEF T!Send
    <3>2. IF ok THEN db' = [q \in T!Rows |-> IF q \in rows THEN db[q] + 1 ELSE db[q]] /\ refused' = refused
          ELSE refused' = refused \cup rows /\ db' = db
      BY <2>4 DEF T!Send
    <3>3. x \in rows => x \in sending
      OBVIOUS
    <3> HIDE DEF rows
    <3>4. T!Has(sending', x) = (IF x \in rows THEN 0 ELSE T!Has(sending, x)) /\ (x \in rows => T!Has(sending, x) = 1)
      BY <3>1, <3>3 DEF T!Has
    <3>5. CASE ok
      <4>1. db'[x] = IF x \in rows THEN db[x] + 1 ELSE db[x]
        BY <3>2, <3>5
      <4> QED
        BY <1>1, <2>1, <2>2, <3>1, <3>2, <3>4, <3>5, <4>1
    <3>6. CASE ~ok
      <4>1. T!Has(refused', x) = IF x \in rows THEN 1 ELSE T!Has(refused, x)
        BY <3>2, <3>6 DEF T!Has
      <4> QED
        BY <1>1, <2>1, <2>2, <3>1, <3>2, <3>4, <3>6, <4>1
    <3> QED
      BY <3>5, <3>6
  <2> QED
    BY <2>3, <2>4
<1>3. T!RowsOnce'
  BY <1>2 DEF T!RowsOnce
<1> QED
  BY <1>1, <1>3 DEF RowsKept

---------------------------------------------------------------------------
(* Sinks: sequences in which nothing is twice.                             *)

\* Nothing is twice after something new is appended.
LEMMA OnceAppend ==
  ASSUME NEW R, NEW s \in Seq(R), NEW y \in R
  PROVE  /\ Append(s, y) \in Seq(R) /\ Len(Append(s, y)) = Len(s) + 1
         /\ T!ToSet(Append(s, y)) = T!ToSet(s) \cup {y}
         /\ T!NoneTwice(s) /\ y \notin T!ToSet(s) => T!NoneTwice(Append(s, y))
<1> DEFINE t == Append(s, y)
           n == Len(s) + 1
<1>1. t \in Seq(R) /\ Len(t) = n /\ DOMAIN t = 1..n /\ DOMAIN s = 1..Len(s) /\ Len(s) \in Nat
      /\ t[n] = y /\ \A i \in 1..Len(s) : t[i] = s[i]
  BY AppendProperties
<1> HIDE DEF t
<1>2. T!ToSet(t) = T!ToSet(s) \cup {y}
  <2>1. ASSUME NEW i \in DOMAIN t  PROVE t[i] \in T!ToSet(s) \cup {y}
    BY <1>1 DEF T!ToSet
  <2>2. ASSUME NEW z \in T!ToSet(s) \cup {y}  PROVE \E i \in DOMAIN t : t[i] = z
    <3>1. CASE z = y
      BY <1>1, <3>1
    <3>2. CASE z \in T!ToSet(s)
      <4>1. PICK i \in DOMAIN s : s[i] = z
        BY <3>2 DEF T!ToSet
      <4>2. i \in DOMAIN t /\ t[i] = z
        BY <1>1, <4>1
      <4> QED
        BY <4>2
    <3> QED
      BY <3>1, <3>2
  <2>3. T!ToSet(t) = {t[i] : i \in DOMAIN t}
    BY DEF T!ToSet
  <2> HIDE DEF n
  <2> QED
    BY <2>1, <2>2, <2>3
<1>3. ASSUME T!NoneTwice(s), y \notin T!ToSet(s)  PROVE T!NoneTwice(t)
  <2>1. \A i \in 1..Len(s) : s[i] # y
    BY <1>1, <1>3 DEF T!ToSet
  <2>2. \A i, j \in 1..n : t[i] = t[j] => i = j
    BY <1>1, <1>3, <2>1 DEF T!NoneTwice
  <2> QED
    BY <1>1, <2>2 DEF T!NoneTwice
<1> QED
  BY <1>1, <1>2, <1>3 DEF t

\* Nor in the rest of a sequence, where its head is not.
LEMMA OnceTail ==
  ASSUME NEW R, NEW s \in Seq(R), s # <<>>
  PROVE  /\ Head(s) \in T!ToSet(s) /\ Head(s) \in R /\ Tail(s) \in Seq(R) /\ Len(Tail(s)) = Len(s) - 1
         /\ T!ToSet(Tail(s)) \subseteq T!ToSet(s)
         /\ T!NoneTwice(s) => T!NoneTwice(Tail(s)) /\ Head(s) \notin T!ToSet(Tail(s))
<1> DEFINE t == Tail(s)
<1>1. /\ t \in Seq(R) /\ DOMAIN s = 1..Len(s) /\ Len(s) \in Nat /\ Len(s) > 0 /\ Head(s) = s[1]
      /\ Len(t) = Len(s) - 1 /\ Head(s) \in R
      /\ DOMAIN t = 1..(Len(s) - 1) /\ \A i \in 1..(Len(s) - 1) : t[i] = s[i + 1]
  BY HeadTailProperties
<1> HIDE DEF t
<1>2. Head(s) \in T!ToSet(s)
  BY <1>1 DEF T!ToSet
<1>3. T!ToSet(t) \subseteq T!ToSet(s)
  BY <1>1 DEF T!ToSet
<1>4. ASSUME T!NoneTwice(s)  PROVE T!NoneTwice(t) /\ Head(s) \notin T!ToSet(t)
  <2>1. \A i, j \in 1..(Len(s) - 1) : t[i] = t[j] => i = j
    BY <1>1, <1>4 DEF T!NoneTwice
  <2>2. \A i \in 1..(Len(s) - 1) : t[i] # Head(s)
    BY <1>1, <1>4 DEF T!NoneTwice
  <2> QED
    BY <1>1, <2>1, <2>2 DEF T!NoneTwice, T!ToSet
<1> QED
  BY <1>1, <1>2, <1>3, <1>4 DEF t

\* Nor in the reverse.
LEMMA OnceReverse ==
  ASSUME NEW R, NEW s \in Seq(R), T!NoneTwice(s)
  PROVE  T!Reverse(s) \in Seq(R) /\ T!NoneTwice(T!Reverse(s))
<1> DEFINE t == T!Reverse(s)
<1>1. DOMAIN s = 1..Len(s) /\ Len(s) \in Nat /\ \A i \in 1..Len(s) : s[i] \in R
  BY ElementOfSeq
<1>2. t = [i \in 1..Len(s) |-> s[(Len(s) - i) + 1]]
  BY DEF T!Reverse
<1> HIDE DEF t
<1>3. \A i \in 1..Len(s) : (Len(s) - i) + 1 \in 1..Len(s)
  BY <1>1
<1>4. t \in [1..Len(s) -> R]
  BY <1>1, <1>2, <1>3
<1>5. t \in Seq(R) /\ DOMAIN t = 1..Len(s)
  BY <1>1, <1>4, SeqDef
<1>6. \A i, j \in 1..Len(s) : t[i] = t[j] => i = j
  BY <1>1, <1>2, <1>3 DEF T!NoneTwice
<1> QED
  BY <1>5, <1>6 DEF T!NoneTwice, t

\* A finite set listed is a sequence of it in which nothing is twice.
LEMMA OnceListed ==
  ASSUME NEW R, IsFiniteSet(R)
  PROVE  T!SetToSeq(R) \in Seq(R) /\ T!NoneTwice(T!SetToSeq(R))
<1> DEFINE n == Cardinality(R)
           t == T!SetToSeq(R)
<1>1. n \in Nat /\ ExistsBijection(1..n, R)
  BY FS_CardinalityType
<1>2. T!Cardinality(R) = n
  BY SinksCounted
<1>3. \E f \in [1..n -> R] : T!IsInjective(f)
  BY <1>1 DEF ExistsBijection, Bijection, Injection, IsInjective, T!IsInjective
<1>4. t = CHOOSE f \in [1..n -> R] : T!IsInjective(f)
  BY <1>2 DEF T!SetToSeq
<1> HIDE DEF t, n
<1>5. t \in [1..n -> R] /\ T!IsInjective(t)
  BY <1>3, <1>4
<1>6. t \in Seq(R) /\ DOMAIN t = 1..n
  BY <1>1, <1>5, SeqDef
<1> QED
  BY <1>5, <1>6 DEF T!NoneTwice, T!IsInjective, t

\* Nor in one sequence after another with none of its own.
LEMMA OnceJoined ==
  ASSUME NEW R, NEW s \in Seq(R), NEW t \in Seq(R), T!NoneTwice(s), T!NoneTwice(t),
         \A i \in DOMAIN t : t[i] \notin T!ToSet(s)
  PROVE  (s \o t) \in Seq(R) /\ T!NoneTwice(s \o t)
<1> DEFINE u == s \o t
<1>1. /\ u \in Seq(R) /\ Len(u) = Len(s) + Len(t) /\ Len(s) \in Nat /\ Len(t) \in Nat
      /\ DOMAIN s = 1..Len(s) /\ DOMAIN t = 1..Len(t) /\ DOMAIN u = 1..(Len(s) + Len(t))
      /\ \A i \in 1..(Len(s) + Len(t)) : u[i] = IF i <= Len(s) THEN s[i] ELSE t[i - Len(s)]
  BY ConcatProperties
<1> HIDE DEF u
<1>2. \A i \in 1..Len(s), j \in 1..Len(t) : s[i] # t[j]
  BY <1>1 DEF T!ToSet
<1>3. ASSUME NEW i \in 1..(Len(s) + Len(t)), NEW j \in 1..(Len(s) + Len(t)), u[i] = u[j]
      PROVE  i = j
  <2>1. CASE i <= Len(s) /\ j <= Len(s)
    <3>1. i \in DOMAIN s /\ j \in DOMAIN s /\ s[i] = s[j]
      BY <1>1, <1>3, <2>1
    <3> QED
      BY <3>1 DEF T!NoneTwice
  <2>2. CASE i > Len(s) /\ j > Len(s)
    <3>1. i - Len(s) \in 1..Len(t) /\ j - Len(s) \in 1..Len(t) /\ t[i - Len(s)] = t[j - Len(s)]
      BY <1>1, <1>3, <2>2
    <3>2. i - Len(s) = j - Len(s)
      BY <1>1, <3>1 DEF T!NoneTwice
    <3> QED
      BY <1>1, <3>2
  <2>3. CASE i <= Len(s) /\ j > Len(s)
    <3>1. i \in 1..Len(s) /\ j - Len(s) \in 1..Len(t) /\ s[i] = t[j - Len(s)]
      BY <1>1, <1>3, <2>3
    <3> QED
      BY <1>2, <3>1
  <2>4. CASE i > Len(s) /\ j <= Len(s)
    <3>1. j \in 1..Len(s) /\ i - Len(s) \in 1..Len(t) /\ s[j] = t[i - Len(s)]
      BY <1>1, <1>3, <2>4
    <3> QED
      BY <1>2, <3>1
  <2> QED
    BY <1>1, <2>1, <2>2, <2>3, <2>4
<1> QED
  BY <1>1, <1>3 DEF T!NoneTwice, u

---------------------------------------------------------------------------
(* Sinks: the events.                                                      *)

\* What is said of the events and of the attack table.
EventsKept ==
  /\ engine \in [Attack -> {"quiet", "started", "ended"}]
  /\ events \in Seq(Event) /\ Len(events) <= EventCap
  /\ active \cup open \subseteq Attack /\ recent \in Seq(Attack) /\ Len(recent) <= MaxRecent
  /\ T!HistoryTrue /\ T!EventsNews /\ T!ToldAfter /\ T!NoneTwice(recent)

\* The engine's next event is news.
LEMMA SinksEmit ==
  ASSUME T!SinksAssumption, EventsKept, NEW a \in Attack, T!Emit(a)
  PROVE  EventsKept'
<1> PICK e : e = [kind |-> engine'[a], id |-> a]
  OBVIOUS
<1>1. /\ engine[a] \in {"quiet", "started"}
      /\ engine' = [engine EXCEPT ![a] = IF @ = "quiet" THEN "started" ELSE "ended"]
      /\ events' = IF Len(events) < EventCap THEN Append(events, e) ELSE events
      /\ active' = active /\ recent' = recent /\ open' = open /\ asked' = asked
  BY DEF T!Emit, T!table, T!writer
<1>2. /\ engine \in [Attack -> {"quiet", "started", "ended"}] /\ events \in Seq(Event)
      /\ Len(events) \in Nat /\ Len(events) <= EventCap /\ EventCap \in Nat
      /\ T!NoneTwice(events) /\ \A x \in T!ToSet(events) : T!News(x) /\ x \in Event
  <2>1. \A x \in T!ToSet(events) : x \in Event
    <3>1. \A i \in DOMAIN events : events[i] \in Event
      BY ElementOfSeq DEF EventsKept
    <3> QED
      BY <3>1 DEF T!ToSet
  <2> QED
    BY <2>1 DEF EventsKept, T!EventsNews, T!SinksAssumption
<1>3. /\ engine' \in [Attack -> {"quiet", "started", "ended"}]
      /\ engine'[a] = IF engine[a] = "quiet" THEN "started" ELSE "ended"
      /\ \A b \in Attack : b # a => engine'[b] = engine[b]
  BY <1>1, <1>2
<1>4. e \in Event /\ e.kind = engine'[a] /\ e.id = a
  BY <1>3 DEF Event
<1>5. \A b \in Attack : (engine[b] # "quiet" => engine'[b] # "quiet") /\ (engine[b] = "ended" => engine'[b] = "ended")
  BY <1>1, <1>3
<1>6. T!HistoryTrue' /\ T!ToldAfter' /\ T!NoneTwice(recent)'
  BY <1>1, <1>5 DEF EventsKept, T!HistoryTrue, T!ToldAfter, T!NoneTwice, T!ToSet
<1>7. ASSUME NEW x \in T!ToSet(events)  PROVE T!News(x)' /\ x # e
  <2>1. x \in Event /\ T!News(x) /\ x.id \in Attack
    BY <1>2 DEF Event
  <2>2. T!News(x)' = IF x.kind = "started" THEN engine'[x.id] # "quiet" /\ T!Started(x.id) \notin asked
                     ELSE engine'[x.id] = "ended" /\ T!Ended(x.id) \notin asked /\ x.id \notin T!ToSet(recent)
    BY <1>1 DEF T!News, T!Started, T!Ended, T!ToSet
  <2>3. T!News(x)'
    BY <1>5, <2>1, <2>2 DEF T!News
  <2>4. x # e
    BY <1>1, <1>3, <1>4, <2>1 DEF T!News
  <2> QED
    BY <2>3, <2>4
<1>8. T!News(e)'
  <2>1. T!News(e)' = IF e.kind = "started" THEN engine'[e.id] # "quiet" /\ T!Started(e.id) \notin asked
                     ELSE engine'[e.id] = "ended" /\ T!Ended(e.id) \notin asked /\ e.id \notin T!ToSet(recent)
    BY <1>1, <1>4 DEF T!News, T!Started, T!Ended, T!ToSet
  <2>2. /\ T!Started(a) \in asked => engine[a] # "quiet"
        /\ T!Ended(a) \in asked => engine[a] = "ended"
        /\ a \in T!ToSet(recent) => engine[a] = "ended"
    BY DEF EventsKept, T!HistoryTrue, T!ToldAfter
  <2> QED
    BY <1>1, <1>3, <1>4, <2>1, <2>2
<1>9. /\ events' \in Seq(Event) /\ Len(events') <= EventCap /\ T!NoneTwice(events')
      /\ T!ToSet(events') \subseteq T!ToSet(events) \cup {e}
  <2>1. /\ Append(events, e) \in Seq(Event) /\ Len(Append(events, e)) = Len(events) + 1
        /\ T!ToSet(Append(events, e)) = T!ToSet(events) \cup {e}
        /\ T!NoneTwice(Append(events, e))
    BY <1>2, <1>4, <1>7, OnceAppend
  <2>2. CASE Len(events) < EventCap
    BY <1>1, <1>2, <2>1, <2>2
  <2>3. CASE ~(Len(events) < EventCap)
    BY <1>1, <1>2, <2>3
  <2> QED
    BY <2>2, <2>3
<1>10. T!EventsNews'
  <2>1. T!EventsNews' <=> T!NoneTwice(events') /\ \A x \in T!ToSet(events') : T!News(x)'
    BY DEF T!EventsNews, T!NoneTwice, T!ToSet
  <2> QED
    BY <1>7, <1>8, <1>9, <2>1
<1> QED
  BY <1>1, <1>3, <1>6, <1>9, <1>10 DEF EventsKept

\* An event at the head is told, and those behind it stay news.
LEMMA SinksConsumed ==
  ASSUME T!SinksAssumption, EventsKept, events # <<>>, events' = Tail(events), engine' = engine,
         NEW a \in Attack, a = Head(events).id,
         \/ /\ Head(events).kind = "started" /\ asked' = asked \cup {T!Started(a)}
            /\ recent' = recent
         \/ /\ Head(events).kind = "ended" /\ asked' \subseteq asked \cup {T!Ended(a)}
            /\ T!ToSet(recent') \subseteq T!ToSet(recent) \cup {a}
  PROVE  events' \in Seq(Event) /\ Len(events') <= EventCap /\ T!EventsNews'
<1> DEFINE e == Head(events)
<1>1. events \in Seq(Event) /\ T!NoneTwice(events) /\ \A x \in T!ToSet(events) : T!News(x)
  BY DEF EventsKept, T!EventsNews
<1>2. /\ e \in T!ToSet(events) /\ e \in Event /\ events' \in Seq(Event) /\ Len(events') = Len(events) - 1
      /\ T!ToSet(events') \subseteq T!ToSet(events)
      /\ T!NoneTwice(events') /\ e \notin T!ToSet(events')
  BY <1>1, OnceTail
<1>3. Len(events') <= EventCap
  BY <1>1, <1>2 DEF EventsKept, T!SinksAssumption
<1> HIDE DEF e
<1>4. \A x \in T!ToSet(events') : x \in Event
  <2>1. \A i \in DOMAIN events' : events'[i] \in Event
    BY <1>2, ElementOfSeq
  <2> QED
    BY <2>1 DEF T!ToSet
<1>5. ASSUME NEW x \in T!ToSet(events')  PROVE T!News(x)'
  <2>1. T!News(x) /\ x \in Event /\ x # e
    BY <1>1, <1>2, <1>4
  <2>2. T!News(x)' = IF x.kind = "started" THEN engine[x.id] # "quiet" /\ T!Started(x.id) \notin asked'
                     ELSE engine[x.id] = "ended" /\ T!Ended(x.id) \notin asked' /\ x.id \notin T!ToSet(recent')
    BY DEF T!News, T!Started, T!Ended, T!ToSet
  <2>3. x.kind = e.kind => x.id # a
    BY <1>2, <2>1 DEF Event, e
  <2>4. x.kind \in {"started", "ended"} /\ e.kind \in {"started", "ended"} /\ e.kind = Head(events).kind
    BY <1>2, <2>1 DEF Event, e
  <2>5. CASE x.kind = "started"
    <3>1. engine[x.id] # "quiet" /\ T!Started(x.id) \notin asked
      BY <2>1, <2>5 DEF T!News
    <3>2. T!Started(x.id) \notin asked'
      BY <2>3, <2>4, <2>5, <3>1, RowsAre
    <3> QED
      BY <2>2, <2>5, <3>1, <3>2
  <2>6. CASE x.kind = "ended"
    <3>1. engine[x.id] = "ended" /\ T!Ended(x.id) \notin asked /\ x.id \notin T!ToSet(recent)
      BY <2>1, <2>6 DEF T!News
    <3>2. T!Ended(x.id) \notin asked' /\ x.id \notin T!ToSet(recent')
      BY <2>3, <2>4, <2>6, <3>1, RowsAre
    <3> QED
      BY <2>2, <2>6, <3>1, <3>2
  <2> QED
    BY <2>4, <2>5, <2>6
<1>6. T!EventsNews' <=> T!NoneTwice(events') /\ \A x \in T!ToSet(events') : T!News(x)'
  BY DEF T!EventsNews, T!NoneTwice, T!ToSet
<1> QED
  BY <1>2, <1>3, <1>5, <1>6

\* The consumer tells a start: a row to complete is one it handed over.
LEMMA SinksStarted ==
  ASSUME T!SinksAssumption, RowsKept, EventsKept, T!ConsumeStarted
  PROVE  RowsKept' /\ EventsKept'
<1> DEFINE a == Head(events).id
<1>1. /\ events # <<>> /\ Head(events).kind = "started" /\ events' = Tail(events)
      /\ active' = active \cup {a} /\ open' = open \cup {a}
      /\ T!Enqueued(T!Started(a)) /\ engine' = engine /\ recent' = recent
  BY DEF T!ConsumeStarted
<1>2. a \in Attack /\ engine[a] # "quiet" /\ T!Started(a) \notin asked
  <2>1. Head(events) \in T!ToSet(events) /\ Head(events) \in Event
    BY <1>1, OnceTail DEF EventsKept
  <2>2. T!News(Head(events))
    BY <2>1 DEF EventsKept, T!EventsNews
  <2> QED
    BY <1>1, <2>1, <2>2 DEF Event, T!News
<1> HIDE DEF a
<1>3. RowsKept' /\ asked' = asked \cup {T!Started(a)}
  BY <1>1, <1>2, RowsAre, SinksEnqueued
<1>4. events' \in Seq(Event) /\ Len(events') <= EventCap /\ T!EventsNews'
  BY <1>1, <1>2, <1>3, SinksConsumed DEF a
<1>5. T!HistoryTrue'
  <2>1. \A b \in Attack : T!Ended(b) \in asked' => T!Ended(b) \in asked
    BY <1>3, RowsAre
  <2>2. T!HistoryTrue' <=> \A b \in Attack : T!Ended(b) \in asked' => engine[b] = "ended" /\ T!Started(b) \in asked'
    BY <1>1 DEF T!HistoryTrue, T!Started, T!Ended
  <2> QED
    BY <1>3, <2>1, <2>2 DEF EventsKept, T!HistoryTrue
<1>6. T!ToldAfter'
  <2>1. \A b \in Attack : T!Started(b) \in asked' => T!Started(b) \in asked \/ b = a
    BY <1>3, RowsAre
  <2>2. T!ToldAfter' <=> \A b \in Attack : /\ T!Started(b) \in asked' => engine[b] # "quiet"
                                           /\ b \in T!ToSet(recent) => engine[b] = "ended"
                                           /\ b \in open' => T!Started(b) \in asked'
    BY <1>1 DEF T!ToldAfter, T!Started, T!ToSet
  <2> QED
    BY <1>1, <1>2, <1>3, <2>1, <2>2 DEF EventsKept, T!ToldAfter
<1>7. active' \cup open' \subseteq Attack /\ recent' \in Seq(Attack) /\ Len(recent') <= MaxRecent /\ T!NoneTwice(recent)'
  BY <1>1, <1>2 DEF EventsKept, T!NoneTwice
<1>8. engine' \in [Attack -> {"quiet", "started", "ended"}]
  BY <1>1 DEF EventsKept
<1> QED
  BY <1>3, <1>4, <1>5, <1>6, <1>7, <1>8 DEF EventsKept

\* It tells an end, and completes the row it handed over.
LEMMA SinksEnded ==
  ASSUME T!SinksAssumption, RowsKept, EventsKept, T!ConsumeEnded
  PROVE  RowsKept' /\ EventsKept'
<1> DEFINE a == Head(events).id
           s == Append(recent, a)
<1>1. /\ events # <<>> /\ Head(events).kind = "ended" /\ events' = Tail(events)
      /\ active' = active \ {a} /\ open' = open \ {a} /\ recent' = T!Kept(s)
      /\ engine' = engine
  BY DEF T!ConsumeEnded
<1>2. IF a \in open THEN T!Enqueued(T!Ended(a)) ELSE UNCHANGED T!writer
  BY DEF T!ConsumeEnded
<1>3. a \in Attack /\ engine[a] = "ended" /\ T!Ended(a) \notin asked /\ a \notin T!ToSet(recent)
  <2>1. Head(events) \in T!ToSet(events) /\ Head(events) \in Event
    BY <1>1, OnceTail DEF EventsKept
  <2>2. T!News(Head(events))
    BY <2>1 DEF EventsKept, T!EventsNews
  <2> QED
    BY <1>1, <2>1, <2>2 DEF Event, T!News
<1> HIDE DEF a
<1>4. /\ recent' \in Seq(Attack) /\ Len(recent') <= MaxRecent /\ T!NoneTwice(recent')
      /\ T!ToSet(recent') \subseteq T!ToSet(recent) \cup {a}
  <2>1. recent \in Seq(Attack) /\ Len(recent) \in Nat /\ Len(recent) <= MaxRecent /\ MaxRecent \in Nat /\ T!NoneTwice(recent)
    BY DEF EventsKept, T!SinksAssumption
  <2>2. s \in Seq(Attack) /\ Len(s) = Len(recent) + 1 /\ T!ToSet(s) = T!ToSet(recent) \cup {a} /\ T!NoneTwice(s)
    BY <1>3, <2>1, OnceAppend
  <2> HIDE DEF s
  <2>3. s # <<>>
    BY <2>1, <2>2
  <2>4. Tail(s) \in Seq(Attack) /\ Len(Tail(s)) = Len(s) - 1 /\ T!NoneTwice(Tail(s)) /\ T!ToSet(Tail(s)) \subseteq T!ToSet(s)
    BY <2>2, <2>3, OnceTail
  <2>5. CASE Len(s) > MaxRecent
    <3>1. recent' = Tail(s)
      BY <1>1, <2>5 DEF T!Kept
    <3> QED
      BY <2>1, <2>2, <2>4, <3>1
  <2>6. CASE ~(Len(s) > MaxRecent)
    <3>1. recent' = s
      BY <1>1, <2>6 DEF T!Kept
    <3> QED
      BY <2>1, <2>2, <2>6, <3>1
  <2> QED
    BY <2>5, <2>6
<1>5. RowsKept' /\ asked' \subseteq asked \cup {T!Ended(a)} /\ asked \subseteq asked'
      /\ (T!Ended(a) \in asked' => a \in open)
  <2>1. CASE a \in open
    BY <1>2, <1>3, <2>1, RowsAre, SinksEnqueued
  <2>2. CASE a \notin open
    BY <1>2, <1>3, <2>2 DEF RowsKept, T!RowsOnce, T!Holding, T!Times, T!Has, T!writer
  <2> QED
    BY <2>1, <2>2
<1>6. events' \in Seq(Event) /\ Len(events') <= EventCap /\ T!EventsNews'
  BY <1>1, <1>3, <1>4, <1>5, SinksConsumed DEF a
<1>7. T!HistoryTrue'
  <2>1. \A b \in Attack : T!Ended(b) \in asked' => T!Ended(b) \in asked \/ b = a
    BY <1>5, RowsAre
  <2>2. T!HistoryTrue' <=> \A b \in Attack : T!Ended(b) \in asked' => engine[b] = "ended" /\ T!Started(b) \in asked'
    BY <1>1 DEF T!HistoryTrue, T!Started, T!Ended
  <2> QED
    BY <1>3, <1>5, <2>1, <2>2 DEF EventsKept, T!HistoryTrue, T!ToldAfter
<1>8. T!ToldAfter'
  <2>1. \A b \in Attack : T!Started(b) \in asked' => T!Started(b) \in asked
    BY <1>5, RowsAre
  <2>2. T!ToldAfter' <=> \A b \in Attack : /\ T!Started(b) \in asked' => engine[b] # "quiet"
                                           /\ b \in T!ToSet(recent') => engine[b] = "ended"
                                           /\ b \in open' => T!Started(b) \in asked'
    BY <1>1 DEF T!ToldAfter, T!Started, T!ToSet
  <2> QED
    BY <1>1, <1>3, <1>4, <1>5, <2>1, <2>2 DEF EventsKept, T!ToldAfter
<1>9. active' \cup open' \subseteq Attack /\ engine' \in [Attack -> {"quiet", "started", "ended"}]
  BY <1>1 DEF EventsKept
<1>10. T!NoneTwice(recent)'
  BY <1>4 DEF T!NoneTwice
<1> QED
  BY <1>4, <1>5, <1>6, <1>7, <1>8, <1>9, <1>10 DEF EventsKept

\* An operator's action is a row of its own.
LEMMA SinksAudited ==
  ASSUME T!SinksAssumption, RowsKept, EventsKept, NEW x \in Audit, T!RecordAudit(x)
  PROVE  RowsKept' /\ EventsKept' /\ T!ToSet(queue') \subseteq T!ToSet(queue) \cup {T!Audited(x)}
<1>1. /\ T!Audited(x) \notin asked /\ T!Enqueued(T!Audited(x))
      /\ engine' = engine /\ events' = events /\ active' = active /\ recent' = recent /\ open' = open
  BY DEF T!RecordAudit, T!table
<1>2. RowsKept' /\ asked' = asked \cup {T!Audited(x)} /\ T!ToSet(queue)' \subseteq T!ToSet(queue) \cup {T!Audited(x)}
  BY <1>1, RowsAre, SinksEnqueued
<1>3. T!ToSet(queue)' = T!ToSet(queue')
  BY DEF T!ToSet
<1>4. \A b : (T!Started(b) \in asked' <=> T!Started(b) \in asked) /\ (T!Ended(b) \in asked' <=> T!Ended(b) \in asked)
  BY <1>2, RowsAre
<1>5. T!HistoryTrue'
  <2>1. T!HistoryTrue' <=> \A b \in Attack : T!Ended(b) \in asked' => engine[b] = "ended" /\ T!Started(b) \in asked'
    BY <1>1 DEF T!HistoryTrue, T!Started, T!Ended
  <2> QED
    BY <1>4, <2>1 DEF EventsKept, T!HistoryTrue
<1>6. T!ToldAfter'
  <2>1. T!ToldAfter' <=> \A b \in Attack : /\ T!Started(b) \in asked' => engine[b] # "quiet"
                                           /\ b \in T!ToSet(recent) => engine[b] = "ended"
                                           /\ b \in open => T!Started(b) \in asked'
    BY <1>1 DEF T!ToldAfter, T!Started, T!ToSet
  <2> QED
    BY <1>4, <2>1 DEF EventsKept, T!ToldAfter
<1>7. T!EventsNews'
  <2>1. T!EventsNews' <=> T!NoneTwice(events) /\ \A e \in T!ToSet(events) : T!News(e)'
    BY <1>1 DEF T!EventsNews, T!NoneTwice, T!ToSet
  <2>2. ASSUME NEW e \in T!ToSet(events)  PROVE T!News(e)'
    <3>1. T!News(e)' = IF e.kind = "started" THEN engine[e.id] # "quiet" /\ T!Started(e.id) \notin asked'
                       ELSE engine[e.id] = "ended" /\ T!Ended(e.id) \notin asked' /\ e.id \notin T!ToSet(recent)
      BY <1>1 DEF T!News, T!Started, T!Ended, T!ToSet
    <3>2. T!News(e)
      BY DEF EventsKept, T!EventsNews
    <3> QED
      BY <1>4, <3>1, <3>2 DEF T!News
  <2> QED
    BY <2>1, <2>2 DEF EventsKept, T!EventsNews
<1> QED
  BY <1>1, <1>2, <1>3, <1>5, <1>6, <1>7 DEF EventsKept, T!NoneTwice

---------------------------------------------------------------------------
(* Sinks: the answer, and the shutdown.                                    *)

\* What is said of an answer.
ReadKept == reading \in BOOLEAN /\ shown \in Seq(Attack) /\ T!NoneTwice(shown)

\* An answer begins as the ring, and what the database adds to it is not in it.
LEMMA SinksRead ==
  ASSUME RowsKept, EventsKept, ReadKept, T!BeginRead \/ \E ok \in BOOLEAN : T!EndRead(ok)
  PROVE  ReadKept'
<1>1. CASE T!BeginRead
  <2>1. reading' = TRUE /\ shown' = T!Reverse(recent)
    BY <1>1 DEF T!BeginRead
  <2>2. T!Reverse(recent) \in Seq(Attack) /\ T!NoneTwice(T!Reverse(recent))
    BY OnceReverse DEF EventsKept
  <2>3. T!NoneTwice(shown')
    BY <2>1, <2>2
  <2> QED
    BY <2>1, <2>2, <2>3 DEF ReadKept, T!NoneTwice
<1>2. ASSUME NEW ok \in BOOLEAN, T!EndRead(ok)
      PROVE  ReadKept'
  <2> DEFINE new == T!NewlyStored
  <2>1. reading' = FALSE /\ shown' = shown \o (IF ok THEN T!SetToSeq(new) ELSE <<>>)
    BY <1>2 DEF T!EndRead
  <2>2. IsFiniteSet(new) /\ new \subseteq Attack /\ \A a \in new : a \notin T!ToSet(shown)
    <3> DEFINE f == [r \in asked |-> r.id]
    <3>1. new \subseteq {f[r] : r \in asked}
      <4>1. ASSUME NEW a \in new  PROVE T!Ended(a) \in asked /\ T!Ended(a).id = a
        <5>1. a \in Attack /\ db[T!Ended(a)] > 0 /\ T!Ended(a) \in T!Rows
          BY RowsAre DEF T!NewlyStored, T!StoredEnded
        <5>2. T!Ended(a) \in asked
          <6> DEFINE x == T!Ended(a)
          <6>1. x \in T!Rows /\ db[x] > 0
            BY <5>1
          <6> HIDE DEF x
          <6> QED
            BY <6>1, SinksHolding DEF x
        <5> QED
          BY <5>2 DEF T!Ended
      <4>2. \A a \in new : f[T!Ended(a)] = a /\ T!Ended(a) \in asked
        BY <4>1
      <4> HIDE DEF f, new
      <4> QED
        BY <4>2
    <3>2. IsFiniteSet({f[r] : r \in asked})
      BY ImageFinite DEF RowsKept
    <3>3. new \in SUBSET {f[r] : r \in asked}
      BY <3>1
    <3> HIDE DEF f
    <3>4. IsFiniteSet(new)
      BY <3>2, <3>3, FS_Subset
    <3>5. new \subseteq Attack /\ \A a \in new : a \notin T!ToSet(shown)
      BY DEF T!NewlyStored, T!StoredEnded
    <3> QED
      BY <3>4, <3>5
  <2> HIDE DEF new
  <2>3. T!SetToSeq(new) \in Seq(new) /\ T!NoneTwice(T!SetToSeq(new))
    BY <2>2, OnceListed
  <2>4. PICK t : t = T!SetToSeq(new)
    OBVIOUS
  <2>5. t \in Seq(Attack) /\ T!NoneTwice(t) /\ \A i \in DOMAIN t : t[i] \notin T!ToSet(shown)
    <3>1. t \in Seq(new) /\ T!NoneTwice(t)
      BY <2>3, <2>4
    <3>2. DOMAIN t = 1..Len(t) /\ Len(t) \in Nat /\ \A i \in 1..Len(t) : t[i] \in new
      BY <3>1, ElementOfSeq
    <3>3. t \in Seq(Attack)
      <4>1. t \in [1..Len(t) -> Attack]
        <5>1. t = [i \in DOMAIN t |-> t[i]]
          BY <3>1
        <5> QED
          BY <2>2, <3>2, <5>1
      <4> QED
        BY <3>2, <4>1, SeqDef
    <3> QED
      BY <2>2, <3>1, <3>2, <3>3
  <2>6. shown \in Seq(Attack) /\ T!NoneTwice(shown)
    BY DEF ReadKept
  <2>7. (shown \o t) \in Seq(Attack) /\ T!NoneTwice(shown \o t)
    BY <2>5, <2>6, OnceJoined
  <2>8. shown' \in Seq(Attack) /\ T!NoneTwice(shown')
    <3>1. CASE ok
      BY <2>1, <2>4, <2>7, <3>1
    <3>2. CASE ~ok
      <4>1. shown' = shown
        BY <2>1, <2>6, <3>2, ConcatEmptySeq
      <4> QED
        BY <2>6, <4>1
    <3> QED
      BY <3>1, <3>2
  <2> QED
    BY <2>1, <2>8 DEF ReadKept, T!NoneTwice
<1> QED
  BY <1>1, <1>2

\* What is said of the process and of its deliveries.
ProcessKept ==
  /\ running \in {"up", "stopping", "draining", "down"} /\ slots \in [Channel -> 0..MaxSlots]
  /\ T!DrainedLast

\* The invariant of the sinks, by what it speaks of.
LEMMA SinksParts == T!IInv <=> RowsKept /\ EventsKept /\ ReadKept /\ ProcessKept
<1>1. shown \in Seq(Attack) /\ T!NoneTwice(shown) => T!ListedOnce
  BY TimesOnce DEF T!ListedOnce
<1>2. /\ active \subseteq Attack /\ open \subseteq Attack <=> active \cup open \subseteq Attack
      /\ (batch \cup sending \cup refused \cup dropped \cup asked) \subseteq T!Rows
         <=> (batch \subseteq T!Rows /\ sending \subseteq T!Rows /\ refused \subseteq T!Rows /\ dropped \subseteq T!Rows /\ asked \subseteq T!Rows)
  OBVIOUS
<1>3. T!IsFiniteSet(asked) <=> IsFiniteSet(asked)
  BY SinksCounted
<1>4. T!TypeOK <=>
        /\ running \in {"up", "stopping", "draining", "down"}
        /\ engine \in [Attack -> {"quiet", "started", "ended"}]
        /\ events \in Seq(Event) /\ Len(events) <= EventCap
        /\ active \cup open \subseteq Attack /\ recent \in Seq(Attack) /\ Len(recent) <= MaxRecent
        /\ queue \in Seq(T!Rows) /\ Len(queue) <= QueueSize
        /\ batch \cup sending \cup refused \cup dropped \cup asked \subseteq T!Rows
        /\ db \in [T!Rows -> Nat]
        /\ slots \in [Channel -> 0..MaxSlots]
        /\ reading \in BOOLEAN /\ shown \in Seq(Attack)
  BY DEF T!TypeOK, Event
<1> QED
  BY <1>1, <1>3, <1>4, Zenon DEF T!IInv, T!ToldOnce, RowsKept, EventsKept, ReadKept, ProcessKept

\* The sinks start in their invariant.
LEMMA SinksInit ==
  ASSUME T!SinksAssumption, T!Init
  PROVE  T!IInv
<1>1. /\ running = "up" /\ engine = [a \in Attack |-> "quiet"] /\ events = <<>>
      /\ active = {} /\ recent = <<>> /\ open = {} /\ queue = <<>> /\ batch = {} /\ sending = {}
      /\ db = [r \in T!Rows |-> 0] /\ refused = {} /\ dropped = {} /\ asked = {}
      /\ slots = [c \in Channel |-> 0] /\ reading = FALSE /\ shown = <<>>
  BY DEF T!Init
<1>2. QueueSize \in Nat /\ EventCap \in Nat /\ MaxRecent \in Nat /\ MaxSlots \in Nat
  BY DEF T!SinksAssumption
<1>3. T!ToSet(<<>>) = {} /\ T!NoneTwice(<<>>) /\ <<>> \in Seq(T!Rows) /\ <<>> \in Seq(Attack) /\ <<>> \in Seq(Event)
      /\ Len(<<>>) = 0
  BY DEF T!ToSet, T!NoneTwice
<1>4. RowsKept
  <2>1. IsFiniteSet({})
    BY FS_EmptySet
  <2>2. ASSUME NEW x \in T!Rows  PROVE T!Holding(x) = 0
    <3>1. T!Times(queue, x) = 0
      <4>1. queue \in Seq(T!Rows) /\ x \notin T!ToSet(queue)
        BY <1>1, <1>3
      <4> QED
        BY <4>1, TimesAre
    <3>2. T!Has(batch, x) = 0 /\ T!Has(sending, x) = 0 /\ T!Has(refused, x) = 0 /\ T!Has(dropped, x) = 0 /\ db[x] = 0
      BY <1>1 DEF T!Has
    <3> QED
      BY <3>1, <3>2 DEF T!Holding
  <2> QED
    BY <1>1, <1>2, <1>3, <2>1, <2>2 DEF RowsKept, T!RowsOnce
<1>5. EventsKept
  BY <1>1, <1>2, <1>3 DEF EventsKept, T!HistoryTrue, T!EventsNews, T!ToldAfter
<1>6. ReadKept
  BY <1>1, <1>3 DEF ReadKept
<1>7. ProcessKept
  BY <1>1, <1>2 DEF ProcessKept, T!DrainedLast
<1> QED
  BY <1>4, <1>5, <1>6, <1>7, SinksParts

\* Every step of the sinks keeps it.
LEMMA SinksStep ==
  ASSUME T!SinksAssumption, T!IInv, [T!Next]_T!vars
  PROVE  T!IInv'
<1>1. RowsKept /\ EventsKept /\ ReadKept /\ ProcessKept
  BY SinksParts
<1>2. (RowsKept /\ EventsKept /\ ReadKept /\ ProcessKept)' => T!IInv'
  BY SinksParts, PTL
<1>3. UNCHANGED T!writer => RowsKept'
  BY <1>1 DEF T!writer, RowsKept, T!RowsOnce, T!Holding, T!Times, T!Has
<1>4. UNCHANGED <<engine, events, T!table, asked>> => EventsKept'
  <2> SUFFICES ASSUME UNCHANGED <<engine, events, T!table, asked>>  PROVE EventsKept'
    OBVIOUS
  <2>1. engine' = engine /\ events' = events /\ active' = active /\ recent' = recent /\ open' = open /\ asked' = asked
    BY DEF T!table
  <2>2. T!HistoryTrue' /\ T!EventsNews' /\ T!ToldAfter' /\ T!NoneTwice(recent)'
    BY <1>1, <2>1 DEF EventsKept, T!HistoryTrue, T!EventsNews, T!ToldAfter, T!NoneTwice, T!News, T!ToSet, T!Started, T!Ended
  <2> QED
    BY <1>1, <2>1, <2>2 DEF EventsKept
<1>5. UNCHANGED T!reader => ReadKept'
  BY <1>1 DEF T!reader, ReadKept, T!NoneTwice
<1>6. UNCHANGED <<running, slots, queue, batch, sending>> => ProcessKept'
  BY <1>1 DEF ProcessKept, T!DrainedLast, T!ToSet
<1>7. running' = running /\ running # "down" /\ slots' \in [Channel -> 0..MaxSlots] => ProcessKept'
  BY <1>1 DEF ProcessKept, T!DrainedLast
<1>8. \A c \in Channel : slots[c] \in 0..MaxSlots
  BY <1>1 DEF ProcessKept
<1>9. T!Dispatched => slots' \in [Channel -> 0..MaxSlots]
  BY <1>8 DEF T!Dispatched, T!SinksAssumption
<1>10. CASE \E a \in Attack : T!Emit(a)
  BY <1>1, <1>2, <1>3, <1>5, <1>6, <1>10, SinksEmit DEF T!Emit, T!writer
<1>11. CASE T!ConsumeStarted
  <2>1. running' = running /\ running # "down" /\ T!Dispatched /\ UNCHANGED T!reader
    BY <1>11 DEF T!ConsumeStarted, T!reader
  <2> QED
    BY <1>1, <1>2, <1>5, <1>7, <1>9, <1>11, <2>1, SinksStarted
<1>12. CASE T!ConsumeEnded
  <2>1. running' = running /\ running # "down" /\ T!Dispatched /\ UNCHANGED T!reader
    BY <1>12 DEF T!ConsumeEnded, T!reader
  <2> QED
    BY <1>1, <1>2, <1>5, <1>7, <1>9, <1>12, <2>1, SinksEnded
<1>13. CASE \E x \in Audit : T!RecordAudit(x)
  <2>1. PICK x \in Audit : T!RecordAudit(x)
    BY <1>13
  <2>2. RowsKept' /\ EventsKept' /\ T!ToSet(queue') \subseteq T!ToSet(queue) \cup {T!Audited(x)}
    BY <1>1, <2>1, SinksAudited
  <2>3. running' = running /\ slots' = slots /\ batch' = batch /\ sending' = sending /\ UNCHANGED T!reader
    BY <2>1 DEF T!RecordAudit, T!Enqueued
  <2>4. ProcessKept'
    <3>1. \A r \in T!Rows : r.table = "attacks" => r # T!Audited(x)
      BY RowsAre
    <3>2. T!DrainedLast' <=> (running' = "down" => \A r \in T!Rows : r.table = "attacks" => r \notin T!ToSet(queue') \cup batch' \cup sending')
      BY DEF T!DrainedLast, T!ToSet
    <3>3. T!DrainedLast'
      BY <1>1, <2>2, <2>3, <3>1, <3>2 DEF ProcessKept, T!DrainedLast
    <3> QED
      BY <1>1, <2>3, <3>3 DEF ProcessKept
  <2> QED
    BY <1>2, <1>5, <2>2, <2>3, <2>4
<1>14. CASE \E c \in Channel : T!Delivered(c)
  <2>1. PICK c \in Channel : T!Delivered(c)
    BY <1>14
  <2>2. slots' = [slots EXCEPT ![c] = @ - 1] /\ slots[c] > 0 /\ running' = running
        /\ UNCHANGED <<engine, events, T!table, T!writer, T!reader>>
    BY <2>1 DEF T!Delivered
  <2>3. slots' \in [Channel -> 0..MaxSlots]
    BY <1>1, <1>8, <2>2 DEF ProcessKept, T!SinksAssumption
  <2>4. ProcessKept'
    BY <1>1, <2>2, <2>3 DEF ProcessKept, T!DrainedLast, T!ToSet, T!writer
  <2> QED
    BY <1>2, <1>3, <1>4, <1>5, <2>2, <2>4 DEF T!writer
<1>15. CASE T!Batch
  <2>1. running' = running /\ running # "down" /\ slots' = slots /\ UNCHANGED T!reader /\ UNCHANGED <<engine, events, T!table, asked>>
    BY <1>15 DEF T!Batch
  <2> QED
    BY <1>1, <1>2, <1>4, <1>5, <1>7, <1>15, <2>1, SinksBatch DEF ProcessKept
<1>16. CASE T!Flush \/ \E t \in T!Tables, ok \in BOOLEAN : T!Send(t, ok)
  <2>1. running' = running /\ running # "down" /\ slots' = slots /\ UNCHANGED T!reader /\ UNCHANGED <<engine, events, T!table, asked>>
    BY <1>16 DEF T!Flush, T!Send
  <2> QED
    BY <1>1, <1>2, <1>4, <1>5, <1>7, <1>16, <2>1, SinksSend DEF ProcessKept
<1>17. CASE T!BeginRead \/ \E ok \in BOOLEAN : T!EndRead(ok)
  <2>1. UNCHANGED <<running, engine, events, T!table, T!writer, slots>>
    BY <1>17 DEF T!BeginRead, T!EndRead
  <2> QED
    BY <1>1, <1>2, <1>3, <1>4, <1>6, <1>17, <2>1, SinksRead DEF T!writer
<1>18. CASE T!Stop
  <2>1. running' = "stopping" /\ UNCHANGED <<engine, events, T!table, T!writer, slots, T!reader>>
    BY <1>18 DEF T!Stop
  <2>2. ProcessKept'
    BY <1>1, <2>1 DEF ProcessKept, T!DrainedLast
  <2> QED
    BY <1>2, <1>3, <1>4, <1>5, <2>1, <2>2 DEF T!writer
<1>19. CASE T!StoreCancel
  <2>1. running' = "draining" /\ events' = <<>> /\ UNCHANGED <<engine, T!table, T!writer, slots, T!reader>>
    BY <1>19 DEF T!StoreCancel
  <2>2. ProcessKept'
    BY <1>1, <2>1 DEF ProcessKept, T!DrainedLast
  <2>3. engine' = engine /\ active' = active /\ recent' = recent /\ open' = open /\ asked' = asked
    BY <2>1 DEF T!table, T!writer
  <2>4. T!HistoryTrue' /\ T!ToldAfter' /\ T!NoneTwice(recent)'
    BY <1>1, <2>3 DEF EventsKept, T!HistoryTrue, T!ToldAfter, T!NoneTwice, T!ToSet, T!Started, T!Ended
  <2>5. T!EventsNews' /\ events' \in Seq(Event) /\ Len(events') <= EventCap
    BY <2>1 DEF T!EventsNews, T!NoneTwice, T!ToSet, T!SinksAssumption
  <2>6. EventsKept'
    BY <1>1, <2>3, <2>4, <2>5 DEF EventsKept
  <2> QED
    BY <1>2, <1>3, <1>5, <2>1, <2>2, <2>6
<1>20. CASE T!Exit
  <2>1. running' = "down" /\ UNCHANGED <<engine, events, T!table, T!writer, slots, T!reader>>
        /\ sending = {} /\ queue = <<>> /\ batch = {}
    BY <1>20 DEF T!Exit, T!DrainedAll
  <2>2. ProcessKept'
    BY <1>1, <2>1 DEF ProcessKept, T!DrainedLast, T!ToSet, T!writer
  <2> QED
    BY <1>2, <1>3, <1>4, <1>5, <2>1, <2>2 DEF T!writer
<1>21. CASE UNCHANGED T!vars
  <2>1. UNCHANGED <<running, engine, events, T!table, T!writer, slots, T!reader>>
    BY <1>21 DEF T!vars
  <2> QED
    BY <1>2, <1>3, <1>4, <1>5, <1>6, <2>1 DEF T!writer
<1> QED
  BY <1>10, <1>11, <1>12, <1>13, <1>14, <1>15, <1>16, <1>17, <1>18, <1>19, <1>20, <1>21 DEF T!Next

=============================================================================
