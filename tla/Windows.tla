------------------------------- MODULE Windows -------------------------------
(***************************************************************************)
(* How the engine measures: a ring of one-second buckets per host, written  *)
(* by the flow workers and read once a second by the evaluation tick        *)
(* (engine/engine.go), the learned baseline that tightens the thresholds    *)
(* (engine/baseline.go), and the groups that are judged by the sum of their *)
(* hosts.  Detection takes the measurement for granted; this is where it    *)
(* comes from.                                                             *)
(*                                                                         *)
(* A flow is stamped before its host's lock is taken and counted after, so  *)
(* the second may turn in between, and of two flows of a host, in the hands *)
(* of two ingest workers, the later may be counted first; and the tick      *)
(* reads the clock once, then takes the hosts' locks one by one while flows *)
(* go on being counted.                                                     *)
(* One direction and one metric, in packets per window.                     *)
(***************************************************************************)
EXTENDS Integers, FiniteSets, Functions

CONSTANTS
  Host, Group,
  Ingest,      \* the workers that deliver flows
  Window,      \* seconds in the sliding window (windowSec)
  Lag,         \* bound: seconds from a flow's stamp to its count
  Volume,      \* packets of a flow, sampling corrected
  PerSecond,   \* bound: packets of a host in one second
  Setting,     \* what a reload may put in force
  Factor, Floor, Warmup,   \* of the baseline; its weight is one half
  Hysteresis,
  Horizon,     \* bound: the last second
  NoFlow

Second == 0..Horizon
RingSize == Window + 1
Never == -1

WindowsAssumption ==
  /\ Window \in Nat \ {0} /\ Lag \in 0..Window /\ Horizon \in Nat /\ Horizon >= Window
  /\ Factor \in Nat \ {0} /\ Floor \in Nat /\ Warmup \in Nat /\ Hysteresis \in Nat
  /\ Volume \subseteq Nat /\ PerSecond \in Nat
  /\ NoFlow \notin [host : Host, epoch : Second, count : Nat]
  /\ \A c \in Setting :
       /\ c.inside \subseteq Host /\ c.group \in [Host -> Group] /\ c.total \subseteq Group
       /\ c.limit \in Nat /\ c.learn \in BOOLEAN

VARIABLES
  clock, setting,
  pending,                       \* of each worker: a flow stamped and not yet counted
  tracked, ring, seen,           \* hosts, their buckets, their last second
  attack, base,                  \* of each host and each group
  totals,                        \* groups with lifecycle state (e.groups)
  tick,                          \* the evaluation in progress
  settled,                       \* what the last whole evaluation applied (ghost)
  truth                          \* what was counted, per host and second (ghost)

vars == <<clock, setting, pending, tracked, ring, seen, attack, base, totals,
          tick, settled, truth>>

Subject == Host \cup Group
EmptyRing == [i \in 0..Window |-> [epoch |-> Never, count |-> 0]]
Calm == [on |-> FALSE, bar |-> 0, below |-> Never]
Untaught == [valid |-> FALSE, level |-> 0, since |-> 0]
NoTick == [on |-> FALSE, at |-> Never, left |-> {}, cfg |-> setting,
           sums |-> [g \in Group |-> 0]]

---------------------------------------------------------------------------
(* Counting.                                                               *)

\* What is stamped in this second and not yet counted.
Underway(h) ==
  LET S == {w \in Ingest : pending[w] # NoFlow /\ pending[w].host = h /\ pending[w].epoch = clock}
  IN SumFunctionOnSet([w \in S |-> pending[w].count], S)

\* The second is read before the lock.
Process(w, h, v) ==
  /\ pending[w] = NoFlow /\ h \in setting.inside
  /\ truth[h][clock] + Underway(h) + v <= PerSecond
  /\ pending' = [pending EXCEPT ![w] = [host |-> h, epoch |-> clock, count |-> v]]
  /\ UNCHANGED <<clock, setting, tracked, ring, seen, attack, base, totals, tick, settled, truth>>

\* Wrong variant: a bucket of an older second is added to.
AddedTo(b, f) == [epoch |-> f.epoch, count |-> b.count + f.count]

Counted(b, f) ==
  [epoch |-> f.epoch, count |-> IF b.epoch = f.epoch THEN b.count + f.count ELSE f.count]

\* record, under the host's lock; its last second may go back.
Record(w) ==
  LET f == pending[w]
      h == f.host
      mine == IF h \in tracked THEN ring[h] ELSE EmptyRing
  IN /\ f # NoFlow
     /\ tracked' = tracked \cup {h}
     /\ ring' = [ring EXCEPT ![h] = [mine EXCEPT ![f.epoch % RingSize] = Counted(@, f)]]
     /\ seen' = [seen EXCEPT ![h] = f.epoch]
     /\ truth' = [truth EXCEPT ![h][f.epoch] = @ + f.count]
     /\ pending' = [pending EXCEPT ![w] = NoFlow]
     /\ UNCHANGED <<clock, setting, attack, base, totals, tick, settled>>

\* The bucket of second s, if it still is of second s.
Bucket(h, s) ==
  LET b == ring[h][s % RingSize] IN IF b.epoch = s THEN b.count ELSE 0

InWindow(at) == {s \in Second : at - Window <= s /\ s < at}

\* windowedRates: the completed seconds only.
Measured(h, at) == SumFunctionOnSet([s \in InWindow(at) |-> Bucket(h, s)], InWindow(at))
HasData(h, at) == \E s \in InWindow(at) : ring[h][s % RingSize].epoch = s

---------------------------------------------------------------------------
(* The bar, and what the baseline learns.                                  *)

Least(a, b) == IF a < b THEN a ELSE b

\* The learned level times the factor, between the floor and the static limit.
Bar(c, b, at) ==
  LET learned == b.level * Factor
  IN IF ~c.learn \/ ~b.valid \/ at - b.since < Warmup \/ learned >= c.limit THEN c.limit
     ELSE IF learned < Floor THEN Least(Floor, c.limit) ELSE learned

\* Each sample is clamped to the level times the factor.
Learned(b, rate, at) ==
  IF ~b.valid THEN [valid |-> TRUE, level |-> rate, since |-> at]
  ELSE LET sample == IF b.level > 0 THEN Least(rate, b.level * Factor) ELSE rate
       IN [b EXCEPT !.level = @ + ((sample - @) \div 2)]

\* One evaluation of an attack: started, kept, in its tail, or over.
Judged(a, b, c, rate, at) ==
  LET bar == IF a.on THEN a.bar ELSE Bar(c, b, at)
      since == IF a.below = Never THEN at ELSE a.below
  IN IF bar > 0 /\ rate > bar THEN [on |-> TRUE, bar |-> bar, below |-> Never]
     ELSE IF ~a.on \/ at - since >= Hysteresis THEN Calm
     ELSE [a EXCEPT !.below = since]

\* Wrong variant: the baseline learns the attack.
TaughtAlways(a, b, c, rate, at) ==
  IF c.learn /\ rate > 0 THEN Learned(b, rate, at) ELSE b

\* Only outside attacks, and never from an empty window.
Taught(a, b, c, rate, at) ==
  IF c.learn /\ ~a.on /\ rate > 0 THEN Learned(b, rate, at) ELSE b

---------------------------------------------------------------------------
(* The evaluation tick.                                                    *)

BeginTick ==
  /\ ~tick.on /\ tick.at < clock
  /\ tick' = [on |-> TRUE, at |-> clock, left |-> Host, cfg |-> setting,
              sums |-> [g \in Group |-> 0]]
  /\ UNCHANGED <<clock, setting, pending, tracked, ring, seen, attack, base, totals, settled, truth>>

InTotal(c, h) == c.group[h] \in c.total

\* The hosts a policy judges one by one.
Own(c) == {h \in c.inside \ c.spared : ~InTotal(c, h)}

\* Wrong variant: a host is forgotten in the second it comes back.
QuietNow(h, at) == ~HasData(h, at)

Quiet(h, at) == ~HasData(h, at) /\ seen[h] < at - Window

\* evalTick for one host, under its shard's lock.
EvalHost(h) ==
  LET c == tick.cfg
      at == tick.at
      rate == Measured(h, at)
      a == IF h \in Own(c) THEN Judged(attack[h], base[h], c, rate, at) ELSE Calm
      b == IF h \in Own(c) THEN Taught(a, base[h], c, rate, at) ELSE base[h]
      evicted == ~a.on /\ Quiet(h, at)
  IN /\ tick.on /\ h \in tick.left
     /\ IF h \notin tracked
        THEN UNCHANGED <<tracked, ring, seen, attack, base>> /\ tick' = [tick EXCEPT !.left = @ \ {h}]
        ELSE /\ tracked' = IF evicted THEN tracked \ {h} ELSE tracked
             /\ ring' = IF evicted THEN [ring EXCEPT ![h] = EmptyRing] ELSE ring
             /\ seen' = IF evicted THEN [seen EXCEPT ![h] = Never] ELSE seen
             /\ attack' = [attack EXCEPT ![h] = a]
             /\ base' = [base EXCEPT ![h] = IF evicted THEN Untaught ELSE b]
             /\ tick' = [tick EXCEPT
                  !.left = @ \ {h},
                  !.sums[c.group[h]] =
                     IF h \in c.inside /\ InTotal(c, h) THEN @ + rate ELSE @]
     /\ UNCHANGED <<clock, setting, pending, totals, settled, truth>>

\* evalGroups: the sums are judged the same way; a group that is no total group
\* any more has its attack closed and its state dropped.
EvalGroups ==
  LET c == tick.cfg
      at == tick.at
      a == [g \in c.total |-> Judged(attack[g], base[g], c, tick.sums[g], at)]
  IN /\ tick.on /\ tick.left = {}
     /\ totals' = c.total
     /\ attack' = [s \in Subject |->
          IF s \in Host THEN attack[s] ELSE IF s \in c.total THEN a[s] ELSE Calm]
     /\ base' = [s \in Subject |->
          IF s \in Host THEN base[s]
          ELSE IF s \in c.total THEN Taught(a[s], base[s], c, tick.sums[s], at)
          ELSE Untaught]
     /\ settled' = c
     /\ tick' = [NoTick EXCEPT !.at = at]
     /\ UNCHANGED <<clock, setting, pending, tracked, ring, seen, truth>>

---------------------------------------------------------------------------
(* The world.                                                              *)

\* A flow is counted within Lag seconds, and a tick ends within the next second.
Turn ==
  /\ clock < Horizon
  /\ \A w \in Ingest : pending[w] # NoFlow => clock + 1 - pending[w].epoch <= Lag
  /\ tick.on => tick.at = clock
  /\ clock' = clock + 1
  /\ truth' = [h \in Host |-> [s \in Second |-> IF s >= clock - Window THEN truth[h][s] ELSE 0]]
  /\ UNCHANGED <<setting, pending, tracked, ring, seen, attack, base, totals, tick, settled>>

Reload(c) ==
  /\ c # setting /\ setting' = c
  /\ tick' = IF tick.on THEN tick ELSE [tick EXCEPT !.cfg = c]
  /\ UNCHANGED <<clock, pending, tracked, ring, seen, attack, base, totals, settled, truth>>

Init ==
  /\ clock = Window /\ setting \in Setting
  /\ pending = [w \in Ingest |-> NoFlow]
  /\ tracked = {} /\ ring = [h \in Host |-> EmptyRing] /\ seen = [h \in Host |-> Never]
  /\ attack = [s \in Subject |-> Calm] /\ base = [s \in Subject |-> Untaught]
  /\ totals = {}
  /\ tick = [NoTick EXCEPT !.at = Window] /\ settled = setting
  /\ truth = [h \in Host |-> [s \in Second |-> 0]]

Next ==
  \/ \E w \in Ingest, h \in Host, v \in Volume : Process(w, h, v)
  \/ \E w \in Ingest : Record(w)
  \/ BeginTick
  \/ \E h \in Host : EvalHost(h)
  \/ EvalGroups
  \/ Turn
  \/ \E c \in Setting : Reload(c)

Spec == Init /\ [][Next]_vars

---------------------------------------------------------------------------
(* Properties.                                                             *)

TypeOK ==
  /\ clock \in Second /\ setting \in Setting /\ settled \in Setting
  /\ pending \in [Ingest -> {NoFlow} \cup [host : Host, epoch : Second, count : Nat]]
  /\ tracked \subseteq Host /\ totals \subseteq Group
  /\ ring \in [Host -> [0..Window -> [epoch : Second \cup {Never}, count : Nat]]]
  /\ seen \in [Host -> Second \cup {Never}]
  /\ attack \in [Subject -> [on : BOOLEAN, bar : Nat, below : Second \cup {Never}]]
  /\ base \in [Subject -> [valid : BOOLEAN, level : Nat, since : Second]]
  /\ tick \in [on : BOOLEAN, at : Second, left : SUBSET Host, cfg : Setting, sums : [Group -> Nat]]
  /\ truth \in [Host -> [Second -> Nat]]

\* The ring holds what was counted in the window and in the running second, no
\* more and no less, whatever was counted late, overwritten or evicted
\* (record, windowedRates, evictOrTrack).
MeasureTrue ==
  \A h \in Host, s \in InWindow(clock) \cup {clock} :
     IF h \in tracked THEN Bucket(h, s) = truth[h][s] ELSE truth[h][s] = 0

\* A tick the second has overtaken may count a host short, never long.
NeverLong ==
  tick.on => \A h \in tracked :
     Measured(h, tick.at) <= SumFunctionOnSet(truth[h], InWindow(tick.at))

\* No attack is learned as normal: where whatever is learned has a limit, a
\* learned level is never above every static limit there ever was, so the bar of a
\* baseline is always the tighter one (learn's callers; effectiveThresholds).
NormalIsNormal ==
  (\A c \in Setting : c.learn => c.limit > 0) =>
     \A s \in Subject : \E c \in Setting : base[s].level <= c.limit

\* After a whole evaluation every attack in progress is of something the policy
\* it applied still judges: no host outside, whitelisted or summed into a group,
\* no group that is judged host by host (endBoth, evalGroups).
OneOwner ==
  ~tick.on => \A s \in Subject : attack[s].on =>
     s \in Own(settled) \cup settled.total

\* No host is forgotten while it is under attack (evictOrTrack).
AttackedAreTracked == \A h \in Host : attack[h].on => h \in tracked

\* The engine measures what it counted and judges each subject once.
MeasurementHonest ==
  MeasureTrue /\ NeverLong /\ NormalIsNormal /\ OneOwner /\ AttackedAreTracked

---------------------------------------------------------------------------
(* What makes them inductive.                                              *)

\* Nothing is of a second to come, and a bucket is where its second belongs; a host that is
\* not tracked has none.  Counts may be out of order by as much as a flow may be late.
CountedInTime ==
  \A h \in Host :
     /\ \A i \in 0..Window : LET e == ring[h][i].epoch IN e = Never \/ (e <= clock /\ e % RingSize = i)
     /\ \A s \in Second : s > clock => truth[h][s] = 0
     /\ seen[h] <= clock
     /\ h \notin tracked => ring[h] = EmptyRing
     /\ \A s \in Second : s - Lag > seen[h] /\ s >= clock - Window => truth[h][s] = 0

\* A flow is no later than Lag.
FlowInTime ==
  \A w \in Ingest : pending[w] # NoFlow =>
    pending[w].epoch <= clock /\ clock - pending[w].epoch <= Lag

\* A tick is of this second or the last; of the second that has just left the window the ring may
\* have too little.
TickInTime ==
  /\ tick.on => tick.at \in {clock - 1, clock}
  /\ \A h \in tracked, s \in Second : s >= clock - 1 - Window => Bucket(h, s) <= truth[h][s]

\* Hosts already evaluated are under attack only where the tick's policy judges them.
TickOwner ==
  tick.on => \A h \in Host \ tick.left : attack[h].on => h \in Own(tick.cfg)

\* An attack's bar is no higher than a static limit, and a level was learned from traffic.
BarsStatic ==
  \A s \in Subject :
     /\ attack[s].on => attack[s].bar > 0 /\ \E c \in Setting : attack[s].bar <= c.limit
     /\ base[s].valid => base[s].level > 0

IInv ==
  /\ TypeOK /\ MeasureTrue /\ NormalIsNormal /\ OneOwner /\ AttackedAreTracked
  /\ CountedInTime /\ FlowInTime /\ TickInTime /\ TickOwner /\ BarsStatic
=============================================================================
