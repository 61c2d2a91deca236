------------------------------ MODULE Admission -----------------------------
(***************************************************************************)
(* The ceilings of the edge decider (edge/decide, Service): a token bucket  *)
(* and a ring of in-flight slots per zone and source, in tables of bounded  *)
(* size swept at a pace.  A slot is opened by every decision and closed by  *)
(* the access-log line of some request; lines get lost.                     *)
(*                                                                         *)
(* Times are ages in ticks; an empty bucket takes Rps / Earn ticks to fill. *)
(***************************************************************************)
EXTENDS Integers, Sequences, SequencesExt, FiniteSets

CONSTANTS
  Zone, Src,
  MaxSources,   \* buckets, and in-flight counters, of the node
  MinQuota,     \* minZoneQuota
  Rps, Concurrency,   \* the policy of every zone
  Earn,         \* the tokens of a tick
  Idle,         \* idleAfter
  MaxAge,       \* inflightMaxAge
  SweepEvery,
  FullEvery,    \* fullSweepEvery
  Pending       \* unanswered requests of one source (a bound)

AdmissionAssumption ==
  /\ {MaxSources, MinQuota, Rps, Earn, Concurrency, SweepEvery, FullEvery, MaxAge, Idle}
       \subseteq Nat \ {0}
  /\ Idle > MaxAge /\ Idle * Earn >= Rps /\ SweepEvery >= FullEvery

Key == Zone \X Src
ZoneOf(k) == k[1]

VARIABLES
  zones,     \* the zones of the document
  buckets,   \* the buckets there are: tokens, and the age of the last use
  perZone,   \* how many of them each zone has
  inflight,  \* the slots' ages, oldest first; age of the last open and close; dead
  swept,     \* since the last sweep
  pending,   \* pending[k]: ages of the requests decided whose line has not come
  spent      \* spent[k]: what k has spent and not yet earned back

vars == <<zones, buckets, perZone, inflight, swept, pending, spent>>

Least(a, b) == IF a < b THEN a ELSE b

---------------------------------------------------------------------------
(* Sweeping.                                                               *)

\* Wrong variant: room is made of buckets still in use.
StaleAtOnce(age) == TRUE

Stale(age) == age > Idle

\* The tables of the service, as one record.
Tables == [buckets |-> buckets, perZone |-> perZone, inflight |-> inflight, swept |-> swept]

Without(f, S) == [k \in DOMAIN f \ S |-> f[k]]

Sweep(t) ==
  LET gone == {k \in DOMAIN t.buckets : ZoneOf(k) \notin zones \/ Stale(t.buckets[k].age)}
      idle == {k \in DOMAIN t.inflight : ZoneOf(k) \notin zones \/ t.inflight[k].lastOpen > Idle}
  IN [buckets |-> Without(t.buckets, gone),
      perZone |-> [z \in Zone |-> t.perZone[z] - Cardinality({k \in gone : ZoneOf(k) = z})],
      inflight |-> Without(t.inflight, idle),
      swept |-> 0]

Paced(t, every) == IF t.swept >= every THEN Sweep(t) ELSE t

---------------------------------------------------------------------------
(* take: the rate.                                                         *)

ZoneQuota ==
  LET n == IF zones = {} THEN 1 ELSE Cardinality(zones)
      share == MaxSources \div n
  IN Least(IF share < MinQuota THEN MinQuota ELSE share, MaxSources)

BucketsFull(t, z) == Cardinality(DOMAIN t.buckets) >= MaxSources \/ t.perZone[z] >= ZoneQuota

With(f, k, v) == [x \in DOMAIN f \cup {k} |-> IF x = k THEN v ELSE f[x]]

Room(t, k) ==
  IF k \notin DOMAIN t.buckets /\ BucketsFull(t, ZoneOf(k)) THEN Paced(t, FullEvery) ELSE t

\* The bucket as a request finds it: refilled, or new and full.
Refilled(t, k) ==
  IF k \in DOMAIN t.buckets
  THEN [tokens |-> Least(t.buckets[k].tokens + Earn * t.buckets[k].age, Rps), age |-> 0]
  ELSE [tokens |-> Rps, age |-> 0]

\* [tables, result]: allowed, denied, or passed untracked.
Take(t0, k) ==
  LET t == Room(t0, k)
      new == k \notin DOMAIN t.buckets
      b == Refilled(t, k)
      kept == [t EXCEPT !.buckets = With(@, k, [b EXCEPT !.tokens = IF @ >= 1 THEN @ - 1 ELSE @]),
                        !.perZone[ZoneOf(k)] = IF new THEN @ + 1 ELSE @]
  IN IF new /\ BucketsFull(t, ZoneOf(k)) THEN [tables |-> t, result |-> "untracked"]
     ELSE [tables |-> kept, result |-> IF b.tokens >= 1 THEN "allowed" ELSE "denied"]

---------------------------------------------------------------------------
(* count, open, Complete: the requests in flight.                          *)

Young(a) == a <= MaxAge

\* How many slots are aged out: the oldest, up to one that may still be open.
Phantoms(opens) ==
  CHOOSE n \in 0..Len(opens) : /\ \A i \in 1..n : ~Young(opens[i])
                               /\ n < Len(opens) => Young(opens[n + 1])

\* The slots open now.
Counted(f) == [f EXCEPT !.opens = SubSeq(@, Phantoms(@) + 1, Len(@))]

\* Consulted when nothing else has denied; a dead stream is not.
Consulted(t, k) ==
  IF k \in DOMAIN t.inflight /\ ~t.inflight[k].dead
  THEN [t EXCEPT !.inflight[k] = Counted(@)] ELSE t

OverCeiling(t, k) ==
  k \in DOMAIN t.inflight /\ ~t.inflight[k].dead
    /\ Len(Counted(t.inflight[k]).opens) >= Concurrency

\* A stream nobody has heard of for idleAfter, with slots open, is dead.
Silent(f) == ~f.dead /\ f.opens # <<>> /\ f.lastClose > Idle

Opened(f) == [(IF Silent(f) THEN [f EXCEPT !.opens = <<>>, !.dead = TRUE] ELSE f)
                 EXCEPT !.opens = Append(@, 0), !.lastOpen = 0]

Fresh == [opens |-> <<>>, lastOpen |-> 0, lastClose |-> 0, dead |-> FALSE]

Open(t, k) ==
  IF k \in DOMAIN t.inflight THEN [t EXCEPT !.inflight[k] = Opened(@)]
  ELSE IF Cardinality(DOMAIN t.inflight) >= MaxSources THEN t
  ELSE [t EXCEPT !.inflight = With(@, k, Opened(Fresh))]

\* Wrong variant: the slot closed is the one that would age out first.
CloseOldest(opens) == Tail(opens)

\* The newest: what is left to age out is then the oldest.
CloseNewest(opens) == Front(opens)

Completed(f) ==
  [f EXCEPT !.opens = IF @ = <<>> THEN @ ELSE CloseNewest(@), !.lastClose = 0, !.dead = FALSE]

\* The log line of one of k's requests, whichever.
Complete(k, i) ==
  /\ i \in DOMAIN pending[k]
  /\ pending' = [pending EXCEPT ![k] = RemoveAt(@, i)]
  /\ inflight' = IF k \notin DOMAIN inflight THEN inflight
                 ELSE [inflight EXCEPT ![k] = Completed(@)]
  /\ UNCHANGED <<zones, buckets, perZone, swept, spent>>

---------------------------------------------------------------------------
(* The service.                                                            *)

Commit(t) ==
  /\ buckets' = t.buckets /\ perZone' = t.perZone
  /\ inflight' = t.inflight /\ swept' = t.swept

\* A request of a configured zone.  One the verdict table denies skips both
\* ceilings; every decision opens a slot.
DecideRequest(k, denied) ==
  LET t == Paced(Tables, SweepEvery)
      took == IF denied THEN [tables |-> t, result |-> "skipped"] ELSE Take(t, k)
      seen == IF took.result \in {"allowed", "untracked"} THEN Consulted(took.tables, k) ELSE took.tables
  IN /\ ZoneOf(k) \in zones /\ Len(pending[k]) < Pending
     /\ Commit(Open(seen, k))
     /\ spent' = [spent EXCEPT ![k] = IF took.result = "allowed" THEN @ + 1 ELSE @]
     /\ pending' = [pending EXCEPT ![k] = Append(@, 0)]
     /\ UNCHANGED zones

\* A zone that comes back finds its sources with no history.
SetZones ==
  /\ zones' \in SUBSET Zone \ {zones}
  /\ spent' = [k \in Key |-> IF ZoneOf(k) \in zones \cap zones' THEN spent[k] ELSE 0]
  /\ UNCHANGED <<buckets, perZone, inflight, swept, pending>>

\* The node's ticker: the paced sweep without a request.
Tick ==
  /\ Commit(Paced(Tables, SweepEvery))
  /\ UNCHANGED <<zones, pending, spent>>

Older(a, cap) == Least(a + 1, cap)

TimePasses ==
  /\ buckets' = [k \in DOMAIN buckets |-> [buckets[k] EXCEPT !.age = Older(@, Idle + 1)]]
  /\ inflight' = [k \in DOMAIN inflight |->
                    [inflight[k] EXCEPT !.opens = [i \in DOMAIN @ |-> Older(@[i], MaxAge + 1)],
                                        !.lastOpen = Older(@, Idle + 1),
                                        !.lastClose = Older(@, Idle + 1)]]
  /\ swept' = Older(swept, SweepEvery)
  /\ pending' = [k \in Key |-> [i \in DOMAIN pending[k] |-> Older(pending[k][i], MaxAge + 1)]]
  /\ spent' = [k \in Key |-> IF spent[k] > Earn THEN spent[k] - Earn ELSE 0]
  /\ UNCHANGED <<zones, perZone>>

Init ==
  /\ zones = {} /\ buckets = <<>> /\ perZone = [z \in Zone |-> 0]
  /\ inflight = <<>> /\ swept = SweepEvery
  /\ pending = [k \in Key |-> <<>>] /\ spent = [k \in Key |-> 0]

Next ==
  \/ \E k \in Key, denied \in BOOLEAN : DecideRequest(k, denied)
  \/ \E k \in Key : \E i \in DOMAIN pending[k] : Complete(k, i)
  \/ SetZones
  \/ Tick
  \/ TimePasses

Spec == Init /\ [][Next]_vars

---------------------------------------------------------------------------
(* Properties.                                                             *)

TypeOK ==
  /\ zones \subseteq Zone
  /\ DOMAIN buckets \subseteq Key /\ DOMAIN inflight \subseteq Key
  /\ \A k \in DOMAIN buckets : buckets[k] \in [tokens : 0..Rps, age : 0..(Idle + 1)]
  /\ \A k \in DOMAIN inflight : inflight[k] \in [opens : Seq(0..(MaxAge + 1)), lastOpen : 0..(Idle + 1),
                                                lastClose : 0..(Idle + 1), dead : BOOLEAN]
  /\ pending \in [Key -> Seq(0..(MaxAge + 1))]
  /\ perZone \in [Zone -> 0..MaxSources] /\ swept \in 0..SweepEvery
  /\ spent \in [Key -> Nat]

BucketsOf(z) == {k \in DOMAIN buckets : ZoneOf(k) = z}

\* Requests that may really be in flight, or whose line was lost lately.
MayBeInFlight(k) == Cardinality({i \in DOMAIN pending[k] : Young(pending[k][i])})

\* The ceilings are honest whatever the sweeps, the quotas and the zones do:
\* what a zone is charged for is what it holds, within the caps (perZone); no
\* eviction lets a source spend what it has not earned; and the concurrency
\* ceiling never counts more than requests decided in the last inflightMaxAge
\* with no line yet ("a lost datagram is a phantom slot for half a minute, not
\* forever ... which errs toward passing").
CeilingsHonest ==
  /\ Cardinality(DOMAIN buckets) <= MaxSources /\ Cardinality(DOMAIN inflight) <= MaxSources
  /\ \A z \in Zone : perZone[z] = Cardinality(BucketsOf(z))
  /\ \A k \in Key : spent[k] <= Rps
  /\ \A k \in DOMAIN inflight : Len(Counted(inflight[k]).opens) <= MayBeInFlight(k)

---------------------------------------------------------------------------
(* What makes them inductive.                                              *)

\* A source has spent what its bucket lacks, and nothing without one: a bucket that is
\* thrown away is full, or its zone's.
SpentLacks ==
  \A k \in Key :
    /\ k \in DOMAIN buckets => spent[k] + Refilled(Tables, k).tokens <= Rps
    /\ k \notin DOMAIN buckets \/ ZoneOf(k) \notin zones => spent[k] = 0

\* The slots are in the order they were opened, and of those of any age or younger there
\* are no more than requests without a line.
Upto(ages, a) == {i \in DOMAIN ages : ages[i] <= a}
OldestFirst(opens) == \A i, j \in DOMAIN opens : i < j => opens[i] >= opens[j]
SlotsPending ==
  \A k \in DOMAIN inflight :
    /\ OldestFirst(inflight[k].opens)
    /\ \A a \in 0..MaxAge : Cardinality(Upto(inflight[k].opens, a)) <= Cardinality(Upto(pending[k], a))

IInv ==
  /\ TypeOK /\ CeilingsHonest /\ SpentLacks /\ SlotsPending
  /\ IsFiniteSet(DOMAIN buckets) /\ IsFiniteSet(DOMAIN inflight)
=============================================================================
