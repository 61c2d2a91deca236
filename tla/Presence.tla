------------------------------ MODULE Presence -------------------------------
(***************************************************************************)
(* Which edge nodes the brain takes to be there (api/edge.go's edgePresence *)
(* and the ticker of api/edge_history.go).  A poll is the one sign of life, *)
(* for as long as it is parked; the ticker tells each transition, and tells *)
(* nothing of a start of its own.                                           *)
(***************************************************************************)
EXTENDS Integers, FiniteSets

CONSTANTS
  Node,     \* the file names
  Polls,    \* of a node, in flight at once
  Stale,    \* stale_after
  Period    \* of the ticker

PresenceAssumption == Polls \in Nat \ {0} /\ Stale \in Nat \ {0} /\ Period \in Nat \ {0}

VARIABLES
  holding, age, \* of each node: polls in flight, ticks since the last sighting
  mark,         \* of each node: what the ticker last saw
  uptime, due,  \* ticks since the ticker started, and until it looks again
  log,          \* of each node: what was told last (ghost)
  silent,       \* nodes silent for stale_after since the start, or the last event (ghost)
  false         \* told without that (ghost)

vars == <<holding, age, mark, uptime, due, log, silent, false>>

Noticed == Stale + Period + 1   \* as long as ages are told apart
Never == Noticed + 1
Heard(n) == age[n] # Never
Alive(n) == holding[n] > 0 \/ age[n] <= Stale

PollStarted(n) ==
  /\ holding[n] < Polls
  /\ holding' = [holding EXCEPT ![n] = @ + 1] /\ age' = [age EXCEPT ![n] = 0]
  /\ UNCHANGED <<mark, uptime, due, log, silent, false>>

PollEnded(n) ==
  /\ holding[n] > 0
  /\ holding' = [holding EXCEPT ![n] = @ - 1] /\ age' = [age EXCEPT ![n] = 0]
  /\ UNCHANGED <<mark, uptime, due, log, silent, false>>

\* Wrong variant: whoever has not polled yet is lost from the start.
LostFromTheStart(n) == FALSE

\* A node nobody has heard from, and not for long, is no baseline yet.
TooEarly(n) == mark[n] = "unknown" /\ ~Alive(n) /\ ~Heard(n) /\ uptime < Stale

\* edgePresenceTick: the first observation is the baseline, a change of it is told.
PresenceTick ==
  /\ due = 0
  /\ due' = Period
  /\ mark' = [n \in Node |->
       IF TooEarly(n) THEN mark[n]
       ELSE IF Alive(n) THEN "alive" ELSE "lost"]
  /\ LET events == {n \in Node : mark[n] # "unknown" /\ mark'[n] # mark[n]}
     IN /\ log' = [n \in Node |-> IF n \in events THEN mark'[n] ELSE log[n]]
        /\ false' = (false \/ \E n \in events : n \notin silent)
        /\ silent' = {n \in silent : mark'[n] # "alive"}
  /\ UNCHANGED <<holding, age, uptime>>

\* The ticker looks once a period.
Tick ==
  /\ due > 0
  /\ due' = due - 1
  /\ uptime' = IF uptime = Stale THEN uptime ELSE uptime + 1
  /\ age' = [n \in Node |-> IF age[n] >= Noticed \/ holding[n] > 0 THEN age[n] ELSE age[n] + 1]
  /\ silent' = silent \cup {n \in Node : /\ holding[n] = 0
                                         /\ IF Heard(n) THEN age'[n] > Stale ELSE uptime' = Stale}
  /\ UNCHANGED <<holding, mark, log, false>>

Restart ==
  /\ holding' = [n \in Node |-> 0] /\ age' = [n \in Node |-> Never]
  /\ mark' = [n \in Node |-> "unknown"] /\ uptime' = 0 /\ due' = 0
  /\ log' = [n \in Node |-> "unknown"] /\ silent' = {}
  /\ UNCHANGED false

Init ==
  /\ holding = [n \in Node |-> 0] /\ age = [n \in Node |-> Never]
  /\ mark = [n \in Node |-> "unknown"] /\ uptime = 0 /\ due = 0
  /\ log = [n \in Node |-> "unknown"] /\ silent = {} /\ false = FALSE

Next ==
  \/ PresenceTick \/ Tick \/ Restart
  \/ \E n \in Node : PollStarted(n) \/ PollEnded(n)

Spec == Init /\ [][Next]_vars

---------------------------------------------------------------------------
(* Properties.                                                             *)

TypeOK ==
  /\ uptime \in 0..Stale /\ due \in 0..Period
  /\ \A n \in Node : /\ holding[n] \in 0..Polls /\ age[n] \in 0..Never
                     /\ mark[n] \in {"unknown", "alive", "lost"}

\* A node is told lost, or back, only when it was silent for stale_after: never
\* because the brain started, or one of several polls ended (edgePresenceTick).
NoBurst == ~false

\* A silence longer than stale_after is noticed within a period of the ticker, and
\* what was told last is what the ticker saw last.
LossNoticed ==
  \A n \in Node :
    /\ mark[n] = "alive" => holding[n] > 0 \/ age[n] <= Stale + Period
    /\ log[n] # "unknown" => log[n] = mark[n]

PresenceTold == NoBurst /\ LossNoticed

\* What makes it inductive: a poll in flight is a sighting, whoever is called alive was
\* sighted, and whoever is called lost, or is due to be, has been silent for long enough.
Typed ==
  /\ holding \in [Node -> 0..Polls] /\ age \in [Node -> 0..Never]
  /\ mark \in [Node -> {"unknown", "alive", "lost"}] /\ log \in [Node -> {"unknown", "alive", "lost"}]
  /\ uptime \in 0..Stale /\ due \in 0..Period /\ silent \subseteq Node

Sighted ==
  \A n \in Node :
    /\ holding[n] > 0 => age[n] = 0
    /\ mark[n] = "alive" => holding[n] > 0 \/ age[n] <= Stale + (Period - due)

SilentLongEnough ==
  \A n \in Node :
    /\ mark[n] = "lost" => n \in silent
    /\ holding[n] = 0 /\ Heard(n) /\ age[n] > Stale => n \in silent
    /\ ~Heard(n) /\ uptime = Stale => n \in silent

IInv == Typed /\ Sighted /\ SilentLongEnough /\ PresenceTold
=============================================================================
