-------------------------------- MODULE Ladder --------------------------------
(***************************************************************************)
(* What a node's rules make of a closed window (edge/rollup/rules.go): a     *)
(* source that floods through its ceiling is challenged, then denied, for    *)
(* longer each time; a zone whose admitted load is over its rate is          *)
(* challenged as a whole.  The verdicts go to the decision service, which    *)
(* may have no room; a document reaches the service before the rules.        *)
(*                                                                         *)
(* One zone.  The errors rule only marks, and is left out; what a verdict    *)
(* does to a request is Verdicts'.                                          *)
(***************************************************************************)
EXTENDS Integers, FiniteSets, FiniteSetsExt

CONSTANTS
  Source,
  Closed,        \* what a window may say: [load, of |-> [Source -> [decided, over, served]]]
  FloodMin, FloodShare, \* the share in percent
  DenyTtl, MaxDenyTtl, ChallengeTtl, Memory, MaxRepeats,
  ZoneRps, Hold

LadderAssumption ==
  /\ IsFiniteSet(Source)
  /\ {DenyTtl, ChallengeTtl, Hold} \subseteq Nat \ {0}
  /\ {MaxDenyTtl, Memory, MaxRepeats} \subseteq Nat /\ MaxDenyTtl >= DenyTtl /\ Memory > MaxDenyTtl

VARIABLES
  mode, rule,       \* of the zone, at the service and at the rules: "gone", "off" or "auto"
  deny, chal, flip, \* the service's verdicts: ticks they have to run
  repeats,          \* of each source: promotions remembered, and ticks since the last
  due,              \* the tick's window is still to close
  offered,          \* sources that had the rung's chance, or a promotion without one (ghost)
  denied,           \* sources a deny has landed on (ghost)
  wrong             \* what a window did wrong (ghost)

vars == <<mode, rule, deny, chal, flip, repeats, due, offered, denied, wrong>>

Mode == {"gone", "off", "auto"}
Unknown == [n |-> 0, last |-> 0]
Levels == MaxDenyTtl   \* more promotions than that double nothing

Flooding(st) == st.over >= FloodMin /\ st.decided > 0 /\ 100 * st.over >= FloodShare * st.decided

\* forget: what is older than the memory goes before anything is judged.
Remembered(s) == repeats[s].n > 0 /\ repeats[s].last <= Memory
Memories == {s \in Source : Remembered(s)}

\* escalate: the base, doubled for every promotion remembered, up to the most.
Doubled[n \in 0..Levels] == IF n = 0 THEN DenyTtl ELSE Min({2 * Doubled[n - 1], MaxDenyTtl})
DenyFor(s) == Doubled[IF Remembered(s) THEN repeats[s].n ELSE 0]

\* SetZoneChallenge takes a flip in an automatic zone only.
Trips(w) == rule = "auto" /\ ZoneRps > 0 /\ w.load >= ZoneRps /\ mode = "auto"

\* Wrong variant: read after this window's trigger.
UnderChallengeByNow(w) == flip > 0 \/ Trips(w)

\* Read before the trigger: whether this window's sources met the rung.
UnderChallenge(w) == flip > 0

HadRung(s, w) == w.of[s].served \/ Remembered(s) \/ UnderChallenge(w) \/ chal[s] > 0

\* A source the table denies is skipped: its denials are the deny at work.
Flooders(w) == {s \in Source : Flooding(w.of[s]) /\ deny[s] = 0}

\* The rung needs room among the challenges ("free"); without, the block follows.
Challenged(w, room) ==
  {s \in Flooders(w) : rule = "auto" /\ ~HadRung(s, w) /\ room = "free"}

\* setDeny: it lands unless the table is full ("none"), and a challenged source's
\* challenge makes room for its own.
Lands(s, room) == room # "none" \/ chal[s] > 0

\* A challenge that outlasts the deny stays beneath it, unless it made room.
Beneath(s, made) == IF chal[s] > DenyFor(s) /\ ~made THEN chal[s] ELSE 0

\* Of the promoted that are new, those the memory has room for.
Kept(new) == {S \in SUBSET new :
  Cardinality(S) = Min({Cardinality(new), Max({MaxRepeats - Cardinality(Memories), 0})})}

Promotion(s) == [n |-> IF Remembered(s) THEN Min({Levels, repeats[s].n + 1}) ELSE 1, last |-> 0]

\* Apply.  A promotion is remembered whether or not its deny lands.  What is short of
\* room may drop the challenges beneath denies (dropBeneath).
Apply(w, room, made) ==
  LET rung == Challenged(w, room)
      promoted == Flooders(w) \ rung
      landed == {s \in promoted : Lands(s, room)}
      chance == offered \cup rung
        \cup {s \in Source : w.of[s].served \/ (w.of[s].decided > 0 /\ flip > 0)}
        \cup IF rule # "auto" \/ room # "free" THEN promoted ELSE {}
  IN /\ due /\ due' = FALSE
     /\ made => room # "free" /\ Flooders(w) # {}
     /\ flip' = IF Trips(w) THEN Hold ELSE flip
     /\ chal' = [s \in Source |-> IF s \in rung THEN ChallengeTtl
                                  ELSE IF s \in promoted THEN Beneath(s, made \/ room = "none")
                                  ELSE IF made /\ deny[s] > 0 THEN 0 ELSE chal[s]]
     /\ deny' = [s \in Source |-> IF s \in landed THEN DenyFor(s) ELSE deny[s]]
     /\ \E kept \in Kept(promoted \ Memories) :
          repeats' = [s \in Source |-> IF s \in kept \/ s \in promoted \cap Memories THEN Promotion(s)
                                       ELSE IF Remembered(s) THEN repeats[s] ELSE Unknown]
     /\ offered' = chance /\ denied' = denied \cup landed
     /\ wrong' = wrong
          \cup (IF promoted \subseteq chance THEN {} ELSE {"no chance"})
          \cup (IF \E s \in Source : deny[s] > 0 /\ deny'[s] # deny[s] THEN {"extended"} ELSE {})
          \cup (IF \E s \in Source : /\ Flooding(w.of[s]) /\ room # "none"
                                     /\ deny'[s] = 0 /\ chal'[s] = 0 THEN {"unanswered"} ELSE {})
     /\ UNCHANGED <<mode, rule>>

\* acceptDocument: the service first, which drops the verdicts of a zone that is gone
\* and retires a flip that is automatic no more; then the rules.
SetService(m) ==
  /\ mode = rule /\ m # mode /\ mode' = m
  /\ flip' = IF m = "auto" THEN flip ELSE 0
  /\ IF m = "gone" THEN deny' = [s \in Source |-> 0] /\ chal' = [s \in Source |-> 0]
     ELSE UNCHANGED <<deny, chal>>
  /\ UNCHANGED <<rule, repeats, due, offered, denied, wrong>>

SetRules ==
  /\ rule # mode /\ rule' = mode
  /\ UNCHANGED <<mode, deny, chal, flip, repeats, due, offered, denied, wrong>>

Less(n) == Max({n - 1, 0})

\* A window's time; one that nobody wrote to is not judged.
Tick ==
  /\ due' = TRUE
  /\ deny' = [s \in Source |-> Less(deny[s])] /\ chal' = [s \in Source |-> Less(chal[s])]
  /\ flip' = Less(flip)
  /\ repeats' = [s \in Source |-> IF repeats[s].n = 0 THEN Unknown
                                  ELSE [repeats[s] EXCEPT !.last = Min({@ + 1, Memory + 1})]]
  /\ UNCHANGED <<mode, rule, offered, denied, wrong>>

Init ==
  /\ mode = "gone" /\ rule = "gone"
  /\ deny = [s \in Source |-> 0] /\ chal = [s \in Source |-> 0] /\ flip = 0
  /\ repeats = [s \in Source |-> Unknown] /\ due = FALSE
  /\ offered = {} /\ denied = {} /\ wrong = {}

Next ==
  \/ \E w \in Closed, room \in {"free", "tight", "none"}, made \in BOOLEAN : Apply(w, room, made)
  \/ \E m \in Mode : SetService(m)
  \/ SetRules \/ Tick

Spec == Init /\ [][Next]_vars

---------------------------------------------------------------------------
(* Properties.                                                             *)

TypeOK ==
  /\ mode \in Mode /\ rule \in Mode /\ flip \in 0..Hold
  /\ deny \in [Source -> 0..MaxDenyTtl] /\ chal \in [Source -> 0..ChallengeTtl]
  /\ repeats \in [Source -> [n : 0..Levels, last : 0..(Memory + 1)]]
  /\ Cardinality({s \in Source : repeats[s].n > 0}) <= MaxRepeats

\* In an automatic zone nobody is blocked who never had the rung's chance: challenged,
\* served the page, or in the zone while all of it was challenged, but for a table
\* without room; and a block earned by another policy (Apply's ladder).
RungFirst == "no chance" \notin wrong

\* A flood does not lengthen the block it runs into: a one-time offence does not become
\* a block without end.
NeverExtended == "extended" \notin wrong

\* Whoever floods is under a verdict when its window has been judged, or the table is full.
FloodAnswered == "unanswered" \notin wrong

\* "A repeat therefore means a flood after the previous deny expired": false, as escalate
\* counts a promotion whose deny the table refuses.
RepeatsRan == Memories \subseteq denied

FloodsClimb == TypeOK /\ RungFirst /\ NeverExtended /\ FloodAnswered

---------------------------------------------------------------------------
(* What makes them inductive.                                              *)

\* Whoever is remembered or challenged had the rung's chance.
ChanceHad == \A s \in Source : repeats[s].n > 0 \/ chal[s] > 0 => s \in offered

IInv == FloodsClimb /\ ChanceHad
=============================================================================
