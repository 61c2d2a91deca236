------------------------------ MODULE Verdicts ------------------------------
(***************************************************************************)
(* The decider's verdict table (edge/decide/table.go) and the rung of its   *)
(* zones: the file's challenge mode, the brain's override of it, and the    *)
(* zone-wide flip a flood earns (SetZoneChallenge, SetZones).               *)
(*                                                                         *)
(* Times are distances from now.  The reason of a verdict, exempt paths and *)
(* the dry runs that only relabel one are left out; a visitor here has no   *)
(* clearance, and a zone always has a live key (the node's own).            *)
(***************************************************************************)
EXTENDS Integers, Sequences, SequencesExt, FiniteSets

CONSTANTS
  Zone, Src,
  Every,        \* the every-zone wildcard
  Target,       \* the keys verdicts are installed for
  MaxEntries,   \* the table's size
  Levers,       \* the modes an override may set
  Ttl,          \* the longest verdict, flip or override
  FullEvery     \* fullSweepEvery

Kind == <<"deny", "challenge", "mark">>    \* strongest first
Kinds == Range(Kind)
Mode == {"off", "auto", "manual"}
Key == (Zone \cup {Every}) \X Src
Absent == -1
NoOverride == [mode |-> "off", left |-> 0]
Quiet == [on |-> FALSE, left |-> 0]

VerdictsAssumption ==
  /\ Every \notin Zone /\ Target \subseteq (Zone \cup {Every}) \X Src
  /\ Levers \subseteq Mode /\ {MaxEntries, Ttl, FullEvery} \subseteq Nat \ {0}

VARIABLES
  zones,    \* the zones of the document
  rung,     \* rung[z]: its file mode, the override, the flip
  gauge,    \* gauge[z]: the zone is reported as challenged
  table,    \* table[kind][key]: the entry's time left, 0 once expired
  pace,     \* since the table's last on-full sweep, and last dropBeneath
  blocked,  \* blocked[k]: what is left of the last block of k that landed
  flooded,  \* flooded[z]: what is left of the last flip z took, while auto
  spared    \* a challenged source was spared its block

vars == <<zones, rung, gauge, table, pace, blocked, flooded, spared>>

Least(a, b) == IF a < b THEN a ELSE b
Less(x) == IF x > 0 THEN x - 1 ELSE x

---------------------------------------------------------------------------
(* The table.                                                              *)

Entries(e) == {v \in Kinds \X Key : e[v[1]][v[2]] # Absent}
Challenges(e) == {k \in Key : e["challenge"][k] # Absent}

Purged(e) == [m \in Kinds |-> [k \in Key |-> IF e[m][k] = 0 THEN Absent ELSE e[m][k]]]

\* The table with its pace, as one record.
T == [e |-> table, pace |-> pace]

Swept(t) ==
  IF t.pace.sweep >= FullEvery
  THEN [e |-> Purged(t.e), pace |-> [t.pace EXCEPT !.sweep = 0]] ELSE t

Full(t) == Cardinality(Entries(t.e)) >= MaxEntries

\* room: [t, ok].
Room(t, m, k) ==
  LET s == IF t.e[m][k] = Absent /\ Full(t) THEN Swept(t) ELSE t
  IN [t |-> s, ok |-> s.e[m][k] # Absent \/ ~Full(s)]

Unmarked(t, S) ==
  [t EXCEPT !.e = [m \in Kinds |-> [k \in Key |->
     IF m # "deny" /\ k \in S THEN Absent ELSE t.e[m][k]]]]

\* dropBeneath: what a live deny hides makes way.
Beneath(t) ==
  IF t.pace.beneath < FullEvery THEN t
  ELSE Unmarked([t EXCEPT !.pace.beneath = 0], {k \in Key : t.e["deny"][k] > 0})

Put(t, m, k, left) == [t EXCEPT !.e[m][k] = left]

\* What the deny outlives goes; what outlasts it stays beneath.
Outlived(t, k, left) ==
  [t EXCEPT !.e = [m \in Kinds |->
     IF m # "deny" /\ t.e[m][k] <= left THEN [t.e[m] EXCEPT ![k] = Absent] ELSE t.e[m]]]

\* Wrong variant: a full table refuses the block whatever it would displace.
MadeWayNot(r, k) == r

\* The block of a challenged source always lands: its own weaker verdicts make
\* way, then those beneath other blocks.
MadeWay(r, k) ==
  IF r.ok THEN r
  ELSE LET own == Room(Unmarked(r.t, {k}), "deny", k)
       IN IF own.ok THEN own ELSE Room(Beneath(own.t), "deny", k)

Commit(t) == table' = t.e /\ pace' = t.pace

Deny(k, left) ==
  LET r == MadeWay(Room(Outlived(T, k, left), "deny", k), k)
  IN /\ Commit(IF r.ok THEN Put(r.t, "deny", k, left) ELSE r.t)
     /\ blocked' = [blocked EXCEPT ![k] = IF r.ok THEN left ELSE @]
     /\ spared' = (spared \/ (table["challenge"][k] > 0 /\ ~r.ok))
     /\ UNCHANGED <<zones, rung, gauge, flooded>>

\* Challenges may fill half of the table.
ShareTaken(t, k) ==
  t.e["challenge"][k] = Absent /\ Cardinality(Challenges(t.e)) >= MaxEntries \div 2

Challenge(k, left) ==
  LET s == IF ShareTaken(T, k) THEN Beneath(Swept(T)) ELSE T
      r == Room(s, "challenge", k)
  IN /\ Commit(IF ShareTaken(s, k) THEN s
               ELSE IF r.ok THEN Put(r.t, "challenge", k, left) ELSE r.t)
     /\ UNCHANGED <<zones, rung, gauge, blocked, flooded, spared>>

Mark(k, left) ==
  LET r == Room(T, "mark", k)
  IN /\ Commit(IF r.ok THEN Put(r.t, "mark", k, left) ELSE r.t)
     /\ UNCHANGED <<zones, rung, gauge, blocked, flooded, spared>>

Clear(k) ==
  /\ table' = [m \in Kinds |-> [table[m] EXCEPT ![k] = Absent]]
  /\ blocked' = [blocked EXCEPT ![k] = 0]
  /\ UNCHANGED <<zones, rung, gauge, pace, flooded, spared>>

---------------------------------------------------------------------------
(* The rung.                                                               *)

\* A live override stands in for the file's mode.
ModeOf(r) == IF r.override.left > 0 THEN r.override.mode ELSE r.mode

Stale(r) == r.flip.on /\ (r.flip.left = 0 \/ ModeOf(r) # "auto")

\* retireLapsedFlip, for the zones of S.
Retire(S) ==
  LET out == {z \in S : Stale(rung[z])}
  IN /\ rung' = [z \in Zone |-> IF z \in out THEN [rung[z] EXCEPT !.flip = Quiet] ELSE rung[z]]
     /\ gauge' = [z \in Zone |-> gauge[z] /\ z \notin out]

\* Only an auto zone takes a flip.
SetZoneChallenge(z, on, left) ==
  /\ z \in zones /\ (on => ModeOf(rung[z]) = "auto")
  /\ rung' = [rung EXCEPT ![z].flip = [on |-> on, left |-> left]]
  /\ gauge' = [gauge EXCEPT ![z] = on]
  /\ flooded' = [flooded EXCEPT ![z] = IF on THEN left ELSE 0]
  /\ UNCHANGED <<zones, table, pace, blocked, spared>>

\* Wrong variant: a new document starts every zone without a flip.
CarriedNot(old, new) == Quiet

\* A flip survives a document that leaves its zone auto.
Carried(old, new) == IF ModeOf(new) = "auto" THEN old.flip ELSE Quiet

Gone == [mode |-> "off", override |-> NoOverride, flip |-> Quiet]

\* What a document may say of a zone; Gone is a zone it lacks.
Told == {Gone} \cup
  [mode : Mode, override : {NoOverride} \cup [mode : Levers, left : {Ttl}], flip : {Quiet}]

SetZones ==
  \E S \in SUBSET Zone : \E doc \in [Zone -> Told] :
    LET kept == S \cap zones
        auto(z) == z \in kept /\ ModeOf(doc[z]) = "auto"
    IN /\ \A z \in Zone \ S : doc[z] = Gone
       /\ zones' = S
       /\ rung' = [z \in Zone |-> IF z \in kept
                                  THEN [doc[z] EXCEPT !.flip = Carried(rung[z], doc[z])] ELSE doc[z]]
       /\ gauge' = [z \in Zone |-> gauge[z] /\ auto(z)]
       /\ flooded' = [z \in Zone |-> IF auto(z) THEN flooded[z] ELSE 0]
       /\ UNCHANGED <<table, pace, blocked, spared>>

---------------------------------------------------------------------------
(* A request.                                                              *)

\* Wrong variant: the zone's own verdicts first.
VisitsByScope(k) ==
  <<<<"deny", k>>, <<"challenge", k>>, <<"mark", k>>>>
    \o [i \in 1..3 |-> <<Kind[i], <<Every, k[2]>>>>]

\* lookup's order: by strength, not by scope.
Visits(k) ==
  [i \in 1..6 |-> <<Kind[(i + 1) \div 2], IF i % 2 = 1 THEN k ELSE <<Every, k[2]>>>>]

At(v) == table[v[1]][v[2]]
Found(k) == SelectInSeq(Visits(k), LAMBDA v : At(v) > 0)
Strongest(k) == IF Found(k) = 0 THEN "none" ELSE Visits(k)[Found(k)][1]

\* Expired entries met on the way are deleted.
Met(k) == {Visits(k)[i] : i \in {j \in 1..6 : Found(k) = 0 \/ j < Found(k)}}

\* challengeWhy, once a lapsed flip is retired.
InForce(r, strongest) ==
  \/ ModeOf(r) = "manual"
  \/ ModeOf(r) = "auto" /\ ((r.flip.on /\ ~Stale(r)) \/ strongest = "challenge")

Said(k) ==
  IF Strongest(k) = "deny" THEN "deny"
  ELSE IF InForce(rung[k[1]], Strongest(k)) THEN "challenge" ELSE "pass"

DecideRequest(k) ==
  /\ k[1] \in zones
  /\ table' = [m \in Kinds |-> [x \in Key |->
                 IF <<m, x>> \in Met(k) /\ table[m][x] = 0 THEN Absent ELSE table[m][x]]]
  /\ IF Strongest(k) = "deny" THEN UNCHANGED <<rung, gauge>> ELSE Retire({k[1]})
  /\ UNCHANGED <<zones, pace, blocked, flooded, spared>>

\* The service's sweep, on a request or on the node's ticker (Admission has its
\* pace): lapsed flips, expired verdicts, and those of zones that are gone.
Sweep ==
  /\ Retire(zones)
  /\ table' = [m \in Kinds |-> [k \in Key |->
                 IF k[1] \in zones \cup {Every} /\ table[m][k] > 0 THEN table[m][k] ELSE Absent]]
  /\ pace' = [pace EXCEPT !.sweep = 0]
  /\ blocked' = [k \in Key |-> IF k[1] \in zones \cup {Every} THEN blocked[k] ELSE 0]
  /\ UNCHANGED <<zones, flooded, spared>>

TimePasses ==
  /\ table' = [m \in Kinds |-> [k \in Key |-> Less(table[m][k])]]
  /\ pace' = [p \in DOMAIN pace |-> Least(pace[p] + 1, FullEvery)]
  /\ rung' = [z \in Zone |-> [rung[z] EXCEPT !.override.left = Less(@), !.flip.left = Less(@)]]
  /\ blocked' = [k \in Key |-> Less(blocked[k])]
  /\ flooded' = [z \in Zone |-> IF ModeOf(rung'[z]) = "auto" THEN Less(flooded[z]) ELSE 0]
  /\ UNCHANGED <<zones, gauge, spared>>

Init ==
  /\ zones = {} /\ gauge = [z \in Zone |-> FALSE]
  /\ rung = [z \in Zone |-> Gone]
  /\ table = [m \in Kinds |-> [k \in Key |-> Absent]]
  /\ pace = [sweep |-> FullEvery, beneath |-> FullEvery]
  /\ blocked = [k \in Key |-> 0] /\ flooded = [z \in Zone |-> 0] /\ spared = FALSE

Next ==
  \/ \E k \in Target, left \in 1..Ttl : Deny(k, left) \/ Challenge(k, left) \/ Mark(k, left)
  \/ \E k \in Target : Clear(k)
  \/ \E z \in Zone, on \in BOOLEAN, left \in 1..Ttl : SetZoneChallenge(z, on, left)
  \/ SetZones
  \/ \E k \in Key : DecideRequest(k)
  \/ Sweep
  \/ TimePasses

Spec == Init /\ [][Next]_vars

---------------------------------------------------------------------------
(* Properties.                                                             *)

TypeOK ==
  /\ zones \subseteq Zone /\ gauge \in [Zone -> BOOLEAN]
  /\ table \in [Kinds -> [Key -> Absent..Ttl]]
  /\ pace \in [{"sweep", "beneath"} -> 0..FullEvery]
  /\ blocked \in [Key -> 0..Ttl] /\ flooded \in [Zone -> 0..Ttl]

Requests == zones \X Src

\* No sequence of verdicts, documents, floods, sweeps and time takes a landed
\* block away, or lets it outstay its time: not a mark, a challenge, an every-zone
\* verdict, or the room a full table must make.  A flood's flip holds through every
\* document that leaves the zone auto, and is reported while it stands.  "The
\* block a challenged flooder earns always lands" (setDeny), in a table full of
\* the verdicts of others; and the challenges keep to their share.
VerdictsStand ==
  /\ \A k \in Requests :
       (blocked[k] > 0 \/ blocked[<<Every, k[2]>>] > 0) <=> Said(k) = "deny"
  /\ \A k \in Requests : flooded[k[1]] > 0 => Said(k) # "pass"
  /\ \A z \in Zone : gauge[z] <=> rung[z].flip.on
  /\ ~spared
  /\ Cardinality(Entries(table)) <= MaxEntries
  /\ Cardinality(Challenges(table)) <= MaxEntries \div 2

\* What makes it inductive: a block's entry in the table is what is left of it, a flip the
\* zone took is what its rung has, and the table is finite and within its size.
Typed ==
  /\ TypeOK
  /\ rung \in [Zone -> [mode : Mode, override : [mode : Mode, left : 0..Ttl],
                        flip : [on : BOOLEAN, left : 0..Ttl]]]

BlocksLanded ==
  \A k \in Key : IF blocked[k] > 0 THEN table["deny"][k] = blocked[k] ELSE table["deny"][k] <= 0

FlipsHeld ==
  \A z \in Zone :
    /\ gauge[z] <=> rung[z].flip.on
    /\ flooded[z] > 0 => /\ ModeOf(rung[z]) = "auto"
                         /\ rung[z].flip.on /\ rung[z].flip.left = flooded[z]

TableBounded ==
  /\ IsFiniteSet(Entries(table)) /\ Cardinality(Entries(table)) <= MaxEntries
  /\ Cardinality(Challenges(table)) <= MaxEntries \div 2

IInv == Typed /\ BlocksLanded /\ FlipsHeld /\ TableBounded /\ spared = FALSE
=============================================================================
