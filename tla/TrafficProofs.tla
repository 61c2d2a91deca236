---------------------------- MODULE TrafficProofs ---------------------------
(***************************************************************************)
(* What the edge makes of its traffic, for every set of zones and sources,   *)
(* every policy and every log: the rules' ladder (Ladder), the exporter of   *)
(* the access log (Exporter), the rollup of its records (Rollup) and the     *)
(* ceilings (Admission).  Each part has its invariant, IInv, which its first *)
(* states satisfy and its steps keep; EdgeProofs puts the parts together.    *)
(***************************************************************************)
EXTENDS Edge, FiniteFacts, SequenceTheorems

---------------------------------------------------------------------------
(* Ladder: how long a deny is.                                             *)

\* The ladder's cardinalities are the library's.
LEMMA LadderCounted ==
  /\ \A S : L!IsFiniteSet(S) <=> IsFiniteSet(S)
  /\ \A S : L!Cardinality(S) = Cardinality(S)
<1>1. \A S : L!IsFiniteSet(S) <=> IsFiniteSet(S)
  BY DEF L!IsFiniteSet, IsFiniteSet
<1>2. \A S : L!Cardinality(S) = Cardinality(S)
  BY DEF L!Cardinality, Cardinality
<1> QED
  BY <1>1, <1>2

\* What is assumed of the rules, name by name.
LEMMA LadderGiven ==
  ASSUME L!LadderAssumption
  PROVE  /\ IsFiniteSet(Flooder) /\ MaxRepeats \in Nat /\ RepeatMemory \in Nat
         /\ ChallengeTtl \in Nat \ {0} /\ FlipHold \in Nat \ {0} /\ DenyTtl \in Nat \ {0}
         /\ MaxDenyTtl \in Nat \ {0} /\ DenyTtl <= MaxDenyTtl /\ L!Levels = MaxDenyTtl
<1>1. IsFiniteSet(Flooder)
  BY LadderCounted DEF L!LadderAssumption
<1>2. /\ {DenyTtl, ChallengeTtl, FlipHold} \subseteq Nat \ {0}
      /\ {MaxDenyTtl, RepeatMemory, MaxRepeats} \subseteq Nat /\ MaxDenyTtl >= DenyTtl
  BY DEF L!LadderAssumption
<1> QED
  BY <1>1, <1>2 DEF L!Levels

\* The lesser of two numbers.
LEMMA LadderMin ==
  ASSUME NEW a \in Int, NEW b \in Int
  PROVE  L!Min({a, b}) = IF a <= b THEN a ELSE b
<1> DEFINE m == IF a <= b THEN a ELSE b
<1>1. m \in {a, b} /\ \A y \in {a, b} : m <= y
  OBVIOUS
<1>2. \A x \in {a, b} : (\A y \in {a, b} : x <= y) => x = m
  OBVIOUS
<1> HIDE DEF m
<1>3. L!Min({a, b}) = m
  BY <1>1, <1>2 DEF L!Min
<1> QED
  BY <1>3 DEF m

\* The greater of two numbers.
LEMMA LadderMax ==
  ASSUME NEW a \in Int, NEW b \in Int
  PROVE  L!Max({a, b}) = IF a >= b THEN a ELSE b
<1> DEFINE m == IF a >= b THEN a ELSE b
<1>1. m \in {a, b} /\ \A y \in {a, b} : m >= y
  OBVIOUS
<1>2. \A x \in {a, b} : (\A y \in {a, b} : x >= y) => x = m
  OBVIOUS
<1> HIDE DEF m
<1>3. L!Max({a, b}) = m
  BY <1>1, <1>2 DEF L!Max
<1> QED
  BY <1>3 DEF m

\* What escalate's doubling says, of the first n promotions.
Doubles(f, n) == f = [i \in 0..n |-> IF i = 0 THEN DenyTtl ELSE L!Min({2 * f[i - 1], MaxDenyTtl})]

\* The doubling defines a length for every number of promotions.
LEMMA DoublesExists ==
  ASSUME NEW N \in Nat
  PROVE  \E f : Doubles(f, N)
<1> DEFINE B == {n \in Nat : ~\E f : Doubles(f, n)}
<1>1. B \in SUBSET Nat
  OBVIOUS
<1>2. ASSUME B # {}  PROVE FALSE
  <2> HIDE DEF B
  <2>1. PICK n \in B : \A m \in B : n <= m
    BY <1>1, <1>2, LeastNatural
  <2> USE DEF B
  <2>2. n \in Nat
    OBVIOUS
  <2>3. CASE n = 0
    <3> DEFINE f == [i \in 0..0 |-> DenyTtl]
    <3>1. f = [i \in 0..0 |-> IF i = 0 THEN DenyTtl ELSE L!Min({2 * f[i - 1], MaxDenyTtl})]
      OBVIOUS
    <3> HIDE DEF f
    <3>2. Doubles(f, n)
      BY <2>3, <3>1 DEF Doubles
    <3> QED
      BY <3>2
  <2>4. CASE n > 0
    <3>1. n - 1 \in Nat /\ n - 1 \notin B
      BY <2>1, <2>2, <2>4
    <3>2. PICK g : Doubles(g, n - 1)
      BY <3>1
    <3>3. \A i \in 0..(n - 1) : g[i] = IF i = 0 THEN DenyTtl ELSE L!Min({2 * g[i - 1], MaxDenyTtl})
      BY <3>2 DEF Doubles
    <3> DEFINE f == [i \in 0..n |-> IF i = n THEN L!Min({2 * g[n - 1], MaxDenyTtl}) ELSE g[i]]
    <3>4. \A i \in 0..n : /\ f[i] = IF i = n THEN L!Min({2 * g[n - 1], MaxDenyTtl}) ELSE g[i]
                          /\ i # 0 => i - 1 \in 0..n /\ i - 1 # n
                          /\ i # n => i \in 0..(n - 1)
      BY <2>2
    <3>5. \A i \in 0..n : i # 0 => f[i - 1] = g[i - 1]
      BY <3>4
    <3>6. f = [i \in 0..n |-> f[i]]
      OBVIOUS
    <3> HIDE DEF f
    <3>7. \A i \in 0..n : f[i] = IF i = 0 THEN DenyTtl ELSE L!Min({2 * f[i - 1], MaxDenyTtl})
      <4> SUFFICES ASSUME NEW i \in 0..n
                   PROVE  f[i] = IF i = 0 THEN DenyTtl ELSE L!Min({2 * f[i - 1], MaxDenyTtl})
        OBVIOUS
      <4>1. CASE i = n
        <5>1. f[i] = L!Min({2 * g[n - 1], MaxDenyTtl})
          BY <3>4, <4>1
        <5>3. i # 0
          BY <2>2, <2>4, <4>1
        <5>2. f[i - 1] = g[n - 1]
          BY <3>5, <4>1, <5>3
        <5> QED
          BY <5>1, <5>2, <5>3
      <4>2. CASE i # n
        <5>1. f[i] = g[i] /\ i \in 0..(n - 1)
          BY <3>4, <4>2
        <5> QED
          BY <3>3, <3>5, <5>1
      <4> QED
        BY <4>1, <4>2
    <3>8. f = [i \in 0..n |-> IF i = 0 THEN DenyTtl ELSE L!Min({2 * f[i - 1], MaxDenyTtl})]
      BY <3>6, <3>7
    <3> QED
      BY <3>8 DEF Doubles
  <2> QED
    BY <2>2, <2>3, <2>4
<1> QED
  BY <1>2

\* A deny has at least a tick and at most the longest there is.
LEMMA DenyLasts ==
  ASSUME L!LadderAssumption, NEW n \in 0..L!Levels
  PROVE  L!Doubled[n] \in 1..MaxDenyTtl
<1>1. DenyTtl \in Nat \ {0} /\ MaxDenyTtl \in Nat /\ DenyTtl <= MaxDenyTtl /\ L!Levels = MaxDenyTtl
  BY LadderGiven
<1> DEFINE f == L!Doubled
<1>2. Doubles(f, L!Levels)
  <2>1. f = CHOOSE g : Doubles(g, L!Levels)
    BY DEF L!Doubled, Doubles
  <2> QED
    BY <1>1, <2>1, DoublesExists
<1> HIDE DEF f
<1>3. \A i \in 0..L!Levels : f[i] = IF i = 0 THEN DenyTtl ELSE L!Min({2 * f[i - 1], MaxDenyTtl})
  BY <1>2 DEF Doubles
<1> DEFINE B == {i \in 0..L!Levels : f[i] \notin 1..MaxDenyTtl}
<1>4. B \in SUBSET Nat
  OBVIOUS
<1>5. ASSUME B # {}  PROVE FALSE
  <2> HIDE DEF B
  <2>1. PICK i \in B : \A j \in B : i <= j
    BY <1>4, <1>5, LeastNatural
  <2> USE DEF B
  <2>2. i # 0
    <3>1. 0 \in 0..L!Levels
      BY <1>1
    <3>2. f[0] = DenyTtl
      BY <1>3, <3>1
    <3>3. DenyTtl \in 1..MaxDenyTtl
      BY <1>1
    <3>4. 0 \notin B
      BY <3>2, <3>3
    <3> QED
      BY <3>4
  <2>3. f[i - 1] \in 1..MaxDenyTtl
    <3>1. i - 1 \in 0..L!Levels /\ ~(i <= i - 1)
      BY <1>1, <2>2
    <3> QED
      BY <2>1, <3>1
  <2>4. L!Min({2 * f[i - 1], MaxDenyTtl}) \in 1..MaxDenyTtl
    BY <1>1, <2>3, LadderMin
  <2> QED
    BY <1>3, <2>2, <2>4
<1> QED
  BY <1>5 DEF f

---------------------------------------------------------------------------
(* Ladder: its invariant.                                                  *)

\* A zone nobody has written to has no verdict.
LEMMA LadderInit ==
  ASSUME L!LadderAssumption, L!Init
  PROVE  L!IInv
<1>1. 0 \in 0..MaxDenyTtl /\ 0 \in 0..ChallengeTtl /\ 0 \in 0..FlipHold /\ 0 \in 0..(RepeatMemory + 1) /\ MaxRepeats >= 0
  BY LadderGiven
<1>2. {s \in Flooder : repeats[s].n > 0} = {}
  BY DEF L!Init, L!Unknown
<1>3. L!Unknown \in [n : 0..L!Levels, last : 0..(RepeatMemory + 1)]
  BY <1>1 DEF L!Unknown, L!Levels
<1>4. L!TypeOK
  BY <1>1, <1>2, <1>3, FS_EmptySet, LadderCounted DEF L!Init, L!TypeOK, L!Mode
<1>5. L!ChanceHad
  BY DEF L!Init, L!ChanceHad, L!Unknown
<1> QED
  BY <1>4, <1>5 DEF L!Init, L!IInv, L!FloodsClimb, L!RungFirst, L!NeverExtended, L!FloodAnswered

\* The promotions remembered after a window are no more than the memory takes.
LEMMA RepeatsFit ==
  ASSUME L!LadderAssumption, L!TypeOK, NEW new \in SUBSET Flooder, NEW fit \in L!Kept(new)
  PROVE  Cardinality(fit \cup L!Memories) <= MaxRepeats
<1>1. IsFiniteSet(Flooder) /\ MaxRepeats \in Nat
  BY LadderGiven
<1> DEFINE R == {s \in Flooder : repeats[s].n > 0}
<1>2. L!Memories \in SUBSET R /\ R \in SUBSET Flooder /\ fit \in SUBSET Flooder
  BY DEF L!Memories, L!Remembered, L!Kept
<1>3. /\ IsFiniteSet(L!Memories) /\ IsFiniteSet(R) /\ IsFiniteSet(fit) /\ IsFiniteSet(new)
      /\ Cardinality(L!Memories) <= Cardinality(R)
  BY <1>1, <1>2, FS_Subset
<1>4. /\ Cardinality(L!Memories) \in Nat /\ Cardinality(R) \in Nat /\ Cardinality(fit) \in Nat /\ Cardinality(new) \in Nat
  BY <1>3, FS_CardinalityType
<1>5. Cardinality(R) <= MaxRepeats
  BY LadderCounted DEF L!TypeOK
<1>6. Cardinality(L!Memories) + Cardinality(fit) <= MaxRepeats
  <2>1. Cardinality(fit) = L!Min({Cardinality(new), L!Max({MaxRepeats - Cardinality(L!Memories), 0})})
    BY LadderCounted DEF L!Kept
  <2>2. L!Max({MaxRepeats - Cardinality(L!Memories), 0}) = MaxRepeats - Cardinality(L!Memories)
    BY <1>1, <1>3, <1>4, <1>5, LadderMax
  <2>3. Cardinality(fit) <= MaxRepeats - Cardinality(L!Memories)
    <3> DEFINE n == Cardinality(new)
               d == L!Max({MaxRepeats - Cardinality(L!Memories), 0})
    <3>1. n \in Int /\ d \in Int /\ d = MaxRepeats - Cardinality(L!Memories)
      BY <1>1, <1>4, <2>2
    <3>2. Cardinality(fit) = L!Min({n, d})
      BY <2>1
    <3> HIDE DEF n, d
    <3>3. Cardinality(fit) = IF n <= d THEN n ELSE d
      BY <3>1, <3>2, LadderMin
    <3> QED
      BY <3>1, <3>3
  <2> QED
    BY <1>1, <1>4, <2>3
<1>7. /\ IsFiniteSet(fit \cup L!Memories)
      /\ Cardinality(fit \cup L!Memories) = Cardinality(fit) + Cardinality(L!Memories) - Cardinality(fit \cap L!Memories)
      /\ Cardinality(fit \cap L!Memories) \in Nat
  BY <1>3, FS_Union, FS_Intersection, FS_CardinalityType
<1> QED
  BY <1>1, <1>4, <1>6, <1>7

\* A window that is judged does no wrong: what it promotes had its chance, what it blocks
\* was not blocked, and what it finds flooding it answers.
LEMMA LadderApply ==
  ASSUME L!LadderAssumption, L!IInv, NEW w, NEW room \in {"free", "tight", "none"},
         NEW made \in BOOLEAN, L!Apply(w, room, made)
  PROVE  L!IInv'
<1> DEFINE challenged == L!Challenged(w, room)
           promoted == L!Flooders(w) \ challenged
           landed == {s \in promoted : L!Lands(s, room)}
           chance == offered \cup challenged
             \cup {s \in Flooder : w.of[s].served \/ (w.of[s].decided > 0 /\ flip > 0)}
             \cup IF rule # "auto" \/ room # "free" THEN promoted ELSE {}
<1>1. /\ flip' = (IF L!Trips(w) THEN FlipHold ELSE flip) /\ mode' = mode /\ rule' = rule
      /\ offered' = chance
  BY DEF L!Apply
<1>2. chal' = [s \in Flooder |-> IF s \in challenged THEN ChallengeTtl
                                  ELSE IF s \in promoted THEN L!Beneath(s, made \/ room = "none")
                                  ELSE IF made /\ deny[s] > 0 THEN 0 ELSE chal[s]]
  BY DEF L!Apply
<1>3. deny' = [s \in Flooder |-> IF s \in landed THEN L!DenyFor(s) ELSE deny[s]]
  BY DEF L!Apply
<1>4. \E fit \in L!Kept(promoted \ L!Memories) :
          repeats' = [s \in Flooder |-> IF s \in fit \/ s \in promoted \cap L!Memories THEN L!Promotion(s)
                                        ELSE IF L!Remembered(s) THEN repeats[s] ELSE L!Unknown]
  BY DEF L!Apply
<1>5. wrong' = wrong
          \cup (IF promoted \subseteq chance THEN {} ELSE {"no chance"})
          \cup (IF \E s \in Flooder : deny[s] > 0 /\ deny'[s] # deny[s] THEN {"extended"} ELSE {})
          \cup (IF \E s \in Flooder : /\ L!Flooding(w.of[s]) /\ room # "none"
                                      /\ deny'[s] = 0 /\ chal'[s] = 0 THEN {"unanswered"} ELSE {})
  BY DEF L!Apply
<1>6. /\ challenged \in SUBSET Flooder /\ promoted \in SUBSET Flooder /\ landed \in SUBSET promoted
      /\ \A s \in challenged : rule = "auto" /\ room = "free" /\ ~L!HadRung(s, w)
      /\ \A s \in Flooder : s \in challenged \cup promoted <=> L!Flooding(w.of[s]) /\ deny[s] = 0
      /\ \A s \in promoted : rule # "auto" \/ room # "free" \/ L!HadRung(s, w)
      /\ \A s \in promoted : room # "none" => s \in landed
  BY DEF L!Challenged, L!Flooders, L!Lands
<1>7. chance = offered \cup challenged
             \cup {s \in Flooder : w.of[s].served \/ (w.of[s].decided > 0 /\ flip > 0)}
             \cup IF rule # "auto" \/ room # "free" THEN promoted ELSE {}
  OBVIOUS
<1> HIDE DEF challenged, promoted, landed, chance
<1>8. /\ deny \in [Flooder -> 0..MaxDenyTtl] /\ chal \in [Flooder -> 0..ChallengeTtl]
      /\ flip \in 0..FlipHold /\ repeats \in [Flooder -> [n : 0..L!Levels, last : 0..(RepeatMemory + 1)]]
      /\ \A s \in Flooder : repeats[s].n > 0 \/ chal[s] > 0 => s \in offered
  BY DEF L!IInv, L!FloodsClimb, L!TypeOK, L!ChanceHad
<1>9. /\ IsFiniteSet(Flooder) /\ ChallengeTtl \in Nat \ {0} /\ FlipHold \in Nat \ {0}
      /\ MaxDenyTtl \in Nat \ {0} /\ RepeatMemory \in Nat /\ L!Levels = MaxDenyTtl
  BY LadderGiven
<1>10. \A s \in Flooder : L!DenyFor(s) \in 1..MaxDenyTtl
  <2>1. \A s \in Flooder : (IF L!Remembered(s) THEN repeats[s].n ELSE 0) \in 0..L!Levels
    BY <1>8, <1>9
  <2> QED
    BY <2>1, DenyLasts DEF L!DenyFor
<1>11. promoted \subseteq chance
  <2> SUFFICES ASSUME NEW s \in promoted, rule = "auto", room = "free"  PROVE s \in chance
    BY <1>6, <1>7
  <2>1. s \in Flooder /\ w.of[s].decided > 0 /\ L!HadRung(s, w)
    BY <1>6 DEF L!Flooding
  <2> QED
    BY <1>7, <1>8, <2>1 DEF L!HadRung, L!Remembered, L!UnderChallenge
<1>12. deny' \in [Flooder -> 0..MaxDenyTtl] /\ \A s \in Flooder : deny[s] > 0 => deny'[s] = deny[s]
  <2>1. \A s \in Flooder : deny'[s] = IF s \in landed THEN L!DenyFor(s) ELSE deny[s]
    BY <1>3
  <2>2. \A s \in landed : deny[s] = 0
    BY <1>6
  <2>3. \A s \in Flooder : deny'[s] \in 0..MaxDenyTtl
    BY <1>8, <1>10, <2>1
  <2>4. deny' = [s \in Flooder |-> deny'[s]]
    BY <1>3
  <2> QED
    BY <2>1, <2>2, <2>3, <2>4
<1>13. /\ chal' \in [Flooder -> 0..ChallengeTtl]
      /\ \A s \in Flooder : chal'[s] > 0 => s \in challenged \/ chal[s] > 0
  <2>1. \A s \in Flooder : \/ chal'[s] = ChallengeTtl /\ s \in challenged
                           \/ chal'[s] \in {0, chal[s]}
    BY <1>2 DEF L!Beneath
  <2>2. \A s \in Flooder : chal'[s] \in 0..ChallengeTtl
    BY <1>8, <1>9, <2>1
  <2>3. chal' = [s \in Flooder |-> chal'[s]]
    BY <1>2
  <2> QED
    BY <2>1, <2>2, <2>3
<1>14. \A s \in Flooder : L!Flooding(w.of[s]) /\ room # "none" => deny'[s] # 0 \/ chal'[s] # 0
  <2> SUFFICES ASSUME NEW s \in Flooder, L!Flooding(w.of[s]), room # "none"
               PROVE  deny'[s] # 0 \/ chal'[s] # 0
    OBVIOUS
  <2>1. deny[s] \in 0..MaxDenyTtl
    BY <1>8
  <2>2. CASE deny[s] > 0
    BY <1>12, <2>2
  <2>3. CASE deny[s] = 0
    <3>1. s \in challenged \/ s \in landed
      BY <1>6, <2>3
    <3> QED
      BY <1>9, <1>10, <1>2, <1>3, <3>1
  <2> QED
    BY <1>9, <2>1, <2>2, <2>3
<1>15. wrong' = wrong
  BY <1>5, <1>11, <1>12, <1>14
<1>16. \A s \in Flooder : L!Promotion(s) \in [n : 1..L!Levels, last : 0..(RepeatMemory + 1)]
  <2> SUFFICES ASSUME NEW s \in Flooder
               PROVE  (IF L!Remembered(s) THEN L!Min({L!Levels, repeats[s].n + 1}) ELSE 1) \in 1..L!Levels
    BY <1>9 DEF L!Promotion
  <2>1. repeats[s].n \in 0..L!Levels
    BY <1>8
  <2>2. L!Min({L!Levels, repeats[s].n + 1}) \in {L!Levels, repeats[s].n + 1} /\ L!Min({L!Levels, repeats[s].n + 1}) <= L!Levels
    BY <1>9, <2>1, LadderMin
  <2> QED
    BY <1>9, <2>1, <2>2
<1>17. PICK fit \in L!Kept(promoted \ L!Memories) :
          repeats' = [s \in Flooder |-> IF s \in fit \/ s \in promoted \cap L!Memories THEN L!Promotion(s)
                                        ELSE IF L!Remembered(s) THEN repeats[s] ELSE L!Unknown]
  BY <1>4
<1>18. L!Unknown.n = 0 /\ L!Unknown \in [n : 0..L!Levels, last : 0..(RepeatMemory + 1)] /\ fit \in SUBSET promoted
  BY <1>9 DEF L!Unknown, L!Kept
<1>19. repeats' \in [Flooder -> [n : 0..L!Levels, last : 0..(RepeatMemory + 1)]]
  <2>1. \A s \in Flooder : L!Promotion(s) \in [n : 0..L!Levels, last : 0..(RepeatMemory + 1)]
    BY <1>9, <1>16
  <2> QED
    BY <1>8, <1>17, <1>18, <2>1
<1>20. \A s \in Flooder : repeats'[s].n > 0 => s \in fit \cup L!Memories
  BY <1>17, <1>18 DEF L!Memories
<1>21. Cardinality({s \in Flooder : repeats'[s].n > 0}) <= MaxRepeats
  <2> DEFINE R == {s \in Flooder : repeats'[s].n > 0}
  <2>1. Cardinality(fit \cup L!Memories) <= MaxRepeats
    BY <1>6, RepeatsFit DEF L!IInv, L!FloodsClimb
  <2>2. R \in SUBSET (fit \cup L!Memories) /\ fit \cup L!Memories \in SUBSET Flooder
    BY <1>6, <1>18, <1>20 DEF L!Memories
  <2>3. IsFiniteSet(fit \cup L!Memories)
    BY <1>9, <2>2, FS_Subset
  <2>4. IsFiniteSet(R) /\ Cardinality(R) <= Cardinality(fit \cup L!Memories)
    BY <2>2, <2>3, FS_Subset
  <2>5. MaxRepeats \in Nat /\ Cardinality(R) \in Nat /\ Cardinality(fit \cup L!Memories) \in Nat
    BY <2>3, <2>4, FS_CardinalityType, LadderGiven
  <2> QED
    BY <2>1, <2>4, <2>5
<1>22. L!ChanceHad'
  <2>1. \A s \in Flooder : s \in fit \cup L!Memories \cup challenged => s \in chance
    BY <1>7, <1>8, <1>11, <1>18 DEF L!Memories, L!Remembered
  <2>2. \A s \in Flooder : chal[s] > 0 => s \in chance
    BY <1>7, <1>8
  <2> QED
    BY <1>1, <1>13, <1>20, <2>1, <2>2 DEF L!ChanceHad
<1>23. L!TypeOK'
  <2>1. flip' \in 0..FlipHold
    BY <1>1, <1>8, <1>9
  <2> QED
    BY <1>1, <1>12, <1>13, <1>19, <1>21, <2>1, LadderCounted DEF L!IInv, L!FloodsClimb, L!TypeOK
<1> QED
  BY <1>15, <1>22, <1>23 DEF L!IInv, L!FloodsClimb, L!RungFirst, L!NeverExtended, L!FloodAnswered

\* Time takes verdicts away and forgets promotions.
LEMMA LadderTick ==
  ASSUME L!LadderAssumption, L!IInv, L!Tick
  PROVE  L!IInv'
<1>1. /\ deny \in [Flooder -> 0..MaxDenyTtl] /\ chal \in [Flooder -> 0..ChallengeTtl]
      /\ flip \in 0..FlipHold /\ repeats \in [Flooder -> [n : 0..L!Levels, last : 0..(RepeatMemory + 1)]]
      /\ \A s \in Flooder : repeats[s].n > 0 \/ chal[s] > 0 => s \in offered
      /\ Cardinality({s \in Flooder : repeats[s].n > 0}) <= MaxRepeats
  BY LadderCounted DEF L!IInv, L!FloodsClimb, L!TypeOK, L!ChanceHad
<1>2. /\ ChallengeTtl \in Nat /\ FlipHold \in Nat /\ MaxDenyTtl \in Nat /\ RepeatMemory \in Nat /\ L!Levels = MaxDenyTtl
  BY LadderGiven
<1>3. \A n \in Nat : L!Less(n) \in Nat /\ L!Less(n) <= n
  BY LadderMax DEF L!Less
<1>4. /\ deny' \in [Flooder -> 0..MaxDenyTtl] /\ chal' \in [Flooder -> 0..ChallengeTtl] /\ flip' \in 0..FlipHold
      /\ \A s \in Flooder : chal'[s] > 0 => chal[s] > 0
  <2>1. /\ \A n \in 0..MaxDenyTtl : L!Less(n) \in 0..MaxDenyTtl
        /\ \A n \in 0..ChallengeTtl : L!Less(n) \in 0..ChallengeTtl /\ (L!Less(n) > 0 => n > 0)
        /\ \A n \in 0..FlipHold : L!Less(n) \in 0..FlipHold
    BY <1>2, <1>3
  <2> QED
    BY <1>1, <2>1 DEF L!Tick
<1>5. ASSUME NEW s \in Flooder
      PROVE  /\ repeats'[s].n = repeats[s].n
             /\ repeats'[s] \in [n : 0..L!Levels, last : 0..(RepeatMemory + 1)]
  <2>1. repeats'[s] = IF repeats[s].n = 0 THEN L!Unknown
                      ELSE [repeats[s] EXCEPT !.last = L!Min({repeats[s].last + 1, RepeatMemory + 1})]
    BY DEF L!Tick
  <2>2. repeats[s].last \in 0..(RepeatMemory + 1) /\ repeats[s] \in [n : 0..L!Levels, last : 0..(RepeatMemory + 1)]
    BY <1>1
  <2>3. L!Min({repeats[s].last + 1, RepeatMemory + 1}) \in 0..(RepeatMemory + 1)
    BY <1>2, <2>2, LadderMin
  <2> QED
    BY <1>2, <2>1, <2>2, <2>3 DEF L!Unknown
<1>6. repeats' \in [Flooder -> [n : 0..L!Levels, last : 0..(RepeatMemory + 1)]]
  <2>1. repeats' = [s \in Flooder |-> repeats'[s]]
    BY DEF L!Tick
  <2> QED
    BY <1>5, <2>1
<1>7. {s \in Flooder : repeats'[s].n > 0} = {s \in Flooder : repeats[s].n > 0}
  BY <1>5
<1> QED
  BY <1>1, <1>4, <1>5, <1>6, <1>7
     DEF L!Tick, L!IInv, L!FloodsClimb, L!TypeOK, L!ChanceHad, L!RungFirst, L!NeverExtended, L!FloodAnswered

\* A document that takes a zone away takes its verdicts.
LEMMA LadderSetService ==
  ASSUME L!LadderAssumption, L!IInv, NEW m \in L!Mode, L!SetService(m)
  PROVE  L!IInv'
<1>1. 0 \in 0..MaxDenyTtl /\ 0 \in 0..ChallengeTtl /\ 0 \in 0..FlipHold
  BY LadderGiven
<1>2. /\ deny' \in [Flooder -> 0..MaxDenyTtl] /\ chal' \in [Flooder -> 0..ChallengeTtl] /\ flip' \in 0..FlipHold
      /\ \A s \in Flooder : chal'[s] > 0 => chal[s] > 0
  BY <1>1 DEF L!SetService, L!IInv, L!FloodsClimb, L!TypeOK
<1> QED
  BY <1>2 DEF L!SetService, L!IInv, L!FloodsClimb, L!TypeOK, L!ChanceHad, L!RungFirst, L!NeverExtended, L!FloodAnswered

\* Every step keeps the invariant of the ladder.
LEMMA LadderStep ==
  ASSUME L!LadderAssumption, L!IInv, [L!Next]_L!vars
  PROVE  L!IInv'
<1>1. CASE L!SetRules
  BY <1>1 DEF L!SetRules, L!IInv, L!FloodsClimb, L!TypeOK, L!ChanceHad, L!RungFirst, L!NeverExtended, L!FloodAnswered
<1>2. CASE UNCHANGED L!vars
  BY <1>2 DEF L!vars, L!IInv, L!FloodsClimb, L!TypeOK, L!ChanceHad, L!RungFirst, L!NeverExtended, L!FloodAnswered
<1> QED
  BY <1>1, <1>2, LadderApply, LadderTick, LadderSetService DEF L!Next

---------------------------------------------------------------------------
(* Exporter.                                                               *)

\* What is assumed of the exporter, name by name; a nonempty log has a last half.
LEMMA ExporterGiven ==
  ASSUME X!ExporterAssumption
  PROVE  /\ Lines \in Nat /\ Rotations \in Nat /\ Window \in Nat \ {0} /\ BlockTtl \in Nat /\ BlockTtl >= 2 * Window
         /\ X!Inode = 1..(Rotations + 1) /\ NoFile \notin X!Inode
         /\ \A s \in Seq(X!Half) : s # <<>> => Len(s) \in DOMAIN s /\ X!Last(s) = s[Len(s)]
  BY DEF X!ExporterAssumption, X!Inode, X!Last

\* Nothing is written or read at the start, and no block is up.
LEMMA ExporterInit ==
  ASSUME X!ExporterAssumption, X!Init
  PROVE  X!IInv
<1>1. X!TypeOK
  BY ExporterGiven DEF X!Init, X!TypeOK
<1>2. X!NothingGlued /\ X!BlockHolds /\ X!Paired /\ X!Reading /\ X!Refreshed
  BY ExporterGiven DEF X!Init, X!NothingGlued, X!BlockHolds, X!Paired, X!Reading, X!Refreshed
<1>3. X!NothingMissed
  BY DEF X!Init, X!NothingMissed, X!Whole
<1> QED
  BY <1>1, <1>2, <1>3 DEF X!IInv, X!LogFollowed

\* A log that keeps what it had and grows keeps the tailer where it was.
LEMMA LogGrows ==
  ASSUME X!ExporterAssumption, X!IInv, content' \in [X!Inode -> Seq(X!Half)],
         \A i \in X!Inode : Len(content[i]) <= Len(content'[i]) /\ \A k \in DOMAIN content[i] : content'[i][k] = content[i][k],
         UNCHANGED <<fd, off, partial, got, glued, left, truncated>>
  PROVE  X!Reading' /\ X!NothingMissed' /\ X!NothingGlued'
<1>1. /\ content \in [X!Inode -> Seq(X!Half)] /\ fd \in X!Inode /\ off \in Nat /\ left \in [X!Inode -> Nat]
      /\ ~truncated => off <= Len(content[fd]) /\ \A i \in X!Inode : left[i] <= Len(content[i])
      /\ ~truncated => partial = IF off > 0 /\ content[fd][off].part = 1 THEN {content[fd][off].line} ELSE {}
      /\ ~truncated => glued = {}
  BY DEF X!IInv, X!LogFollowed, X!TypeOK, X!Reading, X!NothingGlued
<1>2. \A i \in X!Inode : Len(content[i]) \in Nat /\ Len(content'[i]) \in Nat /\ DOMAIN content[i] = 1..Len(content[i])
  BY <1>1
<1>3. X!Reading'
  <2> SUFFICES ASSUME ~truncated
               PROVE  /\ off <= Len(content'[fd]) /\ \A i \in X!Inode : left[i] <= Len(content'[i])
                      /\ partial = IF off > 0 /\ content'[fd][off].part = 1 THEN {content'[fd][off].line} ELSE {}
    BY DEF X!Reading
  <2>1. off > 0 => content'[fd][off] = content[fd][off]
    BY <1>1, <1>2
  <2> QED
    BY <1>1, <1>2, <2>1
<1>4. X!NothingMissed'
  <2> SUFFICES ASSUME ~truncated, NEW i \in X!Inode
               PROVE  X!Whole(i, IF i = fd THEN off ELSE left[i])' \subseteq got
    BY DEF X!NothingMissed
  <2> DEFINE n == IF i = fd THEN off ELSE left[i]
  <2>1. n \in Nat /\ n <= Len(content[i])
    BY <1>1
  <2>2. \A k \in 1..n : content'[i][k] = content[i][k]
    BY <1>2, <2>1
  <2>3. X!Whole(i, n)' = X!Whole(i, n)
    BY <2>2 DEF X!Whole
  <2> QED
    BY <2>3 DEF X!IInv, X!LogFollowed, X!NothingMissed
<1> QED
  BY <1>1, <1>3, <1>4 DEF X!NothingGlued

\* A line is written behind what its file has, and its second half behind its first.
LEMMA ExporterWrite ==
  ASSUME X!ExporterAssumption, X!IInv, X!Write
  PROVE  X!IInv'
<1> DEFINE U == {i \in X!Inode : content[i] # <<>> /\ X!Last(content[i]).part = 1}
           half == [line |-> written', part |-> IF X!Unfinished THEN 2 ELSE 1]
           to == IF X!Unfinished THEN CHOOSE i \in X!Inode : content[i] # <<>> /\ X!Last(content[i]).part = 1 ELSE nginx
<1>1. /\ IF X!Unfinished THEN written' = written ELSE written < Lines /\ written' = written + 1
      /\ content' = [content EXCEPT ![to] = Append(@, half)]
      /\ UNCHANGED <<path, nginx, rotations, fd, off, partial, fresh, got, glued, left, truncated,
                     mine, brain, again, closes, steady>>
  BY DEF X!Write, X!ghosts, X!postVars
<1>2. /\ content \in [X!Inode -> Seq(X!Half)] /\ written \in 0..Lines /\ nginx \in X!Inode
  BY DEF X!IInv, X!LogFollowed, X!TypeOK
<1>3. X!Unfinished => to \in X!Inode /\ content[to] # <<>> /\ X!Last(content[to]).part = 1
  BY DEF X!Unfinished
<1>4. to \in X!Inode
  BY <1>2, <1>3
<1>5. \A i \in X!Inode : /\ DOMAIN content[i] = 1..Len(content[i]) /\ Len(content[i]) \in Nat
                         /\ \A k \in 1..Len(content[i]) : content[i][k] \in X!Half
  BY <1>2
<1>6. half \in X!Half
  <2>1. X!Unfinished => written # 0
    BY DEF X!Unfinished
  <2> QED
    BY <1>1, <1>2, <2>1, ExporterGiven DEF X!Half
<1> HIDE DEF to, half
<1>7. /\ content' \in [X!Inode -> Seq(X!Half)]
      /\ \A i \in X!Inode \ {to} : content'[i] = content[i]
      /\ content'[to] = Append(content[to], half)
  BY <1>1, <1>2, <1>4, <1>6
<1>8. /\ Len(content'[to]) = Len(content[to]) + 1 /\ content'[to][Len(content[to]) + 1] = half
      /\ \A k \in 1..Len(content[to]) : content'[to][k] = content[to][k]
      /\ DOMAIN content'[to] = 1..(Len(content[to]) + 1)
  BY <1>2, <1>4, <1>6, <1>7
<1>9. X!Reading' /\ X!NothingMissed' /\ X!NothingGlued'
  <2>1. \A i \in X!Inode : Len(content[i]) <= Len(content'[i]) /\ \A k \in DOMAIN content[i] : content'[i][k] = content[i][k]
    BY <1>4, <1>5, <1>7, <1>8
  <2> QED
    BY <1>1, <1>7, <2>1, LogGrows
<1>10. \A i \in X!Inode : \A k \in DOMAIN content[i] :
         IF content[i][k].part = 2
         THEN k > 1 /\ content[i][k - 1] = [line |-> content[i][k].line, part |-> 1]
         ELSE k = Len(content[i]) => content[i][k].line = written
  BY DEF X!IInv, X!Paired
<1>11. ASSUME NEW i \in X!Inode, NEW k \in DOMAIN content'[i]
       PROVE  IF content'[i][k].part = 2
              THEN k > 1 /\ content'[i][k - 1] = [line |-> content'[i][k].line, part |-> 1]
              ELSE k = Len(content'[i]) => content'[i][k].line = written'
  <2>1. CASE i # to
    <3>1. content'[i] = content[i]
      BY <1>7, <2>1
    <3>2. ASSUME k = Len(content[i]), content[i][k].part # 2  PROVE written' = written
      <4>1. content[i] # <<>> /\ X!Last(content[i]) = content[i][k] /\ content[i][k] \in X!Half
        BY <1>2, <1>5, <1>11, <3>1, <3>2 DEF X!Last
      <4>2. content[i][k].part = 1 /\ content[i][k].line \in 1..Lines /\ content[i][k].line = written
        BY <1>5, <1>10, <1>11, <3>1, <3>2, <4>1 DEF X!Half
      <4>3. X!Unfinished
        BY <1>2, <4>1, <4>2, ExporterGiven DEF X!Unfinished
      <4> QED
        BY <1>1, <4>3
    <3> QED
      BY <1>10, <3>1, <3>2
  <2>2. CASE i = to /\ k = Len(content[to]) + 1
    <3>1. content'[i][k] = half /\ half.line = written'
      BY <1>8, <2>2 DEF half
    <3>2. CASE ~X!Unfinished
      BY <3>1, <3>2 DEF half
    <3>3. CASE X!Unfinished
      <4>1. Len(content[to]) \in 1..Len(content[to]) /\ X!Last(content[to]) = content[to][Len(content[to])]
        BY <1>2, <1>3, <1>4, <1>5, <3>3, ExporterGiven
      <4>2. content[to][Len(content[to])].part = 1 /\ content[to][Len(content[to])] \in X!Half
        BY <1>3, <1>4, <1>5, <3>3, <4>1
      <4>3. content[to][Len(content[to])].line = written
        <5> DEFINE n == Len(content[to])
        <5>1. n \in DOMAIN content[to] /\ content[to][n].part # 2
          BY <1>4, <1>5, <4>1, <4>2
        <5> HIDE DEF n
        <5>2. n = Len(content[to]) => content[to][n].line = written
          BY <1>4, <1>10, <5>1
        <5> QED
          BY <5>2 DEF n
      <4>4. content[to][Len(content[to])] = [line |-> written, part |-> 1]
        BY <4>2, <4>3 DEF X!Half
      <4>5. half = [line |-> written, part |-> 2]
        BY <1>1, <3>3 DEF half
      <4>6. content'[i][k - 1] = [line |-> written, part |-> 1] /\ k > 1
        BY <1>4, <1>5, <1>8, <2>2, <4>1, <4>4
      <4> QED
        BY <3>1, <4>5, <4>6
    <3> QED
      BY <3>2, <3>3
  <2>3. CASE i = to /\ k # Len(content[to]) + 1
    <3>1. k \in 1..Len(content[to]) /\ content'[i][k] = content[to][k] /\ k # Len(content'[to])
      BY <1>4, <1>5, <1>8, <1>11, <2>3
    <3>2. k > 1 => content'[i][k - 1] = content[to][k - 1]
      BY <1>4, <1>5, <1>8, <2>3, <3>1
    <3> QED
      BY <1>4, <1>5, <1>10, <2>3, <3>1, <3>2
  <2> QED
    BY <2>1, <2>2, <2>3
<1>12. X!Paired'
  BY <1>11 DEF X!Paired
<1>13. written' \in 0..Lines
  BY <1>1, <1>2, ExporterGiven
<1> QED
  BY <1>1, <1>7, <1>9, <1>12, <1>13
     DEF X!IInv, X!LogFollowed, X!TypeOK, X!BlockHolds, X!Refreshed

\* A rotation moves a name and no line.
LEMMA ExporterRotates ==
  ASSUME X!ExporterAssumption, X!IInv, X!Create \/ X!Reopen \/ X!Detect
  PROVE  X!IInv'
<1>1. UNCHANGED <<content, written, fd, off, partial, got, glued, left, truncated, mine, brain, again, closes, steady>>
  BY DEF X!Create, X!Reopen, X!Detect, X!ghosts, X!postVars
<1>2. /\ path \in 1..(rotations + 1) /\ rotations \in 0..Rotations /\ nginx \in X!Inode /\ fresh \in X!Inode \cup {NoFile}
      /\ X!Inode = 1..(Rotations + 1) /\ Rotations \in Nat
  BY ExporterGiven DEF X!IInv, X!LogFollowed, X!TypeOK
<1>3. /\ path' \in 1..(rotations' + 1) /\ rotations' \in 0..Rotations /\ nginx' \in X!Inode /\ fresh' \in X!Inode \cup {NoFile}
  <2>1. CASE X!Create
    BY <1>2, <2>1 DEF X!Create
  <2>2. CASE X!Reopen
    BY <1>2, <2>2 DEF X!Reopen
  <2>3. CASE X!Detect
    BY <1>2, <2>3 DEF X!Detect
  <2> QED
    BY <2>1, <2>2, <2>3
<1>4. X!TypeOK'
  BY <1>1, <1>3 DEF X!IInv, X!LogFollowed, X!TypeOK
<1>5. X!NothingMissed'
  BY <1>1 DEF X!IInv, X!LogFollowed, X!NothingMissed, X!Whole
<1> QED
  BY <1>1, <1>4, <1>5
     DEF X!IInv, X!LogFollowed, X!BlockHolds, X!Refreshed, X!NothingGlued, X!Paired, X!Reading

\* Once the log is truncated in place nothing is promised of its lines.
LEMMA ExporterTruncate ==
  ASSUME X!ExporterAssumption, X!IInv, X!Truncate
  PROVE  X!IInv'
<1>1. /\ content' = [content EXCEPT ![path] = <<>>] /\ truncated' = TRUE
      /\ rotations < Rotations /\ rotations' = rotations + 1
      /\ UNCHANGED <<path, nginx, written, fd, off, partial, fresh, got, glued, left, mine, brain, again, closes, steady>>
  BY DEF X!Truncate, X!postVars
<1>2. /\ content \in [X!Inode -> Seq(X!Half)] /\ path \in 1..(rotations + 1) /\ rotations \in 0..Rotations
      /\ X!Inode = 1..(Rotations + 1) /\ Rotations \in Nat
  BY ExporterGiven DEF X!IInv, X!LogFollowed, X!TypeOK
<1>3. /\ content' \in [X!Inode -> Seq(X!Half)] /\ path \in 1..(rotations' + 1) /\ rotations' \in 0..Rotations
      /\ \A i \in X!Inode : content'[i] = content[i] \/ content'[i] = <<>>
  BY <1>1, <1>2
<1>4. X!Paired'
  <2>1. \A i \in X!Inode : DOMAIN content'[i] # {} => content'[i] = content[i]
    BY <1>3
  <2> QED
    BY <1>1, <2>1 DEF X!IInv, X!Paired
<1> QED
  BY <1>1, <1>3, <1>4
     DEF X!IInv, X!LogFollowed, X!TypeOK, X!BlockHolds, X!Refreshed, X!NothingGlued, X!NothingMissed, X!Reading

\* Whatever a read finds behind it is whole lines, of which the first may have come in part
\* before: it gets each, and glues none.
LEMMA DrainedWhole ==
  ASSUME X!ExporterAssumption, X!IInv, X!Drained, ~truncated
  PROVE  /\ glued' = {} /\ got \subseteq got'
         /\ X!Whole(fd, Len(content[fd])) \subseteq got'
<1> DEFINE c == content[fd]
           r == X!Rest
<1>1. /\ c \in Seq(X!Half) /\ off \in 0..Len(c) /\ Len(c) \in Nat /\ glued = {} /\ fd \in X!Inode
      /\ partial = IF off > 0 /\ c[off].part = 1 THEN {c[off].line} ELSE {}
  BY DEF X!IInv, X!LogFollowed, X!TypeOK, X!Reading, X!NothingGlued
<1>2. \A k \in 1..Len(c) : c[k].part = 2 => k > 1 /\ c[k - 1] = [line |-> c[k].line, part |-> 1]
  BY <1>1 DEF X!IInv, X!Paired
<1>3. /\ DOMAIN r = 1..(Len(c) - off)
      /\ \A k \in 1..(Len(c) - off) : r[k] = c[off + k]
  <2>1. r = SubSeq(c, off + 1, Len(c))
    BY DEF X!Rest
  <2> HIDE DEF c, r
  <2> QED
    BY <1>1, <2>1
<1>4. ASSUME NEW k \in X!Arrived
      PROVE  X!FirstHalf(k) = {r[k].line}
  <2>1. k \in 1..(Len(c) - off) /\ r[k] = c[off + k] /\ c[off + k].part = 2
    BY <1>3 DEF X!Arrived
  <2>2. off + k \in 1..Len(c) /\ off + k > 1 /\ c[off + k - 1] = [line |-> c[off + k].line, part |-> 1]
    BY <1>1, <1>2, <2>1
  <2>3. CASE k > 1
    <3>1. k - 1 \in 1..(Len(c) - off) /\ off + (k - 1) = off + k - 1
      BY <1>1, <2>1, <2>3
    <3>2. r[k - 1] = c[off + k - 1]
      BY <1>3, <3>1
    <3>3. r[k - 1].line = r[k].line
      BY <2>1, <2>2, <3>2
    <3> QED
      BY <2>3, <3>3 DEF X!FirstHalf
  <2>4. CASE k = 1
    <3>1. off > 0 /\ off + k - 1 = off
      BY <1>1, <2>2, <2>4
    <3>2. partial = {r[k].line}
      BY <1>1, <2>1, <2>2, <3>1
    <3> QED
      BY <2>4, <3>2 DEF X!FirstHalf
  <2> QED
    BY <1>1, <2>1, <2>3, <2>4
<1>5. glued' = glued \cup {r[k].line : k \in {j \in X!Arrived : X!FirstHalf(j) \notin {{}, {r[j].line}}}}
  BY DEF X!Drained
<1>6. got' = got \cup {r[k].line : k \in {j \in X!Arrived : X!FirstHalf(j) = {r[j].line}}}
  BY DEF X!Drained
<1>7. glued' = {}
  <2>1. {j \in X!Arrived : X!FirstHalf(j) \notin {{}, {r[j].line}}} = {}
    BY <1>4
  <2> QED
    BY <1>1, <1>5, <2>1
<1>8. ASSUME NEW k \in 1..Len(c), c[k].part = 2  PROVE c[k].line \in got'
  <2>1. CASE k <= off
    <3>1. X!Whole(fd, off) \subseteq got
      BY <1>1 DEF X!IInv, X!LogFollowed, X!NothingMissed
    <3>2. k \in 1..off
      BY <1>1, <2>1
    <3>3. c[k].line \in X!Whole(fd, off)
      BY <1>8, <3>2 DEF X!Whole
    <3> QED
      BY <1>6, <3>1, <3>3
  <2>2. CASE k > off
    <3> DEFINE j == k - off
    <3>1. j \in 1..(Len(c) - off) /\ off + j = k
      BY <1>1, <2>2
    <3>2. r[j] = c[k] /\ j \in X!Arrived
      BY <1>3, <1>8, <3>1 DEF X!Arrived
    <3> HIDE DEF j
    <3> QED
      BY <1>4, <1>6, <3>2
  <2> QED
    BY <1>1, <2>1, <2>2
<1> QED
  BY <1>6, <1>7, <1>8 DEF X!Whole

\* A read takes in what is there of the file.
LEMMA ExporterDrain ==
  ASSUME X!ExporterAssumption, X!IInv, X!Drain
  PROVE  X!IInv'
<1> DEFINE c == content[fd]
<1>1. /\ X!Drained /\ X!Rest # <<>> /\ partial' = X!Fragment /\ off' = off + Len(X!Rest)
      /\ UNCHANGED <<content, path, nginx, written, rotations, fd, fresh, left, truncated, mine, brain, again, closes, steady>>
  BY DEF X!Drain, X!postVars
<1>2. /\ content \in [X!Inode -> Seq(X!Half)] /\ fd \in X!Inode /\ off \in Nat /\ left \in [X!Inode -> Nat]
      /\ got \subseteq 1..Lines
  BY DEF X!IInv, X!LogFollowed, X!TypeOK
<1>3. c \in Seq(X!Half) /\ Len(c) \in Nat /\ \A k \in 1..Len(c) : c[k] \in X!Half
  BY <1>2
<1>4. /\ Len(X!Rest) = IF off + 1 <= Len(c) THEN Len(c) - off ELSE 0
      /\ X!Rest \in Seq(X!Half)
      /\ \A k \in 1..(Len(c) - off) : X!Rest[k] = c[off + k]
  <2> HIDE DEF c
  <2>1. X!Rest = SubSeq(c, off + 1, Len(c))
    BY DEF X!Rest, c
  <2>2. \A k \in (off + 1)..Len(c) : c[k] \in X!Half
    BY <1>2, <1>3
  <2> QED
    BY <1>2, <1>3, <2>1, <2>2
<1>5. off' \in Nat
  BY <1>1, <1>2, <1>3, <1>4
<1>6. got' \subseteq 1..Lines
  <2>1. \A k \in X!Arrived : X!Rest[k] \in X!Half
    BY <1>4 DEF X!Arrived
  <2> QED
    BY <1>1, <1>2, <2>1 DEF X!Drained, X!Half
<1>7. X!TypeOK'
  BY <1>1, <1>5, <1>6 DEF X!IInv, X!LogFollowed, X!TypeOK
<1>8. ASSUME ~truncated
      PROVE  off' = Len(c) /\ off' > 0 /\ partial' = IF c[off'].part = 1 THEN {c[off'].line} ELSE {}
  <2>1. off <= Len(c)
    BY <1>8 DEF X!IInv, X!Reading
  <2>2. Len(X!Rest) > 0
    BY <1>1, <1>4
  <2>3. off + 1 <= Len(c) /\ Len(X!Rest) = Len(c) - off
    BY <1>2, <1>3, <1>4, <2>1, <2>2
  <2>4. X!Last(X!Rest) = c[Len(c)]
    BY <1>1, <1>2, <1>3, <1>4, <2>3, ExporterGiven
  <2>5. off' = Len(c) /\ off' > 0
    BY <1>1, <1>2, <1>3, <2>3
  <2> QED
    BY <1>1, <2>4, <2>5 DEF X!Fragment
<1>9. X!Reading'
  BY <1>1, <1>2, <1>3, <1>8 DEF X!Reading, X!IInv
<1>10. X!NothingGlued' /\ X!NothingMissed'
  <2> SUFFICES ASSUME ~truncated
               PROVE  /\ glued' = {}
                      /\ \A i \in X!Inode : X!Whole(i, IF i = fd THEN off ELSE left[i])' \subseteq got'
    BY <1>1 DEF X!NothingGlued, X!NothingMissed
  <2>1. glued' = {} /\ got \subseteq got' /\ X!Whole(fd, Len(c)) \subseteq got'
    BY <1>1, DrainedWhole
  <2>2. ASSUME NEW i \in X!Inode, i # fd
        PROVE  X!Whole(i, left[i])' \subseteq got'
    <3>1. X!Whole(i, left[i])' = X!Whole(i, left[i])
      BY <1>1 DEF X!Whole
    <3>2. X!Whole(i, left[i]) \subseteq got
      BY <2>2 DEF X!IInv, X!LogFollowed, X!NothingMissed
    <3> QED
      BY <2>1, <3>1, <3>2
  <2>3. X!Whole(fd, off)' \subseteq got'
    BY <1>1, <1>8, <2>1 DEF X!Whole
  <2> QED
    BY <1>1, <2>1, <2>2, <2>3
<1>11. X!Paired'
  BY <1>1 DEF X!IInv, X!Paired
<1> QED
  BY <1>1, <1>7, <1>9, <1>10, <1>11 DEF X!IInv, X!LogFollowed, X!BlockHolds, X!Refreshed

\* The old file is read to its end before the new one is opened.
LEMMA ExporterSwap ==
  ASSUME X!ExporterAssumption, X!IInv, X!Swap
  PROVE  X!IInv'
<1>1. /\ X!Drained /\ fresh # NoFile /\ fresh' = NoFile /\ left' = [left EXCEPT ![fd] = Len(content[fd])]
      /\ fd' = fresh /\ off' = 0 /\ partial' = {}
      /\ UNCHANGED <<content, path, nginx, written, rotations, truncated, mine, brain, again, closes, steady>>
  BY DEF X!Swap, X!FinalDrain, X!postVars
<1>2. /\ content \in [X!Inode -> Seq(X!Half)] /\ fd \in X!Inode /\ fresh \in X!Inode /\ left \in [X!Inode -> Nat]
      /\ got \subseteq 1..Lines /\ off \in Nat
  BY <1>1 DEF X!IInv, X!LogFollowed, X!TypeOK
<1>3. content[fd] \in Seq(X!Half) /\ Len(content[fd]) \in Nat /\ \A k \in 1..Len(content[fd]) : content[fd][k] \in X!Half
  BY <1>2
<1>4. got' \subseteq 1..Lines
  <2>1. X!Rest \in Seq(X!Half)
    <3> DEFINE c == content[fd]
    <3>1. \A k \in (off + 1)..Len(c) : c[k] \in X!Half
      BY <1>2, <1>3
    <3> HIDE DEF c
    <3>2. SubSeq(c, off + 1, Len(c)) \in Seq(X!Half)
      BY <1>2, <1>3, <3>1
    <3> QED
      BY <3>2 DEF X!Rest, c
  <2>2. \A k \in X!Arrived : X!Rest[k] \in X!Half
    BY <2>1 DEF X!Arrived
  <2> QED
    BY <1>1, <1>2, <2>2 DEF X!Drained, X!Half
<1>5. X!TypeOK'
  BY <1>1, <1>2, <1>3, <1>4 DEF X!IInv, X!LogFollowed, X!TypeOK
<1>6. X!Reading'
  <2> SUFFICES ASSUME ~truncated
               PROVE  \A i \in X!Inode : left'[i] <= Len(content[i]) /\ Len(content[fresh]) \in Nat
    BY <1>1 DEF X!Reading
  <2> QED
    BY <1>1, <1>2, <1>3 DEF X!IInv, X!Reading
<1>7. X!NothingGlued' /\ X!NothingMissed'
  <2> SUFFICES ASSUME ~truncated
               PROVE  /\ glued' = {}
                      /\ \A i \in X!Inode : X!Whole(i, IF i = fd THEN off ELSE left[i])' \subseteq got'
    BY <1>1 DEF X!NothingGlued, X!NothingMissed
  <2>1. glued' = {} /\ got \subseteq got' /\ X!Whole(fd, Len(content[fd])) \subseteq got'
    BY <1>1, DrainedWhole
  <2> SUFFICES ASSUME NEW i \in X!Inode
               PROVE  X!Whole(i, IF i = fd THEN off ELSE left[i])' \subseteq got'
    BY <2>1
  <2>2. CASE i = fresh
    <3>1. X!Whole(i, IF i = fd THEN off ELSE left[i])' = {}
      BY <1>1, <2>2 DEF X!Whole
    <3> QED
      BY <3>1
  <2>3. CASE i # fresh /\ i = fd
    <3>1. X!Whole(i, IF i = fd THEN off ELSE left[i])' = X!Whole(fd, Len(content[fd]))
      BY <1>1, <1>2, <2>3 DEF X!Whole
    <3> QED
      BY <2>1, <3>1
  <2>4. CASE i # fresh /\ i # fd
    <3>1. X!Whole(i, IF i = fd THEN off ELSE left[i])' = X!Whole(i, left[i])
      BY <1>1, <1>2, <2>4 DEF X!Whole
    <3>2. X!Whole(i, left[i]) \subseteq got
      BY <2>4 DEF X!IInv, X!LogFollowed, X!NothingMissed
    <3> QED
      BY <2>1, <3>1, <3>2
  <2> QED
    BY <2>2, <2>3, <2>4
<1>8. X!Paired'
  BY <1>1 DEF X!IInv, X!Paired
<1> QED
  BY <1>1, <1>5, <1>6, <1>7, <1>8 DEF X!IInv, X!LogFollowed, X!BlockHolds, X!Refreshed

\* Posts and time leave the log alone; a block is posted anew while more than a window of it
\* is left.
LEMMA ExporterPosts ==
  ASSUME X!ExporterAssumption, X!IInv, X!Tick \/ \E hot, taken \in BOOLEAN : X!CloseWindow(hot, taken)
  PROVE  X!IInv'
<1>1. UNCHANGED <<content, path, nginx, written, rotations, fd, off, partial, fresh, got, glued, left, truncated>>
  BY DEF X!Tick, X!CloseWindow, X!tailVars, X!ghosts
<1>2. /\ mine \in 0..BlockTtl /\ brain = mine /\ again \in 0..(2 * Window) /\ closes \in 0..Window
      /\ steady => brain > closes /\ again = 0
  BY DEF X!IInv, X!LogFollowed, X!TypeOK, X!Refreshed
<1>3. /\ mine' \in 0..BlockTtl /\ brain' = mine' /\ again' \in 0..(2 * Window) /\ closes' \in 0..Window
      /\ steady' => brain' > closes' /\ again' = 0
  <2>1. CASE X!Tick
    BY <1>2, <2>1, ExporterGiven DEF X!Tick, X!Less
  <2>2. ASSUME NEW hot \in BOOLEAN, NEW taken \in BOOLEAN, X!CloseWindow(hot, taken)
        PROVE  /\ mine' \in 0..BlockTtl /\ brain' = mine' /\ again' \in 0..(2 * Window) /\ closes' \in 0..Window
               /\ steady' => brain' > closes' /\ again' = 0
    <3>1. CASE hot /\ X!MayPost
      BY <1>2, <2>2, <3>1, ExporterGiven DEF X!CloseWindow
    <3>2. CASE ~(hot /\ X!MayPost)
      <4>1. mine' = mine /\ brain' = brain /\ again' = again /\ closes' = Window
            /\ (steady' => hot /\ (steady \/ X!MayPost))
        BY <2>2, <3>2 DEF X!CloseWindow
      <4>2. steady' => steady /\ again = 0 /\ 2 * mine > BlockTtl
        BY <1>2, <3>2, <4>1 DEF X!MayPost
      <4>3. Window \in Nat /\ BlockTtl \in Nat /\ BlockTtl >= 2 * Window
        BY ExporterGiven
      <4>4. Window \in 0..Window
        BY <4>3
      <4>5. steady' => brain > Window
        <5>1. mine \in Nat /\ 2 * mine > BlockTtl => mine > Window
          BY <1>2, <4>3
        <5> QED
          BY <1>2, <4>2, <5>1
      <4> QED
        BY <1>2, <4>1, <4>2, <4>4, <4>5
    <3> QED
      BY <3>1, <3>2
  <2> QED
    BY <2>1, <2>2
<1>4. X!TypeOK' /\ X!BlockHolds' /\ X!Refreshed'
  BY <1>1, <1>3 DEF X!IInv, X!LogFollowed, X!TypeOK, X!BlockHolds, X!Refreshed
<1>5. X!NothingMissed'
  BY <1>1 DEF X!IInv, X!LogFollowed, X!NothingMissed, X!Whole
<1> QED
  BY <1>1, <1>4, <1>5 DEF X!IInv, X!LogFollowed, X!NothingGlued, X!Paired, X!Reading

\* Every step keeps the invariant of the exporter.
LEMMA ExporterStep ==
  ASSUME X!ExporterAssumption, X!IInv, [X!Next]_X!vars
  PROVE  X!IInv'
<1>1. CASE UNCHANGED X!vars
  <2>1. X!NothingMissed'
    BY <1>1 DEF X!vars, X!tailVars, X!ghosts, X!IInv, X!LogFollowed, X!NothingMissed, X!Whole
  <2> QED
    BY <1>1, <2>1 DEF X!vars, X!tailVars, X!ghosts, X!postVars, X!IInv, X!LogFollowed, X!TypeOK, X!NothingGlued,
                      X!BlockHolds, X!Refreshed, X!Paired, X!Reading
<1> QED
  BY <1>1, ExporterWrite, ExporterRotates, ExporterTruncate, ExporterDrain, ExporterSwap, ExporterPosts DEF X!Next

---------------------------------------------------------------------------
(* Rollup: counts.                                                         *)

\* The sums, sizes and maxima of the log's part are the library's.
LEMMA LogCountedHere ==
  /\ \A S : W!IsFiniteSet(S) <=> IsFiniteSet(S)
  /\ \A S : W!Cardinality(S) = Cardinality(S)
  /\ \A f, S : W!SumFunctionOnSet(f, S) = SumFunctionOnSet(f, S)
  /\ \A a \in Nat : W!Max({a, 0}) = a
<1>1. \A S : W!IsFiniteSet(S) <=> IsFiniteSet(S)
  BY DEF W!IsFiniteSet, IsFiniteSet
<1>2. \A S : W!Cardinality(S) = Cardinality(S)
  BY DEF W!Cardinality, Cardinality
<1>3. \A f, S : W!SumFunctionOnSet(f, S) = SumFunctionOnSet(f, S)
  BY DEF W!SumFunctionOnSet, W!FoldFunctionOnSet, W!MapThenFoldSet, SumFunctionOnSet, FoldFunctionOnSet, MapThenFoldSet
<1>4. ASSUME NEW a \in Nat  PROVE W!Max({a, 0}) = a
  <2>1. a \in {a, 0} /\ \A y \in {a, 0} : a >= y
    OBVIOUS
  <2>2. \A x \in {a, 0} : (\A y \in {a, 0} : x >= y) => x = a
    OBVIOUS
  <2> QED
    BY <2>1, <2>2 DEF W!Max
<1> QED
  BY <1>1, <1>2, <1>3, <1>4

\* What is assumed of the log, name by name.
LEMMA LogGiven ==
  ASSUME W!RollupAssumption
  PROVE  /\ MaxPairs \in Nat \ {0} /\ TopSources \in Nat \ {0} /\ Length \in Nat \ {0} /\ Records \in Nat
         /\ LogSource \subseteq Nat
         /\ IsFiniteSet(LogZone) /\ IsFiniteSet(LogSource) /\ IsFiniteSet(LogKind)
  BY LogCountedHere DEF W!RollupAssumption

\* A number of records of some kinds is 0 when there are none.
LEMMA OfCounts ==
  ASSUME W!RollupAssumption, NEW c \in W!Counts, NEW kinds
  PROVE  /\ W!Of(c, kinds) \in Nat
         /\ W!Of(c, kinds) = 0 <=> \A k \in kinds \cap LogKind : c[k] = 0
<1> DEFINE S == kinds \cap LogKind
<1>1. IsFiniteSet(S) /\ \A k \in S : c[k] \in Nat
  BY LogGiven, FS_Subset DEF W!Counts
<1>2. W!Of(c, kinds) = SumFunctionOnSet(c, S)
  BY LogCountedHere DEF W!Of
<1> HIDE DEF S
<1>3. SumFunctionOnSet(c, S) \in Int
  BY <1>1, SumInt
<1>4. SumFunctionOnSet(c, S) >= 0
  <2>1. \A k \in S : c[k] \in Int /\ c[k] >= 0
    BY <1>1
  <2> QED
    BY <1>1, <2>1, SumInt
<1>5. SumFunctionOnSet(c, S) = 0 <=> \A k \in S : c[k] = 0
  BY <1>1, SumZero
<1> QED
  BY <1>2, <1>3, <1>4, <1>5 DEF S

\* A source none of whose records are counted has none of any kind.
LEMMA TotalCounts ==
  ASSUME W!RollupAssumption, NEW c \in W!Counts
  PROVE  /\ W!Total(c) \in Nat
         /\ W!Total(c) = 0 <=> c = W!Nothing
<1>1. LogKind \cap LogKind = LogKind
  OBVIOUS
<1>2. W!Total(c) \in Nat /\ (W!Total(c) = 0 <=> \A k \in LogKind : c[k] = 0)
  BY <1>1, OfCounts DEF W!Total
<1>3. (\A k \in LogKind : c[k] = 0) <=> c = W!Nothing
  BY DEF W!Counts, W!Nothing
<1> QED
  BY <1>2, <1>3

\* One record more is one more of the kinds that have it.
LEMMA OfPlus ==
  ASSUME W!RollupAssumption, NEW c \in W!Counts, NEW k \in LogKind, NEW kinds
  PROVE  /\ W!Plus(c, k) \in W!Counts
         /\ W!Of(W!Plus(c, k), kinds) = W!Of(c, kinds) + (IF k \in kinds THEN 1 ELSE 0)
<1> DEFINE S == kinds \cap LogKind
           d == W!Plus(c, k)
<1>1. /\ d \in W!Counts /\ d[k] = c[k] + 1 /\ c[k] \in Nat
      /\ \A j \in LogKind \ {k} : d[j] = c[j]
  BY DEF W!Plus, W!Counts
<1>2. IsFiniteSet(S) /\ \A j \in S : c[j] \in Int /\ d[j] \in Int
  <2>1. \A j \in LogKind : c[j] \in Nat /\ d[j] \in Nat
    BY <1>1 DEF W!Counts
  <2> QED
    BY <2>1, LogGiven, FS_Subset
<1>3. W!Of(c, kinds) = SumFunctionOnSet(c, S) /\ W!Of(d, kinds) = SumFunctionOnSet(d, S)
  BY LogCountedHere DEF W!Of
<1>4. S \in SUBSET LogKind /\ (k \in kinds <=> k \in S)
  OBVIOUS
<1> HIDE DEF d, S
<1>5. SumFunctionOnSet(c, S) \in Int
  BY <1>2, SumInt
<1>6. CASE k \in S
  <2>1. \A j \in S \ {k} : c[j] = d[j]
    BY <1>1, <1>4
  <2>2. SumFunctionOnSet(d, S) = SumFunctionOnSet(c, S) + (d[k] - c[k])
    BY <1>2, <1>6, <2>1, SumChanged
  <2> QED
    BY <1>1, <1>3, <1>4, <1>5, <1>6, <2>2 DEF d
<1>7. CASE k \notin S
  <2>1. \A j \in S : c[j] \in Int /\ c[j] = d[j]
    BY <1>1, <1>2, <1>4, <1>7
  <2>2. SumFunctionOnSet(c, S) = SumFunctionOnSet(d, S)
    BY <1>2, <2>1, SumSame
  <2> QED
    BY <1>1, <1>3, <1>4, <1>5, <1>7, <2>2 DEF d
<1> QED
  BY <1>6, <1>7

\* A source is previewed when what was done to it says so and nothing else was done.
LEMMA StateSays ==
  ASSUME W!RollupAssumption, NEW c \in W!Counts
  PROVE  /\ W!State(c) \in W!Previews <=> W!WouldBe(c)
         /\ W!WouldBe(c) => W!Total(c) > 0
<1>1. \A kinds : W!Of(c, kinds) \in Nat /\ (W!Of(c, kinds) = 0 <=> \A k \in kinds \cap LogKind : c[k] = 0)
  BY OfCounts
<1>2. W!Acted(c) <=> W!Of(c, {"table"}) > 0 \/ W!Of(c, {"challenged"}) > 0
  BY <1>1 DEF W!Acted
<1>3. W!Of(c, W!Previews) > 0 <=> W!Of(c, {"would deny"}) > 0 \/ W!Of(c, {"would challenge"}) > 0
  <2> DEFINE toDeny == "would deny" \in LogKind /\ c["would deny"] # 0
             toAsk == "would challenge" \in LogKind /\ c["would challenge"] # 0
  <2>1. W!Of(c, {"would deny"}) = 0 <=> ~toDeny
    BY <1>1
  <2>2. W!Of(c, {"would challenge"}) = 0 <=> ~toAsk
    BY <1>1
  <2>3. W!Of(c, W!Previews) = 0 <=> (~toDeny /\ ~toAsk)
    <3>1. \A k : k \in W!Previews \cap LogKind <=> (k \in LogKind /\ (k = "would deny" \/ k = "would challenge"))
      BY DEF W!Previews
    <3>2. W!Of(c, W!Previews) = 0 <=> \A k \in W!Previews \cap LogKind : c[k] = 0
      BY <1>1
    <3> QED
      BY <3>1, <3>2
  <2>4. \A kinds : W!Of(c, kinds) > 0 <=> W!Of(c, kinds) # 0
    <3> SUFFICES ASSUME NEW kinds
                 PROVE  W!Of(c, kinds) > 0 <=> W!Of(c, kinds) # 0
      OBVIOUS
    <3>1. W!Of(c, kinds) \in Nat
      BY <1>1
    <3> QED
      BY <3>1
  <2> HIDE DEF toDeny, toAsk
  <2>5. W!Of(c, W!Previews) # 0 <=> W!Of(c, {"would deny"}) # 0 \/ W!Of(c, {"would challenge"}) # 0
    BY <2>1, <2>2, <2>3
  <2> QED
    BY <2>4, <2>5
<1>4. W!Of(c, W!Previews) > 0 => W!Total(c) > 0
  BY <1>1 DEF W!Total
<1> QED
  BY <1>2, <1>3, <1>4 DEF W!State, W!WouldBe, W!Previews

---------------------------------------------------------------------------
(* Rollup: a window.                                                       *)

\* A window and what it is to say: IInv's parts, for one.
Sound(w, t) ==
  /\ w \in [all : W!Counts, of : [LogSource -> W!Counts], overflow : BOOLEAN]
  /\ t \in [LogSource -> W!Counts]
  /\ Cardinality(W!Named(w)) <= MaxPairs
  /\ \A s \in LogSource : w.of[s] # t[s] => w.of[s] = W!Nothing /\ w.overflow
  /\ w.overflow => /\ Cardinality(W!Named(w)) >= MaxPairs
                   /\ Cardinality({s \in LogSource : W!Total(t[s]) > 0}) > MaxPairs
  /\ \A kinds \in SUBSET LogKind :
       W!Of(w.all, kinds) = SumFunctionOnSet([s \in LogSource |-> W!Of(t[s], kinds)], LogSource)

\* A window nothing is in yet is sound.
LEMMA EmptySound ==
  ASSUME W!RollupAssumption
  PROVE  Sound(W!Empty, W!Empty.of) /\ W!Total(W!Empty.all) = 0
<1>1. W!Nothing \in W!Counts /\ W!Total(W!Nothing) = 0
  BY TotalCounts DEF W!Nothing, W!Counts
<1>2. W!Empty.all = W!Nothing /\ W!Empty.of = [s \in LogSource |-> W!Nothing] /\ W!Empty.overflow = FALSE
      /\ W!Empty \in [all : W!Counts, of : [LogSource -> W!Counts], overflow : BOOLEAN]
  BY <1>1 DEF W!Empty
<1>3. W!Named(W!Empty) = {}
  BY <1>1, <1>2 DEF W!Named
<1>4. ASSUME NEW kinds \in SUBSET LogKind
      PROVE  W!Of(W!Nothing, kinds) = SumFunctionOnSet([s \in LogSource |-> W!Of(W!Empty.of[s], kinds)], LogSource)
  <2> DEFINE F == [s \in LogSource |-> W!Of(W!Empty.of[s], kinds)]
  <2>1. W!Of(W!Nothing, kinds) = 0
    BY <1>1, OfCounts DEF W!Nothing
  <2>2. \A s \in LogSource : F[s] = 0 /\ F[s] \in Nat
    BY <1>2, <2>1
  <2> HIDE DEF F
  <2>3. SumFunctionOnSet(F, LogSource) = 0
    BY <2>2, LogGiven, SumZero
  <2> QED
    BY <2>1, <2>3 DEF F
<1>5. Cardinality({}) = 0 /\ MaxPairs >= 0
  BY FS_EmptySet, LogGiven
<1> QED
  BY <1>1, <1>2, <1>3, <1>4, <1>5 DEF Sound

\* The sources of a window are finitely many.
LEMMA NamedFinite ==
  ASSUME W!RollupAssumption, NEW w, NEW P \in SUBSET LogSource
  PROVE  /\ W!Named(w) \in SUBSET LogSource /\ IsFiniteSet(W!Named(w)) /\ Cardinality(W!Named(w)) \in Nat
         /\ IsFiniteSet(P) /\ Cardinality(P) \in Nat
<1>1. W!Named(w) \in SUBSET LogSource
  BY DEF W!Named
<1> QED
  BY <1>1, LogGiven, FS_Subset, FS_CardinalityType

\* A record keeps a window sound: a source within the cap is counted from its first record,
\* and one past it is counted in its zone.
LEMMA CountedSound ==
  ASSUME W!RollupAssumption, NEW w, NEW t, Sound(w, t), NEW s \in LogSource, NEW k \in LogKind
  PROVE  /\ Sound(W!Counted(w, s, k), [t EXCEPT ![s] = W!Plus(@, k)])
         /\ W!Total(W!Counted(w, s, k).all) = W!Total(w.all) + 1
<1> DEFINE v == W!Counted(w, s, k)
           u == [t EXCEPT ![s] = W!Plus(@, k)]
           N == W!Named(w)
           T == {x \in LogSource : W!Total(t[x]) > 0}
           U == {x \in LogSource : W!Total(u[x]) > 0}
<1>1. /\ w \in [all : W!Counts, of : [LogSource -> W!Counts], overflow : BOOLEAN]
      /\ t \in [LogSource -> W!Counts] /\ w.all \in W!Counts /\ w.of \in [LogSource -> W!Counts]
      /\ Cardinality(N) <= MaxPairs
      /\ \A x \in LogSource : w.of[x] # t[x] => w.of[x] = W!Nothing /\ w.overflow
      /\ w.overflow => Cardinality(N) >= MaxPairs /\ Cardinality(T) > MaxPairs
      /\ \A kinds \in SUBSET LogKind :
           W!Of(w.all, kinds) = SumFunctionOnSet([x \in LogSource |-> W!Of(t[x], kinds)], LogSource)
  BY DEF Sound
<1>2. \A c \in W!Counts : /\ W!Plus(c, k) \in W!Counts /\ W!Total(W!Plus(c, k)) = W!Total(c) + 1
                          /\ W!Total(c) \in Nat /\ (W!Total(c) = 0 <=> c = W!Nothing)
  BY OfPlus, TotalCounts DEF W!Total
<1>3. /\ v.all = W!Plus(w.all, k) /\ v.overflow = (w.overflow \/ W!Refused(w, s))
      /\ v.of = IF W!Refused(w, s) THEN w.of ELSE [w.of EXCEPT ![s] = W!Plus(@, k)]
      /\ v \in [all : W!Counts, of : [LogSource -> W!Counts], overflow : BOOLEAN]
  <2>1. v = [ all |-> W!Plus(w.all, k), overflow |-> w.overflow \/ W!Refused(w, s),
              of |-> IF W!Refused(w, s) THEN w.of ELSE [w.of EXCEPT ![s] = W!Plus(@, k)] ]
    BY DEF W!Counted
  <2>2. [w.of EXCEPT ![s] = W!Plus(@, k)] \in [LogSource -> W!Counts]
    BY <1>1, <1>2
  <2>3. w.overflow \in BOOLEAN
    BY <1>1
  <2> HIDE DEF v
  <2> QED
    BY <1>1, <1>2, <2>1, <2>2, <2>3
<1>4. u \in [LogSource -> W!Counts] /\ u[s] = W!Plus(t[s], k) /\ \A x \in LogSource \ {s} : u[x] = t[x]
  BY <1>1, <1>2
<1>5. W!Refused(w, s) <=> s \notin N /\ Cardinality(N) >= MaxPairs
  BY LogCountedHere DEF W!Refused
<1>6. \A x \in LogSource : /\ x \in N <=> w.of[x] # W!Nothing
                           /\ x \in W!Named(v) <=> v.of[x] # W!Nothing
                           /\ x \in T <=> t[x] # W!Nothing
                           /\ x \in U <=> u[x] # W!Nothing
  <2>1. v.of \in [LogSource -> W!Counts]
    BY <1>3
  <2>2. \A c \in W!Counts : W!Total(c) > 0 <=> c # W!Nothing
    BY <1>2
  <2> HIDE DEF v, u
  <2> QED
    BY <1>1, <1>4, <2>1, <2>2 DEF W!Named
<1> HIDE DEF v, u
<1>7. W!Plus(w.of[s], k) # W!Nothing /\ W!Plus(t[s], k) # W!Nothing
  <2>1. w.of[s] \in W!Counts /\ t[s] \in W!Counts
    BY <1>1
  <2>2. \A c \in W!Counts : W!Plus(c, k) # W!Nothing
    BY <1>2
  <2> QED
    BY <2>1, <2>2
<1>8. U = T \cup {s}
  BY <1>4, <1>6, <1>7
<1>9. W!Named(v) = IF W!Refused(w, s) THEN N ELSE N \cup {s}
  <2>1. W!Named(v) \in SUBSET LogSource /\ N \in SUBSET LogSource
    BY DEF W!Named
  <2> QED
    BY <1>1, <1>3, <1>6, <1>7, <2>1
<1>10. /\ IsFiniteSet(N) /\ Cardinality(N) \in Nat /\ IsFiniteSet(T) /\ Cardinality(T) \in Nat
       /\ IsFiniteSet(U) /\ Cardinality(U) \in Nat /\ IsFiniteSet(N \cup {s}) /\ MaxPairs \in Nat
       /\ Cardinality(N \cup {s}) = (IF s \in N THEN Cardinality(N) ELSE Cardinality(N) + 1)
       /\ Cardinality(U) = (IF s \in T THEN Cardinality(T) ELSE Cardinality(T) + 1)
  <2>1. IsFiniteSet(N) /\ Cardinality(N) \in Nat /\ IsFiniteSet(T) /\ Cardinality(T) \in Nat
        /\ IsFiniteSet(U) /\ Cardinality(U) \in Nat
    BY NamedFinite
  <2> HIDE DEF N, T, U
  <2> QED
    BY <1>8, <2>1, FS_AddElement, LogGiven
<1>11. Cardinality(W!Named(v)) <= MaxPairs
  BY <1>1, <1>5, <1>9, <1>10
<1>12. ~W!Refused(w, s) => w.of[s] = t[s]
  <2>1. s \in N => w.of[s] = t[s]
    BY <1>1, <1>6
  <2>2. Cardinality(N) < MaxPairs => w.of[s] = t[s]
    BY <1>1, <1>10
  <2> QED
    BY <1>5, <1>10, <2>1, <2>2
<1>13. \A x \in LogSource : v.of[x] # u[x] => v.of[x] = W!Nothing /\ v.overflow
  <2> SUFFICES ASSUME NEW x \in LogSource, v.of[x] # u[x]
               PROVE  v.of[x] = W!Nothing /\ v.overflow
    OBVIOUS
  <2>1. CASE x # s
    BY <1>1, <1>3, <1>4, <2>1
  <2>2. CASE x = s /\ W!Refused(w, s)
    BY <1>3, <1>5, <1>6, <2>2
  <2>3. CASE x = s /\ ~W!Refused(w, s)
    BY <1>1, <1>3, <1>4, <1>12, <2>3
  <2> QED
    BY <2>1, <2>2, <2>3
<1>14. v.overflow => Cardinality(W!Named(v)) >= MaxPairs
  BY <1>1, <1>3, <1>5, <1>9, <1>10
<1>15. v.overflow => Cardinality(U) > MaxPairs
  <2>1. CASE w.overflow
    BY <1>1, <1>10, <2>1
  <2>2. CASE ~w.overflow /\ W!Refused(w, s)
    <3>1. T = N
      <4>1. \A x \in LogSource : w.of[x] = t[x]
        BY <1>1, <2>2
      <4>2. N \in SUBSET LogSource
        BY DEF W!Named
      <4> QED
        BY <1>6, <4>1, <4>2
    <3>2. s \notin T /\ Cardinality(T) >= MaxPairs
      BY <1>5, <2>2, <3>1
    <3> QED
      BY <1>10, <3>2
  <2> QED
    BY <1>3, <2>1, <2>2
<1>16. ASSUME NEW kinds \in SUBSET LogKind
       PROVE  W!Of(v.all, kinds) = SumFunctionOnSet([x \in LogSource |-> W!Of(u[x], kinds)], LogSource)
  <2> DEFINE F == [x \in LogSource |-> W!Of(t[x], kinds)]
             G == [x \in LogSource |-> W!Of(u[x], kinds)]
             d == IF k \in kinds THEN 1 ELSE 0
  <2>1. W!Of(v.all, kinds) = W!Of(w.all, kinds) + d
    BY <1>1, <1>3, OfPlus
  <2>2. \A x \in LogSource : F[x] \in Nat /\ G[x] \in Nat
    BY <1>1, <1>4, OfCounts
  <2>3. \A x \in LogSource \ {s} : F[x] = G[x]
    BY <1>4
  <2>4. G[s] = F[s] + d
    <3>1. t[s] \in W!Counts
      BY <1>1
    <3> QED
      BY <1>4, <3>1, OfPlus
  <2>5. W!Of(w.all, kinds) = SumFunctionOnSet(F, LogSource)
    BY <1>1
  <2> HIDE DEF F, G
  <2>6. SumFunctionOnSet(G, LogSource) = SumFunctionOnSet(F, LogSource) + (G[s] - F[s])
    <3>1. IsFiniteSet(LogSource) /\ \A x \in LogSource : F[x] \in Int /\ G[x] \in Int
      BY <2>2, LogGiven
    <3> QED
      BY <2>3, <3>1, SumChanged
  <2>7. SumFunctionOnSet(F, LogSource) \in Int
    <3>1. IsFiniteSet(LogSource) /\ \A x \in LogSource : F[x] \in Int
      BY <2>2, LogGiven
    <3> QED
      BY <3>1, SumInt
  <2>8. F[s] \in Nat /\ G[s] \in Nat /\ d \in Nat
    BY <2>2
  <2>9. W!Of(v.all, kinds) = SumFunctionOnSet(G, LogSource)
    BY <2>1, <2>4, <2>5, <2>6, <2>7, <2>8
  <2> QED
    BY <2>9 DEF G
<1>17. W!Total(v.all) = W!Total(w.all) + 1
  BY <1>1, <1>2, <1>3
<1>18. Sound(v, u)
  BY <1>3, <1>4, <1>11, <1>13, <1>14, <1>15, <1>16 DEF Sound
<1> QED
  BY <1>17, <1>18 DEF v, u

---------------------------------------------------------------------------
(* Rollup: the report of a window.                                         *)

\* What is said of a closed window is true.
TrueReport(st) == st \in W!ClosedWindow /\ W!Measured(st) /\ W!Previewed(st)

\* Of what the node answered, what it did not refuse is what it let through.
LEMMA AdmittedIs ==
  ASSUME W!RollupAssumption, NEW w, w.all \in W!Counts
  PROVE  W!Admitted(w) = W!Of(w.all, W!LetThrough) /\ W!Admitted(w) \in Nat
<1> DEFINE refused == W!Refusals \cup {"would deny"}
           KX == W!LetThrough \cap LogKind
           KY == refused \cap LogKind
<1>1. W!Answered \cap LogKind = KX \cup KY /\ KX \cap KY = {}
  BY DEF W!Answered, W!Refusals, W!Previews, W!LetThrough
<1>2. IsFiniteSet(KX) /\ IsFiniteSet(KY) /\ \A k \in KX \cup KY : w.all[k] \in Int
  <2>1. KX \in SUBSET LogKind /\ KY \in SUBSET LogKind
    OBVIOUS
  <2>2. \A k \in LogKind : w.all[k] \in Int
    BY DEF W!Counts
  <2> HIDE DEF KX, KY
  <2> QED
    BY <2>1, <2>2, LogGiven, FS_Subset
<1>3. /\ W!Of(w.all, W!Answered) = SumFunctionOnSet(w.all, KX \cup KY)
      /\ W!Of(w.all, W!LetThrough) = SumFunctionOnSet(w.all, KX)
      /\ W!Of(w.all, refused) = SumFunctionOnSet(w.all, KY)
  BY <1>1, LogCountedHere DEF W!Of
<1>4. W!Of(w.all, W!LetThrough) \in Nat /\ W!Of(w.all, refused) \in Nat
  BY OfCounts
<1> HIDE DEF KX, KY
<1>5. SumFunctionOnSet(w.all, KX \cup KY) = SumFunctionOnSet(w.all, KX) + SumFunctionOnSet(w.all, KY)
  BY <1>1, <1>2, SumUnion
<1> HIDE DEF refused
<1>6. W!Of(w.all, W!Answered) - W!Of(w.all, refused) = W!Of(w.all, W!LetThrough)
  <2>1. W!Of(w.all, W!Answered) = W!Of(w.all, W!LetThrough) + W!Of(w.all, refused)
    BY <1>3, <1>5
  <2>2. \A a, x, y : x \in Nat /\ y \in Nat /\ a = x + y => a - y = x
    OBVIOUS
  <2> QED
    BY <1>4, <2>1, <2>2
<1>7. W!Admitted(w) = W!Max({W!Of(w.all, W!Answered) - W!Of(w.all, refused), 0})
  BY DEF W!Admitted, refused
<1> QED
  BY <1>4, <1>6, <1>7, LogCountedHere

\* The ranking is a strict order, in which every two sources are before one another.
LEMMA RanksOrdered ==
  ASSUME W!RollupAssumption, NEW w, w.of \in [LogSource -> W!Counts]
  PROVE  /\ \A x \in LogSource : ~W!Before(w, x, x)
         /\ \A x, y, z \in LogSource : W!Before(w, x, y) /\ W!Before(w, y, z) => W!Before(w, x, z)
         /\ \A x, y \in LogSource : x # y => W!Before(w, x, y) \/ W!Before(w, y, x)
         /\ \A x, y \in LogSource : W!Before(w, x, y) /\ W!WouldBe(w.of[y]) => W!WouldBe(w.of[x])
<1> DEFINE r == [s \in LogSource |-> W!Rank(w.of[s])]
           n == [s \in LogSource |-> W!Total(w.of[s])]
<1>1. \A s \in LogSource : s \in Nat /\ r[s] \in 0..2 /\ n[s] \in Nat /\ (r[s] = 0 <=> W!WouldBe(w.of[s]))
  <2>1. \A s \in LogSource : w.of[s] \in W!Counts
    OBVIOUS
  <2> QED
    BY <2>1, TotalCounts, LogGiven DEF W!Rank
<1>2. \A x, y \in LogSource :
        W!Before(w, x, y) <=> \/ r[x] < r[y]
                              \/ r[x] = r[y] /\ n[x] > n[y]
                              \/ r[x] = r[y] /\ n[x] = n[y] /\ x < y
  BY DEF W!Before
<1> HIDE DEF r, n
<1>3. \A x \in LogSource : ~W!Before(w, x, x)
  BY <1>1, <1>2
<1>4. ASSUME NEW x \in LogSource, NEW y \in LogSource, NEW z \in LogSource,
             W!Before(w, x, y), W!Before(w, y, z)
      PROVE  W!Before(w, x, z)
  <2>1. x \in Nat /\ y \in Nat /\ z \in Nat /\ r[x] \in Nat /\ r[y] \in Nat /\ r[z] \in Nat
        /\ n[x] \in Nat /\ n[y] \in Nat /\ n[z] \in Nat
    BY <1>1
  <2>2. (r[x] < r[y]) \/ (r[x] = r[y] /\ n[x] > n[y]) \/ (r[x] = r[y] /\ n[x] = n[y] /\ x < y)
    BY <1>2, <1>4
  <2>3. (r[y] < r[z]) \/ (r[y] = r[z] /\ n[y] > n[z]) \/ (r[y] = r[z] /\ n[y] = n[z] /\ y < z)
    BY <1>2, <1>4
  <2>4. (r[x] < r[z]) \/ (r[x] = r[z] /\ n[x] > n[z]) \/ (r[x] = r[z] /\ n[x] = n[z] /\ x < z)
    BY <2>1, <2>2, <2>3
  <2> QED
    BY <1>2, <2>4
<1>5. ASSUME NEW x \in LogSource, NEW y \in LogSource, x # y
      PROVE  W!Before(w, x, y) \/ W!Before(w, y, x)
  <2>1. x \in Nat /\ y \in Nat /\ r[x] \in Nat /\ r[y] \in Nat /\ n[x] \in Nat /\ n[y] \in Nat
    BY <1>1
  <2> QED
    BY <1>2, <1>5, <2>1
<1>6. ASSUME NEW x \in LogSource, NEW y \in LogSource, W!Before(w, x, y), W!WouldBe(w.of[y])
      PROVE  W!WouldBe(w.of[x])
  <2>1. r[x] \in 0..2 /\ r[y] = 0 /\ n[x] \in Nat
    BY <1>1, <1>6
  <2>2. r[x] < r[y] \/ r[x] = r[y]
    BY <1>2, <1>6
  <2>3. r[x] = 0
    BY <2>1, <2>2
  <2> QED
    BY <1>1, <2>3
<1> QED
  BY <1>3, <1>4, <1>5, <1>6

\* When a source that would be refused is cut, as many as there is room for are listed, and
\* all of them would be refused.
LEMMA TopPreviews ==
  ASSUME W!RollupAssumption, NEW w, w.of \in [LogSource -> W!Counts],
         NEW s \in W!Named(w) \ W!Top(w), W!WouldBe(w.of[s])
  PROVE  /\ Cardinality(W!Top(w)) = TopSources
         /\ \A t \in W!Top(w) : W!WouldBe(w.of[t])
<1> DEFINE N == W!Named(w)
           R == {p \in N \X N : W!Before(w, p[1], p[2])}
           P(x) == {y \in N : <<y, x>> \in R}
<1>1. N \in SUBSET LogSource /\ IsFiniteSet(N) /\ Cardinality(N) \in Nat /\ TopSources \in Nat
  <2>1. N \in SUBSET LogSource
    BY DEF W!Named
  <2> QED
    BY <2>1, NamedFinite, LogGiven
<1>2. \A x, y \in N : <<x, y>> \in R <=> W!Before(w, x, y)
  OBVIOUS
<1>3. \A x \in N : P(x) = {y \in N : W!Before(w, y, x)}
  OBVIOUS
<1>4. W!Top(w) = {x \in N : Cardinality(P(x)) < TopSources}
  BY <1>3, LogCountedHere DEF W!Top
<1> HIDE DEF N, R
<1>5. \A x \in N : IsFiniteSet(P(x)) /\ Cardinality(P(x)) \in Nat /\ Cardinality(P(x)) <= Cardinality(N)
  <2> SUFFICES ASSUME NEW x \in N
               PROVE  IsFiniteSet(P(x)) /\ Cardinality(P(x)) \in Nat /\ Cardinality(P(x)) <= Cardinality(N)
    OBVIOUS
  <2>1. P(x) \in SUBSET N
    OBVIOUS
  <2> HIDE DEF P
  <2> QED
    BY <1>1, <2>1, FS_Subset, FS_CardinalityType
<1>6. s \in N /\ ~(Cardinality(P(s)) < TopSources)
  BY <1>4 DEF N
<1>7. /\ \A x \in N : <<x, x>> \notin R
      /\ \A x, y, z \in N : <<x, y>> \in R /\ <<y, z>> \in R => <<x, z>> \in R
      /\ \A x, y \in N : x # y => <<x, y>> \in R \/ <<y, x>> \in R
  <2>1. /\ \A x \in N : ~W!Before(w, x, x)
        /\ \A x, y, z \in N : W!Before(w, x, y) /\ W!Before(w, y, z) => W!Before(w, x, z)
        /\ \A x, y \in N : x # y => W!Before(w, x, y) \/ W!Before(w, y, x)
    <3>1. \A x \in N : x \in LogSource
      BY <1>1
    <3> QED
      BY <3>1, RanksOrdered
  <2> QED
    BY <1>2, <2>1
<1>8. Cardinality(W!Top(w)) = TopSources
  <2>1. TopSources <= Cardinality(N)
    <3>1. Cardinality(P(s)) \in Nat /\ Cardinality(P(s)) <= Cardinality(N)
      BY <1>5, <1>6
    <3> HIDE DEF P
    <3> QED
      BY <1>1, <1>6, <3>1
  <2>2. Cardinality({x \in N : Cardinality({y \in N : <<y, x>> \in R}) < TopSources}) = TopSources
    BY <1>1, <1>7, <2>1, Ranked
  <2> QED
    BY <1>4, <2>2
<1>9. ASSUME NEW t \in W!Top(w)  PROVE W!WouldBe(w.of[t])
  <2>1. t \in N /\ Cardinality(P(t)) < TopSources
    BY <1>4
  <2>2. <<t, s>> \in R
    <3> SUFFICES ASSUME <<s, t>> \in R  PROVE FALSE
      <4>1. t # s
        BY <1>6, <2>1
      <4> QED
        BY <1>6, <1>7, <2>1, <4>1
    <3>1. P(s) \in SUBSET P(t)
      BY <1>6, <1>7, <2>1
    <3>2. IsFiniteSet(P(t)) /\ Cardinality(P(t)) \in Nat /\ Cardinality(P(s)) \in Nat
      BY <1>5, <1>6, <2>1
    <3> HIDE DEF P
    <3>3. Cardinality(P(s)) <= Cardinality(P(t))
      BY <3>1, <3>2, FS_Subset
    <3> QED
      BY <1>1, <1>6, <2>1, <3>2, <3>3
  <2>3. W!Before(w, t, s) /\ t \in LogSource /\ s \in LogSource
    BY <1>1, <1>2, <1>6, <2>1, <2>2
  <2> QED
    BY <2>3, RanksOrdered
<1> QED
  BY <1>8, <1>9

\* A window that is sound is told as it was.
LEMMA StatsTold ==
  ASSUME W!RollupAssumption, NEW z \in LogZone, Sound(open[z], truth[z])
  PROVE  /\ TrueReport(W!Stats(z)) /\ W!Stats(z).zone = z /\ W!Stats(z).all = open[z].all
<1> DEFINE w == open[z]
           t == truth[z]
           st == W!Stats(z)
           N == W!Named(w)
           missed == {s \in N \ W!Top(w) : W!WouldBe(w.of[s])}
<1>1. /\ w \in [all : W!Counts, of : [LogSource -> W!Counts], overflow : BOOLEAN]
      /\ t \in [LogSource -> W!Counts] /\ w.all \in W!Counts /\ w.of \in [LogSource -> W!Counts] /\ w.overflow \in BOOLEAN
      /\ \A s \in LogSource : w.of[s] # t[s] => w.of[s] = W!Nothing /\ w.overflow
      /\ w.overflow => Cardinality({s \in LogSource : W!Total(t[s]) > 0}) > MaxPairs
  BY DEF Sound
<1>2. st = [ zone |-> z, all |-> w.all, of |-> w.of, admitted |-> W!Admitted(w),
             named |-> W!Top(w), cut |-> Cardinality(missed), overflow |-> w.overflow, truth |-> t ]
  BY LogCountedHere DEF W!Stats
<1> HIDE DEF st
<1>3. W!Top(w) \in SUBSET N /\ N \in SUBSET LogSource /\ missed \in SUBSET LogSource
  BY DEF W!Top, W!Named
<1>4. W!Admitted(w) = W!Of(w.all, W!LetThrough) /\ W!Admitted(w) \in Nat
  BY <1>1, AdmittedIs
<1>5. IsFiniteSet(missed) /\ Cardinality(missed) \in Nat
  BY <1>3, NamedFinite
<1> HIDE DEF missed
<1>6. st \in W!ClosedWindow
  BY <1>1, <1>2, <1>3, <1>4, <1>5 DEF W!ClosedWindow
<1>7. /\ st.zone = z /\ st.all = w.all /\ st.of = w.of /\ st.truth = t /\ st.overflow = w.overflow
      /\ st.admitted = W!Admitted(w) /\ st.named = W!Top(w) /\ st.cut = Cardinality(missed)
  BY <1>2
<1>8. st.admitted = SumFunctionOnSet([s \in LogSource |-> W!Of(t[s], W!LetThrough)], LogSource)
  <2> DEFINE through == W!LetThrough \cap LogKind
  <2>1. \A c : W!Of(c, W!LetThrough) = W!Of(c, through)
    <3>1. through \cap LogKind = W!LetThrough \cap LogKind
      OBVIOUS
    <3> QED
      BY <3>1 DEF W!Of
  <2>2. through \in SUBSET LogKind
    OBVIOUS
  <2> HIDE DEF through
  <2>3. W!Of(w.all, through) = SumFunctionOnSet([s \in LogSource |-> W!Of(t[s], through)], LogSource)
    BY <2>2 DEF Sound
  <2>4. [s \in LogSource |-> W!Of(t[s], through)] = [s \in LogSource |-> W!Of(t[s], W!LetThrough)]
    BY <2>1
  <2> QED
    BY <1>4, <1>7, <2>1, <2>3, <2>4
<1>9. W!Measured(st)
  BY <1>1, <1>7, <1>8, LogCountedHere DEF W!Measured
<1> DEFINE would == {s \in LogSource : W!WouldBe(t[s])}
           listed == {s \in W!Top(w) : W!State(w.of[s]) \in W!Previews}
<1>10. \A s \in LogSource : /\ W!State(w.of[s]) \in W!Previews <=> W!WouldBe(w.of[s])
                            /\ W!WouldBe(w.of[s]) => s \in N
                            /\ s \in N => w.of[s] = t[s]
  <2> SUFFICES ASSUME NEW s \in LogSource
               PROVE  /\ W!State(w.of[s]) \in W!Previews <=> W!WouldBe(w.of[s])
                      /\ W!WouldBe(w.of[s]) => s \in N
                      /\ s \in N => w.of[s] = t[s]
    OBVIOUS
  <2>1. w.of[s] \in W!Counts
    BY <1>1
  <2>2. /\ W!State(w.of[s]) \in W!Previews <=> W!WouldBe(w.of[s])
        /\ W!WouldBe(w.of[s]) => W!Total(w.of[s]) > 0
    BY <2>1, StateSays
  <2>3. s \in N <=> W!Total(w.of[s]) > 0
    BY DEF W!Named
  <2>4. W!Total(w.of[s]) > 0 => w.of[s] # W!Nothing
    BY <2>1, TotalCounts
  <2> QED
    BY <1>1, <2>2, <2>3, <2>4
<1>11. listed \subseteq would
  BY <1>3, <1>10
<1>12. ~w.overflow => would \ listed = missed
  BY <1>1, <1>3, <1>10 DEF missed
<1>13. Cardinality(missed) > 0 => Cardinality(listed) = TopSources
  <2> SUFFICES ASSUME Cardinality(missed) > 0  PROVE Cardinality(listed) = TopSources
    OBVIOUS
  <2>1. missed # {}
    BY <1>5, FS_EmptySet
  <2>2. PICK s \in missed : s \in N \ W!Top(w) /\ W!WouldBe(w.of[s])
    BY <2>1 DEF missed
  <2>3. Cardinality(W!Top(w)) = TopSources /\ \A x \in W!Top(w) : W!WouldBe(w.of[x])
    BY <1>1, <2>2, TopPreviews
  <2>4. listed = W!Top(w)
    BY <1>3, <1>10, <2>3
  <2> QED
    BY <2>3, <2>4
<1>14. W!Previewed(st)
  BY <1>7, <1>11, <1>12, <1>13, LogCountedHere DEF W!Previewed
<1> QED
  BY <1>6, <1>7, <1>9, <1>14 DEF TrueReport, st

---------------------------------------------------------------------------
(* Rollup: every record in one window.                                     *)

\* The records of some windows, when there is one less.
LEMMA RecordsCounted ==
  ASSUME W!RollupAssumption, NEW S, IsFiniteSet(S), \A st \in S : TrueReport(st)
  PROVE  /\ W!RecordsOf({}) = 0 /\ W!RecordsOf(S) \in Nat
         /\ \A st \in S : W!RecordsOf(S) = W!Total(st.all) + W!RecordsOf(S \ {st})
<1> DEFINE F(Q) == [st \in Q |-> W!Total(st.all)]
<1>1. \A Q : W!RecordsOf(Q) = SumFunctionOnSet(F(Q), Q)
  BY LogCountedHere DEF W!RecordsOf
<1>2. \A st \in S : W!Total(st.all) \in Nat
  BY TotalCounts DEF TrueReport, W!ClosedWindow
<1>3. W!RecordsOf({}) = 0
  <2> HIDE DEF F
  <2> QED
    BY <1>1, FS_EmptySet, SumStep
<1>4. W!RecordsOf(S) \in Nat
  <2>1. \A st \in S : F(S)[st] \in Int /\ F(S)[st] >= 0
    BY <1>2
  <2> HIDE DEF F
  <2>2. SumFunctionOnSet(F(S), S) \in Int /\ SumFunctionOnSet(F(S), S) >= 0
    BY <2>1, SumInt
  <2> QED
    BY <1>1, <2>2
<1>5. ASSUME NEW st \in S
      PROVE  W!RecordsOf(S) = W!Total(st.all) + W!RecordsOf(S \ {st})
  <2> DEFINE Q == S \ {st}
  <2>1. \A x \in S : F(S)[x] \in Int
    BY <1>2
  <2>2. \A x \in Q : F(S)[x] \in Int /\ F(S)[x] = F(Q)[x]
    BY <1>2
  <2>3. F(S)[st] = W!Total(st.all)
    OBVIOUS
  <2>4. IsFiniteSet(Q)
    BY FS_Subset
  <2> HIDE DEF F
  <2>5. SumFunctionOnSet(F(S), S) = F(S)[st] + SumFunctionOnSet(F(S), Q)
    BY <2>1, SumElement
  <2> HIDE DEF Q
  <2>6. SumFunctionOnSet(F(S), Q) = SumFunctionOnSet(F(Q), Q)
    BY <2>2, <2>4, SumSame
  <2> QED
    BY <1>1, <2>3, <2>5, <2>6 DEF Q
<1> QED
  BY <1>3, <1>4, <1>5

\* The records of the windows that are open.
RecordsHeld(f) == SumFunctionOnSet([z \in LogZone |-> W!Total(f[z].all)], LogZone)

\* A window of counts, and any number of them.
Windows == [all : W!Counts, of : [LogSource -> W!Counts], overflow : BOOLEAN]

\* There are none in windows that have just been opened, and one more when one is folded.
LEMMA HeldCounts ==
  ASSUME W!RollupAssumption, NEW f \in [LogZone -> Windows]
  PROVE  /\ RecordsHeld(f) \in Nat
         /\ RecordsHeld([z \in LogZone |-> W!Empty]) = 0
         /\ \A z \in LogZone, v \in Windows :
              W!Total(v.all) = W!Total(f[z].all) + 1 => RecordsHeld([f EXCEPT ![z] = v]) = RecordsHeld(f) + 1
<1>1. \A v \in Windows : W!Total(v.all) \in Nat
  BY TotalCounts DEF Windows
<1>2. RecordsHeld(f) \in Nat
  <2> DEFINE F == [z \in LogZone |-> W!Total(f[z].all)]
  <2>1. \A z \in LogZone : F[z] \in Int /\ F[z] >= 0
    BY <1>1
  <2> HIDE DEF F
  <2>2. SumFunctionOnSet(F, LogZone) \in Int /\ SumFunctionOnSet(F, LogZone) >= 0
    BY <2>1, LogGiven, SumInt
  <2> QED
    BY <2>2 DEF RecordsHeld, F
<1>3. RecordsHeld([z \in LogZone |-> W!Empty]) = 0
  <2> DEFINE F == [z \in LogZone |-> W!Total([y \in LogZone |-> W!Empty][z].all)]
  <2>1. \A z \in LogZone : F[z] \in Nat /\ F[z] = 0
    BY EmptySound
  <2> HIDE DEF F
  <2>2. SumFunctionOnSet(F, LogZone) = 0
    BY <2>1, LogGiven, SumZero
  <2> QED
    BY <2>2 DEF RecordsHeld, F
<1>4. ASSUME NEW z \in LogZone, NEW v \in Windows, W!Total(v.all) = W!Total(f[z].all) + 1
      PROVE  RecordsHeld([f EXCEPT ![z] = v]) = RecordsHeld(f) + 1
  <2> DEFINE g == [f EXCEPT ![z] = v]
             F == [y \in LogZone |-> W!Total(f[y].all)]
             G == [y \in LogZone |-> W!Total(g[y].all)]
  <2>1. \A y \in LogZone : F[y] \in Int /\ G[y] \in Int
    BY <1>1
  <2>2. \A y \in LogZone \ {z} : F[y] = G[y]
    OBVIOUS
  <2>3. G[z] = F[z] + 1 /\ F[z] \in Nat
    BY <1>1, <1>4
  <2>4. RecordsHeld(g) = SumFunctionOnSet(G, LogZone) /\ RecordsHeld(f) = SumFunctionOnSet(F, LogZone)
    BY DEF RecordsHeld
  <2> HIDE DEF F, G, g
  <2>5. SumFunctionOnSet(G, LogZone) = SumFunctionOnSet(F, LogZone) + (G[z] - F[z])
    BY <2>1, <2>2, LogGiven, SumChanged
  <2>6. RecordsHeld(g) = RecordsHeld(f) + 1
    BY <1>2, <2>3, <2>4, <2>5
  <2> QED
    BY <2>6 DEF g
<1> QED
  BY <1>2, <1>3, <1>4

\* What is handed on when the windows are closed is true, and holds every record they held.
LEMMA ClosedTold ==
  ASSUME W!RollupAssumption, open \in [LogZone -> Windows], \A z \in LogZone : Sound(open[z], truth[z])
  PROVE  LET S == {W!Stats(z) : z \in W!Busy}
         IN IsFiniteSet(S) /\ W!RecordsOf(S) = RecordsHeld(open) /\ \A st \in S : TrueReport(st)
<1> DEFINE Z == W!Busy
           g == [z \in Z |-> W!Stats(z)]
           S == {W!Stats(z) : z \in Z}
           H1 == [z \in LogZone |-> W!Total(open[z].all)]
           F == [st \in S |-> W!Total(st.all)]
<1>1. Z \in SUBSET LogZone /\ IsFiniteSet(Z) /\ IsFiniteSet(LogZone)
  <2>1. Z \in SUBSET LogZone
    BY DEF W!Busy
  <2> QED
    BY <2>1, LogGiven, FS_Subset
<1>2. S = {g[z] : z \in Z} /\ DOMAIN g = Z /\ g = [z \in Z |-> g[z]]
  OBVIOUS
<1>3. \A z \in Z : g[z].zone = z /\ g[z].all = open[z].all /\ TrueReport(g[z])
  BY <1>1, StatsTold
<1>4. \A z \in LogZone : H1[z] \in Int /\ (z \notin Z => H1[z] = 0)
  <2>1. \A z \in LogZone : W!Total(open[z].all) \in Nat
    BY TotalCounts DEF Windows
  <2>2. \A z \in LogZone : z \in Z <=> W!Total(open[z].all) > 0
    BY DEF W!Busy
  <2> QED
    BY <2>1, <2>2
<1>5. \A z \in Z : H1[z] = F[g[z]]
  BY <1>1, <1>3
<1>6. W!RecordsOf(S) = SumFunctionOnSet(F, S) /\ RecordsHeld(open) = SumFunctionOnSet(H1, LogZone)
  BY LogCountedHere DEF W!RecordsOf, RecordsHeld
<1> HIDE DEF F, H1, g, Z, S
<1>7. IsFiniteSet(S)
  BY <1>1, <1>2, ImageFinite
<1>8. SumFunctionOnSet(F, {g[z] : z \in Z}) = SumFunctionOnSet(H1, Z)
  <2>1. \A x, y \in Z : g[x] = g[y] => x = y
    BY <1>3
  <2>2. \A x \in Z : H1[x] \in Int /\ H1[x] = F[g[x]]
    BY <1>1, <1>4, <1>5
  <2> QED
    BY <1>1, <2>1, <2>2, SumImage
<1>9. SumFunctionOnSet(H1, LogZone) = SumFunctionOnSet(H1, Z)
  <2>1. \A z \in LogZone : H1[z] \in Int
    BY <1>4
  <2>2. \A z \in LogZone \ Z : H1[z] = 0
    BY <1>4
  <2> QED
    BY <1>1, <2>1, <2>2, SumOthers
<1> QED
  BY <1>2, <1>3, <1>6, <1>7, <1>8, <1>9 DEF S, Z

---------------------------------------------------------------------------
(* Rollup: the invariant.                                                  *)

\* The type of the log's variables, without the cap.
LogTyped ==
  /\ known \subseteq LogZone /\ age \in 0..Length /\ folded \in 0..Records /\ handed \in Nat
  /\ open \in [LogZone -> Windows] /\ truth \in [LogZone -> [LogSource -> W!Counts]]
  /\ checked \in [zone : LogZone, src : LogSource, kind : LogKind] \cup {NoRecord}
  /\ handing \in [W!Closer -> SUBSET W!ClosedWindow] /\ kept \in [LogZone -> W!ClosedWindow \cup {NoRecord}]

\* The invariant, window by window.
LogKept ==
  /\ LogTyped
  /\ \A z \in LogZone : Sound(open[z], truth[z])
  /\ \A c \in W!Closer : IsFiniteSet(handing[c]) /\ \A st \in handing[c] : TrueReport(st)
  /\ \A z \in LogZone : kept[z] = NoRecord \/ TrueReport(kept[z])
  /\ checked # NoRecord => handing["log"] = {} /\ folded < Records
  /\ folded = handed + W!RecordsOf(handing["log"]) + W!RecordsOf(handing["ticker"]) + RecordsHeld(open)

\* It follows from the invariant.
LEMMA LogTaken ==
  ASSUME W!RollupAssumption, W!IInv
  PROVE  LogKept
<1>1. LogTyped /\ \A z \in LogZone : Cardinality(W!Named(open[z])) <= MaxPairs
  BY LogCountedHere DEF W!IInv, W!LogCounted, W!TypeOK, LogTyped, Windows
<1>2. ASSUME NEW z \in LogZone  PROVE Sound(open[z], truth[z])
  BY <1>1, LogCountedHere DEF W!IInv, W!CountedOrNot, W!AllCounted, LogTyped, Windows, Sound
<1>3. \A st \in W!Closings : W!Measured(st) /\ W!Previewed(st)
  BY DEF W!IInv, W!LogCounted, W!MeasuredWhole, W!PreviewComplete
<1>4. ASSUME NEW c \in W!Closer
      PROVE  IsFiniteSet(handing[c]) /\ \A st \in handing[c] : TrueReport(st)
  <2>1. handing[c] \subseteq W!ClosedWindow
    BY <1>1 DEF LogTyped
  <2>2. handing[c] \subseteq W!Closings
    BY DEF W!Closings
  <2> QED
    BY <1>3, <2>1, <2>2, LogCountedHere DEF TrueReport, W!IInv, W!HandedFirst
<1>5. ASSUME NEW z \in LogZone, kept[z] # NoRecord  PROVE TrueReport(kept[z])
  <2>1. kept[z] \in W!ClosedWindow
    BY <1>1, <1>5 DEF LogTyped
  <2>2. kept[z] \in {kept[y] : y \in LogZone} \ {NoRecord}
    BY <1>5
  <2>3. kept[z] \in W!Closings
    BY <2>2 DEF W!Closings
  <2> QED
    BY <1>3, <2>1, <2>3 DEF TrueReport
<1>6. folded = handed + W!RecordsOf(handing["log"]) + W!RecordsOf(handing["ticker"]) + RecordsHeld(open)
  BY LogCountedHere DEF W!IInv, W!LogCounted, W!CountedOnce, RecordsHeld
<1> QED
  BY <1>1, <1>2, <1>4, <1>5, <1>6 DEF LogKept, W!IInv, W!HandedFirst

\* And gives it.
LEMMA LogGives ==
  ASSUME W!RollupAssumption
  PROVE  LogKept => W!IInv
<1> SUFFICES ASSUME LogKept  PROVE W!IInv
  OBVIOUS
<1>1. LogTyped /\ \A z \in LogZone : Sound(open[z], truth[z])
  BY DEF LogKept
<1>2. W!TypeOK
  BY <1>1, LogCountedHere DEF LogTyped, Windows, Sound, W!TypeOK
<1>3. W!CountedOnce
  BY LogCountedHere DEF LogKept, RecordsHeld, W!CountedOnce
<1>4. ASSUME NEW st \in W!Closings  PROVE TrueReport(st)
  <2>1. st \in UNION {handing[c] : c \in W!Closer} \/ st \in {kept[z] : z \in LogZone} \ {NoRecord}
    BY DEF W!Closings
  <2>2. CASE st \in UNION {handing[c] : c \in W!Closer}
    <3>1. PICK c \in W!Closer : st \in handing[c]
      BY <2>2
    <3> QED
      BY <3>1 DEF LogKept
  <2>3. CASE st \in {kept[z] : z \in LogZone} \ {NoRecord}
    <3>1. PICK z \in LogZone : st = kept[z] /\ st # NoRecord
      BY <2>3
    <3> QED
      BY <3>1 DEF LogKept
  <2> QED
    BY <2>1, <2>2, <2>3
<1>5. W!MeasuredWhole /\ W!PreviewComplete
  BY <1>4 DEF TrueReport, W!MeasuredWhole, W!PreviewComplete
<1>6. W!HandedFirst
  BY LogCountedHere DEF LogKept, W!HandedFirst
<1>7. W!CountedOrNot /\ W!AllCounted
  BY <1>1, LogCountedHere DEF Sound, W!CountedOrNot, W!AllCounted
<1> QED
  BY <1>2, <1>3, <1>5, <1>6, <1>7 DEF W!IInv, W!LogCounted

\* Nothing is counted at first.
LEMMA LogInit ==
  ASSUME W!RollupAssumption, W!Init
  PROVE  W!IInv
<1>1. W!Empty \in Windows /\ W!Empty.of \in [LogSource -> W!Counts] /\ Sound(W!Empty, W!Empty.of)
  BY EmptySound DEF Sound, Windows
<1>2. LogTyped
  BY <1>1, LogGiven DEF W!Init, LogTyped
<1>3. \A z \in LogZone : Sound(open[z], truth[z])
  BY <1>1 DEF W!Init
<1>4. IsFiniteSet({}) /\ W!RecordsOf({}) = 0
  BY FS_EmptySet, RecordsCounted
<1>5. \A c \in W!Closer : handing[c] = {}
  BY DEF W!Init
<1>6. RecordsHeld(open) = 0
  <2>1. [z \in LogZone |-> W!Empty] \in [LogZone -> Windows]
    BY <1>1
  <2> QED
    BY <2>1, HeldCounts DEF W!Init
<1>7. folded = handed + W!RecordsOf(handing["log"]) + W!RecordsOf(handing["ticker"]) + RecordsHeld(open)
  BY <1>4, <1>5, <1>6 DEF W!Init, W!Closer
<1>8. LogKept
  BY <1>2, <1>3, <1>4, <1>5, <1>7 DEF LogKept, W!Init
<1> QED
  BY <1>8, LogGives

\* The windows that have been closed, by one closer and the other, hold whole numbers of records.
LEMMA LogNumbers ==
  ASSUME W!RollupAssumption, LogKept
  PROVE  /\ W!RecordsOf(handing["log"]) \in Nat /\ W!RecordsOf(handing["ticker"]) \in Nat
         /\ RecordsHeld(open) \in Nat /\ handed \in Nat /\ folded \in Nat
<1>1. IsFiniteSet(handing["log"]) /\ IsFiniteSet(handing["ticker"])
      /\ (\A st \in handing["log"] : TrueReport(st)) /\ (\A st \in handing["ticker"] : TrueReport(st))
  BY DEF LogKept, W!Closer
<1>2. open \in [LogZone -> Windows] /\ handed \in Nat /\ folded \in Nat
  BY LogGiven DEF LogKept, LogTyped
<1> QED
  BY <1>1, <1>2, RecordsCounted, HeldCounts

\* A record that is checked counts nowhere yet.
LEMMA LogCheck ==
  ASSUME W!RollupAssumption, LogKept, NEW z \in LogZone, NEW s \in LogSource, NEW k \in LogKind, W!Check(z, s, k)
  PROVE  LogKept'
<1>1. /\ handing["log"] = {} /\ folded < Records
      /\ checked' = [zone |-> z, src |-> s, kind |-> k]
      /\ UNCHANGED <<known, age, open, handing, kept, truth, folded, handed>>
  BY DEF W!Check
<1>2. LogTyped'
  BY <1>1 DEF LogKept, LogTyped
<1> QED
  BY <1>1, <1>2 DEF LogKept, RecordsHeld

\* A fold closes the windows that are over, and counts its record in the one that is open then.
LEMMA LogFold ==
  ASSUME W!RollupAssumption, LogKept, NEW closing \in BOOLEAN, W!Fold(closing)
  PROVE  LogKept'
<1> DEFINE r == checked
           base == IF closing THEN [z \in LogZone |-> W!Empty] ELSE open
           was == IF closing THEN [z \in LogZone |-> W!Empty.of] ELSE truth
           S == {W!Stats(z) : z \in W!Busy}
           v == W!Counted(base[r.zone], r.src, r.kind)
           t == [was[r.zone] EXCEPT ![r.src] = W!Plus(@, r.kind)]
<1>1. /\ checked # NoRecord /\ checked' = NoRecord /\ folded' = folded + 1
      /\ handing' = IF closing THEN [handing EXCEPT !["log"] = S] ELSE handing
      /\ age' = (IF closing THEN 0 ELSE age)
      /\ open' = [base EXCEPT ![r.zone] = v]
      /\ truth' = [was EXCEPT ![r.zone][r.src] = W!Plus(@, r.kind)]
      /\ UNCHANGED <<known, kept, handed>>
  BY DEF W!Fold
<1>2. /\ LogTyped /\ handing["log"] = {} /\ folded < Records
      /\ \A z \in LogZone : Sound(open[z], truth[z])
      /\ folded = handed + W!RecordsOf(handing["log"]) + W!RecordsOf(handing["ticker"]) + RecordsHeld(open)
  BY <1>1 DEF LogKept
<1>3. r.zone \in LogZone /\ r.src \in LogSource /\ r.kind \in LogKind
  BY <1>1, <1>2 DEF LogTyped
<1>4. /\ base \in [LogZone -> Windows] /\ was \in [LogZone -> [LogSource -> W!Counts]]
      /\ \A z \in LogZone : Sound(base[z], was[z])
  <2>1. open \in [LogZone -> Windows] /\ truth \in [LogZone -> [LogSource -> W!Counts]]
    BY <1>2 DEF LogTyped
  <2>2. Sound(W!Empty, W!Empty.of) /\ W!Empty \in Windows /\ W!Empty.of \in [LogSource -> W!Counts]
    BY EmptySound DEF Sound, Windows
  <2> QED
    BY <1>2, <2>1, <2>2
<1> HIDE DEF r, base, was
<1>5. Sound(v, t) /\ W!Total(v.all) = W!Total(base[r.zone].all) + 1
  BY <1>3, <1>4, CountedSound
<1>6. truth' = [was EXCEPT ![r.zone] = t]
  BY <1>1
<1>7. v \in Windows /\ t \in [LogSource -> W!Counts]
  BY <1>5 DEF Sound, Windows
<1> HIDE DEF v, t
<1>8. \A z \in LogZone : Sound(open'[z], truth'[z])
  BY <1>1, <1>3, <1>4, <1>5, <1>6
<1>9. RecordsHeld(open') = RecordsHeld(base) + 1
  BY <1>1, <1>3, <1>4, <1>5, <1>7, HeldCounts
<1>10. IsFiniteSet(S) /\ W!RecordsOf(S) = RecordsHeld(open) /\ \A st \in S : TrueReport(st)
  <2>1. open \in [LogZone -> Windows]
    BY <1>2 DEF LogTyped
  <2> QED
    BY <1>2, <2>1, ClosedTold
<1> HIDE DEF S
<1>11. /\ handing' \in [W!Closer -> SUBSET W!ClosedWindow]
       /\ \A c \in W!Closer : IsFiniteSet(handing'[c]) /\ \A st \in handing'[c] : TrueReport(st)
       /\ handing'["ticker"] = handing["ticker"]
       /\ handing'["log"] = IF closing THEN S ELSE {}
  <2>1. S \subseteq W!ClosedWindow
    BY <1>10 DEF TrueReport
  <2>2. handing \in [W!Closer -> SUBSET W!ClosedWindow]
        /\ \A c \in W!Closer : IsFiniteSet(handing[c]) /\ \A st \in handing[c] : TrueReport(st)
    BY DEF LogKept, LogTyped
  <2> QED
    BY <1>1, <1>2, <1>10, <2>1, <2>2 DEF W!Closer
<1>12. LogTyped'
  <2>1. age' \in 0..Length /\ folded' \in 0..Records
    BY <1>1, <1>2, LogGiven DEF LogTyped
  <2>2. open' \in [LogZone -> Windows] /\ truth' \in [LogZone -> [LogSource -> W!Counts]]
    BY <1>1, <1>3, <1>4, <1>6, <1>7
  <2> QED
    BY <1>1, <1>2, <1>11, <2>1, <2>2 DEF LogTyped
<1>13. folded' = handed' + W!RecordsOf(handing'["log"]) + W!RecordsOf(handing'["ticker"]) + RecordsHeld(open')
  <2>1. W!RecordsOf({}) = 0
    BY FS_EmptySet, RecordsCounted
  <2>2. /\ W!RecordsOf(handing["ticker"]) \in Nat /\ RecordsHeld(open) \in Nat /\ handed \in Nat /\ folded \in Nat
    BY LogNumbers
  <2>3. CASE closing
    <3>1. RecordsHeld(base) = 0
      BY <1>4, <2>3, HeldCounts DEF base
    <3> QED
      BY <1>1, <1>2, <1>9, <1>10, <1>11, <2>1, <2>2, <2>3, <3>1
  <2>4. CASE ~closing
    <3>1. base = open
      BY <2>4 DEF base
    <3>2. W!RecordsOf(handing["log"]) = 0 /\ W!RecordsOf(handing'["log"]) = 0
      BY <1>2, <1>11, <2>1, <2>4
    <3>3. W!RecordsOf(handing'["ticker"]) = W!RecordsOf(handing["ticker"])
      BY <1>11
    <3> QED
      BY <1>1, <1>2, <1>9, <2>2, <3>1, <3>2, <3>3
  <2> QED
    BY <2>3, <2>4
<1>14. \A z \in LogZone : kept'[z] = NoRecord \/ TrueReport(kept'[z])
  BY <1>1 DEF LogKept
<1> QED
  BY <1>1, <1>8, <1>11, <1>12, <1>13, <1>14 DEF LogKept, RecordsHeld

\* The ticker closes them too.
LEMMA LogClose ==
  ASSUME W!RollupAssumption, LogKept, W!Close
  PROVE  LogKept'
<1> DEFINE S == {W!Stats(z) : z \in W!Busy}
<1>1. /\ handing["ticker"] = {} /\ handing' = [handing EXCEPT !["ticker"] = S] /\ age' = 0
      /\ open' = [z \in LogZone |-> W!Empty] /\ truth' = [z \in LogZone |-> W!Empty.of]
      /\ UNCHANGED <<known, checked, kept, folded, handed>>
  BY DEF W!Close
<1>2. /\ LogTyped /\ open \in [LogZone -> Windows]
      /\ folded = handed + W!RecordsOf(handing["log"]) + W!RecordsOf(handing["ticker"]) + RecordsHeld(open)
  BY DEF LogKept, LogTyped
<1>3. IsFiniteSet(S) /\ W!RecordsOf(S) = RecordsHeld(open) /\ \A st \in S : TrueReport(st)
  BY <1>2, ClosedTold DEF LogKept
<1> HIDE DEF S
<1>4. Sound(W!Empty, W!Empty.of) /\ W!Empty \in Windows /\ W!Empty.of \in [LogSource -> W!Counts]
  BY EmptySound DEF Sound, Windows
<1>5. /\ handing' \in [W!Closer -> SUBSET W!ClosedWindow]
      /\ \A c \in W!Closer : IsFiniteSet(handing'[c]) /\ \A st \in handing'[c] : TrueReport(st)
      /\ handing'["log"] = handing["log"] /\ handing'["ticker"] = S
  <2>1. S \subseteq W!ClosedWindow
    BY <1>3 DEF TrueReport
  <2>2. handing \in [W!Closer -> SUBSET W!ClosedWindow]
        /\ \A c \in W!Closer : IsFiniteSet(handing[c]) /\ \A st \in handing[c] : TrueReport(st)
    BY DEF LogKept, LogTyped
  <2> QED
    BY <1>1, <1>3, <2>1, <2>2 DEF W!Closer
<1>6. RecordsHeld(open') = 0 /\ W!RecordsOf({}) = 0
  BY <1>1, <1>2, FS_EmptySet, HeldCounts, RecordsCounted
<1>7. folded' = handed' + W!RecordsOf(handing'["log"]) + W!RecordsOf(handing'["ticker"]) + RecordsHeld(open')
  <2>1. /\ W!RecordsOf(handing["log"]) \in Nat /\ RecordsHeld(open) \in Nat /\ handed \in Nat /\ folded \in Nat
    BY LogNumbers
  <2> QED
    BY <1>1, <1>2, <1>3, <1>5, <1>6, <2>1
<1>8. LogTyped'
  BY <1>1, <1>2, <1>4, <1>5, LogGiven DEF LogTyped
<1>9. \A z \in LogZone : Sound(open'[z], truth'[z])
  BY <1>1, <1>4
<1> QED
  BY <1>1, <1>5, <1>7, <1>8, <1>9 DEF LogKept, RecordsHeld

\* A window that is handed on is counted there.
LEMMA LogEmit ==
  ASSUME W!RollupAssumption, LogKept, NEW c \in W!Closer, W!Emit(c)
  PROVE  LogKept'
<1>1. PICK st \in handing[c] : /\ handing' = [handing EXCEPT ![c] = @ \ {st}]
                               /\ kept' = [kept EXCEPT ![st.zone] = st]
                               /\ handed' = handed + W!Total(st.all)
                               /\ UNCHANGED <<known, age, open, checked, truth, folded>>
  BY DEF W!Emit
<1>2. /\ LogTyped /\ (c = "log" \/ c = "ticker")
      /\ \A d \in W!Closer : IsFiniteSet(handing[d]) /\ \A x \in handing[d] : TrueReport(x)
      /\ folded = handed + W!RecordsOf(handing["log"]) + W!RecordsOf(handing["ticker"]) + RecordsHeld(open)
  BY DEF LogKept, W!Closer
<1>3. handing \in [W!Closer -> SUBSET W!ClosedWindow] /\ kept \in [LogZone -> W!ClosedWindow \cup {NoRecord}]
      /\ handed \in Nat
  BY DEF LogKept, LogTyped
<1>4. TrueReport(st) /\ st \in W!ClosedWindow /\ st.zone \in LogZone /\ W!Total(st.all) \in Nat
  <2>1. TrueReport(st)
    BY <1>2
  <2> QED
    BY <2>1, TotalCounts DEF TrueReport, W!ClosedWindow
<1>5. /\ W!RecordsOf(handing[c]) = W!Total(st.all) + W!RecordsOf(handing[c] \ {st})
      /\ IsFiniteSet(handing[c] \ {st})
  BY <1>2, RecordsCounted, FS_Subset
<1>6. W!RecordsOf(handing[c] \ {st}) \in Nat
  BY <1>2, <1>5, RecordsCounted
<1>7. /\ handing' \in [W!Closer -> SUBSET W!ClosedWindow]
      /\ \A d \in W!Closer : IsFiniteSet(handing'[d]) /\ \A x \in handing'[d] : TrueReport(x)
      /\ handing'[c] = handing[c] \ {st} /\ \A d \in W!Closer \ {c} : handing'[d] = handing[d]
  BY <1>1, <1>2, <1>3, <1>5
<1>8. folded' = handed' + W!RecordsOf(handing'["log"]) + W!RecordsOf(handing'["ticker"]) + RecordsHeld(open)
  <2>1. /\ W!RecordsOf(handing["log"]) \in Nat /\ W!RecordsOf(handing["ticker"]) \in Nat
        /\ RecordsHeld(open) \in Nat /\ handed \in Nat /\ folded \in Nat
    BY LogNumbers
  <2>2. CASE c = "log"
    <3>1. handing'["ticker"] = handing["ticker"]
      BY <1>7, <2>2 DEF W!Closer
    <3> QED
      BY <1>1, <1>2, <1>4, <1>5, <1>6, <1>7, <2>1, <2>2, <3>1
  <2>3. CASE c = "ticker"
    <3>1. handing'["log"] = handing["log"]
      BY <1>7, <2>3 DEF W!Closer
    <3> QED
      BY <1>1, <1>2, <1>4, <1>5, <1>6, <1>7, <2>1, <2>3, <3>1
  <2> QED
    BY <1>2, <2>2, <2>3
<1>9. kept' \in [LogZone -> W!ClosedWindow \cup {NoRecord}] /\ \A z \in LogZone : kept'[z] = NoRecord \/ TrueReport(kept'[z])
  BY <1>1, <1>3, <1>4 DEF LogKept
<1>10. LogTyped'
  BY <1>1, <1>2, <1>3, <1>4, <1>7, <1>9 DEF LogTyped
<1>11. checked' # NoRecord => handing'["log"] = {} /\ folded' < Records
  <2>1. checked # NoRecord => handing["log"] = {} /\ folded < Records
    BY DEF LogKept
  <2>2. handing'["log"] \subseteq handing["log"]
    BY <1>2, <1>7 DEF W!Closer
  <2> QED
    BY <1>1, <2>1, <2>2
<1> QED
  BY <1>1, <1>7, <1>8, <1>9, <1>10, <1>11 DEF LogKept, RecordsHeld

\* A document takes nothing from the windows that are open; nor does time.
LEMMA LogWaits ==
  ASSUME W!RollupAssumption, LogKept, W!Pass \/ \E names \in SUBSET LogZone : W!SetZones(names)
  PROVE  LogKept'
<1>1. UNCHANGED <<open, checked, handing, truth, folded, handed>>
  BY DEF W!Pass, W!SetZones
<1>2. /\ known \subseteq LogZone /\ age \in 0..Length /\ kept \in [LogZone -> W!ClosedWindow \cup {NoRecord}]
      /\ \A z \in LogZone : kept[z] = NoRecord \/ TrueReport(kept[z])
  BY DEF LogKept, LogTyped
<1>3. /\ known' \subseteq LogZone /\ age' \in 0..Length /\ kept' \in [LogZone -> W!ClosedWindow \cup {NoRecord}]
      /\ \A z \in LogZone : kept'[z] = NoRecord \/ TrueReport(kept'[z])
  <2>1. CASE W!Pass
    BY <1>2, <2>1, LogGiven DEF W!Pass
  <2>2. ASSUME NEW names \in SUBSET LogZone, W!SetZones(names)
        PROVE  /\ known' \subseteq LogZone /\ age' \in 0..Length /\ kept' \in [LogZone -> W!ClosedWindow \cup {NoRecord}]
               /\ \A z \in LogZone : kept'[z] = NoRecord \/ TrueReport(kept'[z])
    BY <1>2, <2>2 DEF W!SetZones
  <2> QED
    BY <2>1, <2>2
<1>4. LogTyped'
  BY <1>1, <1>3 DEF LogKept, LogTyped
<1> QED
  BY <1>1, <1>3, <1>4 DEF LogKept, RecordsHeld

\* Every step keeps the invariant of the log.
LEMMA LogStep ==
  ASSUME W!RollupAssumption, W!IInv, [W!Next]_W!vars
  PROVE  W!IInv'
<1>1. LogKept
  BY LogTaken
<1>2. LogKept'
  <2>1. CASE UNCHANGED W!vars
    BY <1>1, <2>1 DEF W!vars, LogKept, LogTyped, RecordsHeld
  <2> QED
    BY <1>1, <2>1, LogCheck, LogFold, LogClose, LogEmit, LogWaits DEF W!Next
<1>3. (LogKept => W!IInv)'
  BY LogGives, PTL
<1> QED
  BY <1>2, <1>3

---------------------------------------------------------------------------
(* Admission: the ages of slots and requests.                              *)

\* The sizes of the ceilings' part are the library's.
LEMMA CeilingsCounted ==
  /\ \A S : C!IsFiniteSet(S) <=> IsFiniteSet(S)
  /\ \A S : C!Cardinality(S) = Cardinality(S)
<1>1. \A S : C!IsFiniteSet(S) <=> IsFiniteSet(S)
  BY DEF C!IsFiniteSet, IsFiniteSet
<1>2. \A S : C!Cardinality(S) = Cardinality(S)
  BY DEF C!Cardinality, Cardinality
<1> QED
  BY <1>1, <1>2

\* What is assumed of the ceilings, name by name.
LEMMA CeilingsGiven ==
  ASSUME C!AdmissionAssumption
  PROVE  /\ MaxSources \in Nat /\ MinQuota \in Nat /\ Rps \in Nat \ {0} /\ Earn \in Nat \ {0}
         /\ Concurrency \in Nat /\ SweepEvery \in Nat /\ FullEvery \in Nat /\ MaxAge \in Nat /\ Idle \in Nat
         /\ Idle > MaxAge /\ Idle * Earn >= Rps /\ MaxSources > 0
<1>1. /\ {MaxSources, MinQuota, Rps, Earn, Concurrency, SweepEvery, FullEvery, MaxAge, Idle} \subseteq Nat \ {0}
      /\ Idle > MaxAge /\ Idle * Earn >= Rps
  BY DEF C!AdmissionAssumption
<1>2. /\ MaxSources \in Nat \ {0} /\ MinQuota \in Nat \ {0} /\ Rps \in Nat \ {0} /\ Earn \in Nat \ {0}
      /\ Concurrency \in Nat \ {0} /\ SweepEvery \in Nat \ {0} /\ FullEvery \in Nat \ {0}
      /\ MaxAge \in Nat \ {0} /\ Idle \in Nat \ {0}
  BY <1>1
<1> QED
  BY <1>1, <1>2

\* The ages of slots and of requests, up to one past the oldest that counts.
Ages == 0..(MaxAge + 1)

\* A sequence of some of a set's elements is one of the set's.
LEMMA SeqWithin ==
  ASSUME NEW S, NEW T, S \subseteq T, NEW s \in Seq(S)
  PROVE  s \in Seq(T) /\ Len(s) \in Nat /\ DOMAIN s = 1..Len(s) /\ \A i \in 1..Len(s) : s[i] \in S
<1>1. s \in [1..Len(s) -> S] /\ Len(s) \in Nat
  OBVIOUS
<1>2. s \in [1..Len(s) -> T]
  BY <1>1
<1> QED
  BY <1>1, <1>2

\* Ages are numbers.
LEMMA AgesAre ==
  ASSUME C!AdmissionAssumption
  PROVE  Ages \subseteq Nat /\ 0 \in Ages /\ \A s \in Seq(Ages) : s \in Seq(Nat)
<1>1. Ages \subseteq Nat /\ 0 \in Ages
  BY CeilingsGiven DEF Ages
<1> QED
  BY <1>1, SeqWithin

\* What of a sequence of ages is of an age or younger is finite.
LEMMA UptoFinite ==
  ASSUME NEW s \in Seq(Nat), NEW a
  PROVE  /\ IsFiniteSet(C!Upto(s, a)) /\ Cardinality(C!Upto(s, a)) \in Nat
         /\ C!Upto(s, a) \in SUBSET (1..Len(s))
<1>1. C!Upto(s, a) \in SUBSET (1..Len(s))
  BY DEF C!Upto
<1>2. IsFiniteSet(1..Len(s))
  BY FS_Interval
<1> QED
  BY <1>1, <1>2, FS_Subset, FS_CardinalityType

\* A request is as young as any, and one more.
LEMMA UptoAppend ==
  ASSUME NEW s \in Seq(Nat), NEW a \in Nat
  PROVE  Cardinality(C!Upto(Append(s, 0), a)) = Cardinality(C!Upto(s, a)) + 1
<1>1. C!Upto(Append(s, 0), a) = C!Upto(s, a) \cup {Len(s) + 1}
  <2>1. /\ DOMAIN Append(s, 0) = 1..(Len(s) + 1) /\ Len(s) \in Nat
        /\ Append(s, 0)[Len(s) + 1] = 0 /\ \A i \in 1..Len(s) : Append(s, 0)[i] = s[i]
    OBVIOUS
  <2>2. \A i \in 1..(Len(s) + 1) : i \in 1..Len(s) \/ i = Len(s) + 1
    BY <2>1
  <2> QED
    BY <2>1, <2>2 DEF C!Upto
<1>2. Len(s) + 1 \notin C!Upto(s, a)
  BY UptoFinite
<1> QED
  BY <1>1, <1>2, UptoFinite, FS_AddElement

\* The last slot opened is the youngest.
LEMMA UptoFront ==
  ASSUME NEW s \in Seq(Nat), s # <<>>, C!OldestFirst(s), NEW a \in Nat
  PROVE  /\ C!CloseNewest(s) \in Seq(Nat) /\ C!OldestFirst(C!CloseNewest(s))
         /\ \A S : s \in Seq(S) => C!CloseNewest(s) \in Seq(S)
         /\ C!Upto(s, a) = {} => C!Upto(C!CloseNewest(s), a) = {}
         /\ C!Upto(s, a) # {} =>
              Cardinality(C!Upto(C!CloseNewest(s), a)) = Cardinality(C!Upto(s, a)) - 1
<1> DEFINE n == Len(s)
           f == C!CloseNewest(s)
<1>1. n \in Nat /\ n > 0 /\ \A i \in 1..n : s[i] \in Nat
  OBVIOUS
<1>2. f = SubSeq(s, 1, n - 1)
  BY DEF C!CloseNewest, C!Front
<1>3. \A S : s \in Seq(S) => f \in Seq(S)
  <2> SUFFICES ASSUME NEW S, s \in Seq(S)  PROVE f \in Seq(S)
    OBVIOUS
  <2>1. \A i \in 1..(n - 1) : s[i] \in S
    BY <1>1
  <2> HIDE DEF f
  <2> QED
    BY <1>1, <1>2, <2>1
<1>4. DOMAIN f = 1..(n - 1) /\ \A i \in 1..(n - 1) : f[i] = s[i]
  <2> HIDE DEF f
  <2> QED
    BY <1>1, <1>2
<1> HIDE DEF f, n
<1>5. C!OldestFirst(f)
  <2>1. DOMAIN f \subseteq DOMAIN s
    BY <1>1, <1>4 DEF n
  <2> QED
    BY <1>4, <2>1 DEF C!OldestFirst
<1>6. C!Upto(f, a) = C!Upto(s, a) \ {n}
  <2>1. \A i \in 1..n : i \in 1..(n - 1) <=> i # n
    BY <1>1
  <2>2. DOMAIN s = 1..n
    BY DEF n
  <2>3. \A i \in 1..(n - 1) : i \in 1..n
    BY <1>1
  <2> QED
    BY <1>4, <2>1, <2>2, <2>3 DEF C!Upto
<1>7. ASSUME NEW i \in C!Upto(s, a)  PROVE n \in C!Upto(s, a)
  <2>1. i \in 1..n /\ n \in 1..n /\ DOMAIN s = 1..n /\ s[i] <= a
    BY <1>1 DEF C!Upto, n
  <2>2. s[n] <= s[i]
    BY <1>1, <2>1 DEF C!OldestFirst
  <2>3. s[n] <= a
    BY <1>1, <2>1, <2>2
  <2> QED
    BY <2>1, <2>3 DEF C!Upto
<1>8. C!Upto(s, a) # {} => Cardinality(C!Upto(f, a)) = Cardinality(C!Upto(s, a)) - 1
  BY <1>6, <1>7, UptoFinite, FS_RemoveElement
<1> QED
  BY <1>3, <1>5, <1>6, <1>8 DEF f

\* A line takes one request away.
LEMMA UptoRemoved ==
  ASSUME NEW S, NEW s \in Seq(S), S \subseteq Nat, NEW i \in DOMAIN s, NEW a
  PROVE  /\ C!RemoveAt(s, i) \in Seq(S)
         /\ Cardinality(C!Upto(s, a)) <= Cardinality(C!Upto(C!RemoveAt(s, i), a)) + 1
<1> DEFINE n == Len(s)
           r == C!RemoveAt(s, i)
           U == C!Upto(s, a) \ {i}
           f == [j \in U |-> IF j < i THEN j ELSE j - 1]
<1>1. n \in Nat /\ i \in 1..n /\ \A j \in 1..n : s[j] \in S
  OBVIOUS
<1>2. r = SubSeq(s, 1, i - 1) \o SubSeq(s, i + 1, n)
  BY DEF C!RemoveAt
<1>3. /\ SubSeq(s, 1, i - 1) \in Seq(S) /\ Len(SubSeq(s, 1, i - 1)) = i - 1
      /\ \A j \in 1..(i - 1) : SubSeq(s, 1, i - 1)[j] = s[j]
  BY <1>1
<1>4. /\ SubSeq(s, i + 1, n) \in Seq(S) /\ Len(SubSeq(s, i + 1, n)) = n - i
      /\ \A j \in 1..(n - i) : SubSeq(s, i + 1, n)[j] = s[i + j]
  BY <1>1
<1>5. /\ r \in Seq(S) /\ Len(r) = n - 1
      /\ \A j \in 1..(i - 1) : r[j] = s[j]
      /\ \A j \in i..(n - 1) : r[j] = s[j + 1]
  <2> DEFINE p1 == SubSeq(s, 1, i - 1)
             p2 == SubSeq(s, i + 1, n)
  <2>1. p1 \in Seq(S) /\ p2 \in Seq(S) /\ Len(p1) = i - 1 /\ Len(p2) = n - i /\ r = p1 \o p2
    BY <1>2, <1>3, <1>4
  <2> HIDE DEF p1, p2, r, n
  <2>2. r \in Seq(S) /\ Len(r) = n - 1
    BY <1>1, <2>1
  <2>3. \A j \in 1..(i - 1) : r[j] = p1[j]
    BY <1>1, <2>1
  <2>4. ASSUME NEW j \in i..(n - 1)  PROVE r[j] = s[j + 1]
    <3>1. r[j] = p2[j - (i - 1)] /\ j - (i - 1) \in 1..(n - i) /\ i + (j - (i - 1)) = j + 1
      BY <1>1, <2>1
    <3> QED
      BY <1>4, <3>1 DEF p2
  <2> QED
    BY <1>3, <2>2, <2>3, <2>4 DEF p1
<1> HIDE DEF r, n
<1>6. r \in Seq(Nat) /\ s \in Seq(Nat) /\ DOMAIN s = 1..n /\ DOMAIN r = 1..(n - 1)
  BY <1>5, SeqWithin DEF n
<1>7. f \in [U -> C!Upto(r, a)]
  <2> SUFFICES ASSUME NEW j \in U  PROVE (IF j < i THEN j ELSE j - 1) \in C!Upto(r, a)
    OBVIOUS
  <2>1. j \in 1..n /\ j # i /\ s[j] <= a
    BY <1>6 DEF C!Upto
  <2>2. CASE j < i
    <3>1. j \in 1..(i - 1) /\ j \in 1..(n - 1)
      BY <1>1, <2>1, <2>2
    <3> QED
      BY <1>5, <1>6, <2>1, <2>2, <3>1 DEF C!Upto
  <2>3. CASE ~(j < i)
    <3>1. j - 1 \in i..(n - 1) /\ j - 1 \in 1..(n - 1) /\ (j - 1) + 1 = j
      BY <1>1, <2>1, <2>3
    <3> QED
      BY <1>5, <1>6, <2>1, <2>3, <3>1 DEF C!Upto
  <2> QED
    BY <2>2, <2>3
<1>8. \A x, y \in U : f[x] = f[y] => x = y
  <2> SUFFICES ASSUME NEW x \in U, NEW y \in U, f[x] = f[y]  PROVE x = y
    OBVIOUS
  <2>1. x \in 1..n /\ y \in 1..n /\ x # i /\ y # i
    BY <1>6 DEF C!Upto
  <2> QED
    BY <1>1, <2>1
<1> HIDE DEF U, f
<1>9. Cardinality(U) <= Cardinality(C!Upto(r, a))
  BY <1>6, <1>7, <1>8, UptoFinite, Embedded
<1>10. Cardinality(C!Upto(s, a)) <= Cardinality(U) + 1 /\ Cardinality(U) \in Nat
  <2>1. IsFiniteSet(C!Upto(s, a)) /\ Cardinality(C!Upto(s, a)) \in Nat
    BY <1>6, UptoFinite
  <2>2. IsFiniteSet(U) /\ Cardinality(U) = IF i \in C!Upto(s, a) THEN Cardinality(C!Upto(s, a)) - 1
                                                                  ELSE Cardinality(C!Upto(s, a))
    BY <2>1, FS_RemoveElement DEF U
  <2> QED
    BY <2>1, <2>2, FS_CardinalityType
<1> QED
  BY <1>5, <1>6, <1>9, <1>10, UptoFinite DEF r

\* What is older by a tick was younger than that.
LEMMA UptoOlder ==
  ASSUME C!AdmissionAssumption, NEW s \in Seq(Ages), NEW a \in 0..MaxAge
  PROVE  LET o == [i \in DOMAIN s |-> C!Older(s[i], MaxAge + 1)]
         IN /\ o \in Seq(Ages)
            /\ C!OldestFirst(s) => C!OldestFirst(o)
            /\ C!Upto(o, a) = IF a = 0 THEN {} ELSE C!Upto(s, a - 1)
<1> DEFINE o == [i \in DOMAIN s |-> C!Older(s[i], MaxAge + 1)]
<1>1. MaxAge \in Nat /\ DOMAIN s = 1..Len(s) /\ Len(s) \in Nat /\ \A i \in DOMAIN s : s[i] \in 0..(MaxAge + 1)
  BY CeilingsGiven, SeqWithin DEF Ages
<1>2. \A i \in DOMAIN s : o[i] = IF s[i] + 1 < MaxAge + 1 THEN s[i] + 1 ELSE MaxAge + 1
  BY DEF C!Older, C!Least
<1>3. o \in Seq(Ages) /\ DOMAIN o = DOMAIN s
  <2>1. \A i \in 1..Len(s) : o[i] \in 0..(MaxAge + 1)
    BY <1>1, <1>2
  <2>2. o = [i \in 1..Len(s) |-> o[i]]
    BY <1>1
  <2> HIDE DEF o
  <2>3. o \in [1..Len(s) -> Ages]
    BY <2>1, <2>2 DEF Ages
  <2> QED
    BY <1>1, <2>3
<1> HIDE DEF o
<1>4. C!OldestFirst(s) => C!OldestFirst(o)
  BY <1>1, <1>2, <1>3 DEF C!OldestFirst
<1>5. C!Upto(o, a) = IF a = 0 THEN {} ELSE C!Upto(s, a - 1)
  BY <1>1, <1>2, <1>3 DEF C!Upto
<1> QED
  BY <1>3, <1>4, <1>5 DEF o

\* The slots that are aged out are the oldest, up to one that may still be open.
LEMMA PhantomsAre ==
  ASSUME NEW s \in Seq(Nat)
  PROVE  LET n == C!Phantoms(s)
         IN /\ n \in 0..Len(s) /\ \A i \in 1..n : ~C!Young(s[i])
            /\ n < Len(s) => C!Young(s[n + 1])
<1> DEFINE Found(n) == (\A i \in 1..n : ~C!Young(s[i])) /\ (n < Len(s) => C!Young(s[n + 1]))
<1>1. \E n \in 0..Len(s) : Found(n)
  <2> DEFINE S == {i \in 1..Len(s) : C!Young(s[i])}
  <2>1. CASE S = {}
    <3>1. Len(s) \in 0..Len(s) /\ Found(Len(s))
      BY <2>1
    <3> QED
      BY <3>1
  <2>2. CASE S # {}
    <3>1. PICK m \in S : \A i \in S : m <= i
      <4>1. S \in SUBSET Nat
        OBVIOUS
      <4> HIDE DEF S
      <4> QED
        BY <2>2, <4>1, LeastNatural
    <3>2. m - 1 \in 0..Len(s) /\ (m - 1) + 1 = m
      OBVIOUS
    <3>3. \A i \in 1..(m - 1) : i \in 1..Len(s) /\ ~(m <= i)
      OBVIOUS
    <3>4. Found(m - 1)
      BY <3>1, <3>2, <3>3
    <3> QED
      BY <3>2, <3>4
  <2> QED
    BY <2>1, <2>2
<1>2. C!Phantoms(s) = CHOOSE n \in 0..Len(s) : Found(n)
  BY DEF C!Phantoms
<1>3. C!Phantoms(s) \in 0..Len(s) /\ Found(C!Phantoms(s))
  <2> HIDE DEF Found
  <2> QED
    BY <1>1, <1>2
<1> QED
  BY <1>3

\* A stream that is counted keeps its slots that may be open, in their order.
LEMMA CountedSlots ==
  ASSUME C!AdmissionAssumption, NEW S, S \subseteq Nat, NEW s \in Seq(S), C!OldestFirst(s)
  PROVE  LET c == SubSeq(s, C!Phantoms(s) + 1, Len(s))
         IN /\ c \in Seq(S) /\ C!OldestFirst(c) /\ \A i \in DOMAIN c : C!Young(c[i])
            /\ \A a \in 0..MaxAge : Cardinality(C!Upto(c, a)) <= Cardinality(C!Upto(s, a))
<1> DEFINE n == C!Phantoms(s)
           c == SubSeq(s, n + 1, Len(s))
<1>1. s \in Seq(Nat) /\ Len(s) \in Nat /\ DOMAIN s = 1..Len(s) /\ \A i \in 1..Len(s) : s[i] \in S /\ s[i] \in Nat
  BY SeqWithin
<1>2. n \in 0..Len(s) /\ (n < Len(s) => C!Young(s[n + 1])) /\ MaxAge \in Nat
  BY <1>1, PhantomsAre, CeilingsGiven
<1> HIDE DEF n
<1>3. c \in Seq(S) /\ Len(c) = Len(s) - n /\ \A i \in 1..(Len(s) - n) : c[i] = s[n + i]
  <2> DEFINE m == Len(s)
  <2>1. n + 1 \in Int /\ m \in Int /\ n \in 0..m /\ \A i \in (n + 1)..m : s[i] \in S
    BY <1>1, <1>2
  <2> HIDE DEF m
  <2>2. /\ SubSeq(s, n + 1, m) \in Seq(S)
        /\ Len(SubSeq(s, n + 1, m)) = IF n + 1 <= m THEN m - (n + 1) + 1 ELSE 0
        /\ \A i \in 1..(m - (n + 1) + 1) : SubSeq(s, n + 1, m)[i] = s[(n + 1) + i - 1]
    BY <2>1, SubSeqProperties
  <2>3. /\ (IF n + 1 <= m THEN m - (n + 1) + 1 ELSE 0) = m - n /\ m - (n + 1) + 1 = m - n
        /\ \A i \in 1..(m - n) : (n + 1) + i - 1 = n + i
    BY <2>1
  <2> QED
    BY <2>2, <2>3 DEF m
<1> HIDE DEF c
<1>4. DOMAIN c = 1..(Len(s) - n) /\ \A i \in DOMAIN c : n + i \in 1..Len(s)
  BY <1>1, <1>2, <1>3
<1>5. C!OldestFirst(c)
  <2> SUFFICES ASSUME NEW i \in DOMAIN c, NEW j \in DOMAIN c, i < j
               PROVE  c[i] >= c[j]
    BY DEF C!OldestFirst
  <2>1. n + i \in DOMAIN s /\ n + j \in DOMAIN s /\ n + i < n + j
    BY <1>1, <1>2, <1>4
  <2> QED
    BY <1>3, <1>4, <2>1 DEF C!OldestFirst
<1>6. ASSUME NEW i \in DOMAIN c  PROVE C!Young(c[i])
  <2>1. n + i \in DOMAIN s /\ n + 1 \in DOMAIN s /\ n < Len(s) /\ n + 1 <= n + i
    BY <1>1, <1>2, <1>4
  <2>2. s[n + 1] >= s[n + i]
    BY <1>1, <1>2, <2>1 DEF C!OldestFirst
  <2>3. s[n + i] <= MaxAge
    BY <1>1, <1>2, <2>1, <2>2 DEF C!Young
  <2> QED
    BY <1>3, <1>4, <2>3 DEF C!Young
<1>7. ASSUME NEW a \in 0..MaxAge  PROVE Cardinality(C!Upto(c, a)) <= Cardinality(C!Upto(s, a))
  <2> DEFINE U == C!Upto(c, a)
             f == [i \in U |-> n + i]
  <2>1. f \in [U -> C!Upto(s, a)]
    BY <1>1, <1>3, <1>4 DEF C!Upto
  <2>2. \A x, y \in U : f[x] = f[y] => x = y
    BY <1>2, <1>4 DEF C!Upto
  <2> HIDE DEF U, f
  <2> QED
    BY <1>1, <2>1, <2>2, UptoFinite, Embedded DEF U
<1> QED
  BY <1>3, <1>5, <1>6, <1>7 DEF c, n

---------------------------------------------------------------------------
(* Admission: the tables.                                                  *)

\* A stream of requests, of which those that may be in flight have no line yet.
Stream(f, p) ==
  /\ f \in [opens : Seq(Ages), lastOpen : 0..(Idle + 1), lastClose : 0..(Idle + 1), dead : BOOLEAN]
  /\ C!OldestFirst(f.opens)
  /\ \A a \in 0..MaxAge : Cardinality(C!Upto(f.opens, a)) <= Cardinality(C!Upto(p, a))

\* A bucket, and what it lacks.
Bucket == [tokens : 0..Rps, age : 0..(Idle + 1)]
Filled(b) == C!Least(b.tokens + Earn * b.age, Rps)

\* The buckets of a table: within the cap, each zone charged for its own, and what is spent.
BucketsSane(t, sp) ==
  /\ DOMAIN t.buckets \subseteq C!Key /\ IsFiniteSet(DOMAIN t.buckets) /\ Cardinality(DOMAIN t.buckets) <= MaxSources
  /\ \A k \in DOMAIN t.buckets : t.buckets[k] \in Bucket
  /\ t.perZone \in [Zone -> Nat]
  /\ \A z \in Zone : t.perZone[z] = Cardinality({k \in DOMAIN t.buckets : C!ZoneOf(k) = z})
  /\ \A k \in C!Key : /\ sp[k] \in Nat
                      /\ k \in DOMAIN t.buckets => sp[k] + Filled(t.buckets[k]) <= Rps
                      /\ k \notin DOMAIN t.buckets \/ C!ZoneOf(k) \notin zones => sp[k] = 0

\* Its streams.
StreamsSane(t, pe) ==
  /\ pe \in [C!Key -> Seq(Ages)]
  /\ DOMAIN t.inflight \subseteq C!Key /\ IsFiniteSet(DOMAIN t.inflight) /\ Cardinality(DOMAIN t.inflight) <= MaxSources
  /\ \A k \in DOMAIN t.inflight : Stream(t.inflight[k], pe[k])

\* The invariant of a table, of what is spent and of the requests without a line.
Sane(t, sp, pe) ==
  /\ t = [buckets |-> t.buckets, perZone |-> t.perZone, inflight |-> t.inflight, swept |-> t.swept]
  /\ t.swept \in 0..SweepEvery
  /\ BucketsSane(t, sp) /\ StreamsSane(t, pe)

\* What is filled is a number within the rate, and a bucket nobody uses is full.
LEMMA FilledIs ==
  ASSUME C!AdmissionAssumption, NEW b \in Bucket
  PROVE  /\ Filled(b) \in 0..Rps /\ Filled(b) >= b.tokens
         /\ C!Stale(b.age) => Filled(b) = Rps
<1>1. b.tokens \in 0..Rps /\ b.age \in 0..(Idle + 1) /\ Earn \in Nat /\ Rps \in Nat /\ Idle \in Nat /\ Idle * Earn >= Rps
  BY CeilingsGiven DEF Bucket
<1>2. Earn * b.age \in Nat
  BY <1>1
<1>3. C!Stale(b.age) => Earn * b.age >= Rps
  <2> SUFFICES ASSUME b.age > Idle  PROVE Earn * b.age >= Rps
    BY DEF C!Stale
  <2>1. b.age = Idle + 1
    BY <1>1
  <2>2. Earn * (Idle + 1) = Idle * Earn + Earn
    BY <1>1
  <2>3. Idle * Earn \in Nat
    BY <1>1
  <2> QED
    BY <1>1, <2>1, <2>2, <2>3
<1> DEFINE e == Earn * b.age
<1> HIDE DEF e
<1>4. e \in Nat /\ (C!Stale(b.age) => e >= Rps) /\ Filled(b) = IF b.tokens + e < Rps THEN b.tokens + e ELSE Rps
  BY <1>2, <1>3 DEF e, Filled, C!Least
<1> QED
  BY <1>1, <1>4

\* Sweeping throws away what is full, or its zone's.
LEMMA SweepSane ==
  ASSUME C!AdmissionAssumption, NEW t, NEW sp, NEW pe, Sane(t, sp, pe)
  PROVE  Sane(C!Sweep(t), sp, pe)
<1> DEFINE B == DOMAIN t.buckets
           F == DOMAIN t.inflight
           gone == {k \in B : C!ZoneOf(k) \notin zones \/ C!Stale(t.buckets[k].age)}
           idle == {k \in F : C!ZoneOf(k) \notin zones \/ t.inflight[k].lastOpen > Idle}
           Of(z, S) == {k \in S : C!ZoneOf(k) = z}
           u == C!Sweep(t)
<1>1. u = [ buckets |-> [k \in B \ gone |-> t.buckets[k]],
            perZone |-> [z \in Zone |-> t.perZone[z] - Cardinality(Of(z, gone))],
            inflight |-> [k \in F \ idle |-> t.inflight[k]],
            swept |-> 0 ]
  BY CeilingsCounted DEF C!Sweep, C!Without
<1> HIDE DEF u
<1>2. /\ u.buckets = [k \in B \ gone |-> t.buckets[k]] /\ u.inflight = [k \in F \ idle |-> t.inflight[k]]
      /\ u.perZone = [z \in Zone |-> t.perZone[z] - Cardinality(Of(z, gone))] /\ u.swept = 0
      /\ u = [buckets |-> u.buckets, perZone |-> u.perZone, inflight |-> u.inflight, swept |-> u.swept]
  BY <1>1
<1>3. /\ B \subseteq C!Key /\ IsFiniteSet(B) /\ Cardinality(B) <= MaxSources
      /\ \A k \in B : t.buckets[k] \in Bucket
      /\ \A z \in Zone : t.perZone[z] = Cardinality(Of(z, B))
      /\ \A k \in C!Key : /\ sp[k] \in Nat
                          /\ k \in B => sp[k] + Filled(t.buckets[k]) <= Rps
                          /\ k \notin B \/ C!ZoneOf(k) \notin zones => sp[k] = 0
  BY DEF Sane, BucketsSane
<1>4. \A k \in gone : sp[k] = 0
  <2> SUFFICES ASSUME NEW k \in gone  PROVE sp[k] = 0
    OBVIOUS
  <2>1. k \in B /\ k \in C!Key
    BY <1>3
  <2>2. CASE C!ZoneOf(k) \notin zones
    BY <1>3, <2>1, <2>2
  <2>3. CASE C!Stale(t.buckets[k].age)
    <3>1. Filled(t.buckets[k]) = Rps /\ Rps \in Nat
      BY <1>3, <2>1, <2>3, FilledIs, CeilingsGiven
    <3> QED
      BY <1>3, <2>1, <3>1
  <2> QED
    BY <2>2, <2>3
<1>5. ASSUME NEW z \in Zone
      PROVE  /\ u.perZone[z] \in Nat
             /\ u.perZone[z] = Cardinality({k \in DOMAIN u.buckets : C!ZoneOf(k) = z})
  <2> DEFINE P == {k \in gone : C!ZoneOf(k) = z}
             Q == {k \in B \ gone : C!ZoneOf(k) = z}
             R == {k \in B : C!ZoneOf(k) = z}
  <2>1. R = P \cup Q /\ P \cap Q = {} /\ R \subseteq B
    OBVIOUS
  <2>2. {k \in DOMAIN u.buckets : C!ZoneOf(k) = z} = Q
    BY <1>2
  <2>3. u.perZone[z] = Cardinality(R) - Cardinality(P)
    BY <1>2, <1>3
  <2> HIDE DEF P, Q, R, B, gone, Of
  <2>4. IsFiniteSet(R) /\ IsFiniteSet(P) /\ IsFiniteSet(Q)
    BY <1>3, <2>1, FS_Subset
  <2>5. Cardinality(P) \in Nat /\ Cardinality(Q) \in Nat /\ Cardinality({}) = 0
    BY <2>4, FS_CardinalityType, FS_EmptySet
  <2>6. Cardinality(P \cup Q) = Cardinality(P) + Cardinality(Q) - Cardinality(P \cap Q)
    BY <2>4, FS_Union
  <2>7. Cardinality(R) = Cardinality(P \cup Q) /\ Cardinality(P \cap Q) = Cardinality({})
    BY <2>1, Zenon
  <2>8. Cardinality(R) - Cardinality(P) = Cardinality(Q)
    BY <2>5, <2>6, <2>7
  <2>9. u.perZone[z] = Cardinality(Q)
    BY <2>3, <2>8
  <2> QED
    BY <2>2, <2>5, <2>9, Zenon
<1>6. IsFiniteSet(B \ gone) /\ Cardinality(B \ gone) <= MaxSources
  <2>1. B \ gone \subseteq B
    OBVIOUS
  <2> HIDE DEF B, gone
  <2>2. IsFiniteSet(B \ gone) /\ Cardinality(B \ gone) <= Cardinality(B)
    BY <1>3, <2>1, FS_Subset
  <2>3. Cardinality(B \ gone) \in Nat /\ Cardinality(B) \in Nat /\ MaxSources \in Nat
    BY <1>3, <2>2, FS_CardinalityType, CeilingsGiven
  <2> QED
    BY <1>3, <2>2, <2>3
<1>7. BucketsSane(u, sp)
  <2>1. DOMAIN u.buckets = B \ gone /\ \A k \in B \ gone : u.buckets[k] = t.buckets[k]
    BY <1>2
  <2>2. u.perZone \in [Zone -> Nat]
    BY <1>2, <1>5
  <2> HIDE DEF B, gone
  <2> QED
    BY <1>3, <1>4, <1>5, <1>6, <2>1, <2>2 DEF BucketsSane
<1>8. StreamsSane(u, pe)
  <2>1. /\ pe \in [C!Key -> Seq(Ages)]
        /\ F \subseteq C!Key /\ IsFiniteSet(F) /\ Cardinality(F) <= MaxSources /\ \A k \in F : Stream(t.inflight[k], pe[k])
    BY DEF Sane, StreamsSane
  <2>2. DOMAIN u.inflight = F \ idle /\ \A k \in F \ idle : u.inflight[k] = t.inflight[k]
    BY <1>2
  <2> HIDE DEF F, idle
  <2>3. IsFiniteSet(F \ idle) /\ Cardinality(F \ idle) <= Cardinality(F)
    BY <2>1, FS_Subset
  <2>4. Cardinality(F \ idle) \in Nat /\ Cardinality(F) \in Nat /\ MaxSources \in Nat
    BY <2>1, <2>3, FS_CardinalityType, CeilingsGiven
  <2>5. Cardinality(F \ idle) <= MaxSources
    BY <2>1, <2>3, <2>4
  <2> QED
    BY <2>1, <2>2, <2>3, <2>5 DEF StreamsSane
<1>9. u.swept \in 0..SweepEvery
  BY <1>2, CeilingsGiven
<1> QED
  BY <1>2, <1>7, <1>8, <1>9 DEF Sane, u

\* A paced sweep is a sweep or nothing.
LEMMA PacedSane ==
  ASSUME C!AdmissionAssumption, NEW t, NEW sp, NEW pe, Sane(t, sp, pe)
  PROVE  /\ \A every : Sane(C!Paced(t, every), sp, pe)
         /\ \A k : Sane(C!Room(t, k), sp, pe)
  BY SweepSane DEF C!Paced, C!Room

\* Taking a token spends it, from a bucket that has it.
LEMMA TakeSane ==
  ASSUME C!AdmissionAssumption, NEW t0, NEW sp, NEW pe, Sane(t0, sp, pe), sp \in [C!Key -> Nat],
         NEW k \in C!Key, C!ZoneOf(k) \in zones, C!ZoneOf(k) \in Zone
  PROVE  Sane(C!Take(t0, k).tables, [sp EXCEPT ![k] = IF C!Take(t0, k).result = "allowed" THEN @ + 1 ELSE @], pe)
<1> DEFINE t == C!Room(t0, k)
           new == k \notin DOMAIN t.buckets
           b == C!Refilled(t, k)
           v == [b EXCEPT !.tokens = IF @ >= 1 THEN @ - 1 ELSE @]
           f == [x \in DOMAIN t.buckets \cup {k} |-> IF x = k THEN v ELSE t.buckets[x]]
           u == [t EXCEPT !.buckets = f, !.perZone[C!ZoneOf(k)] = IF new THEN @ + 1 ELSE @]
           full == C!BucketsFull(t, C!ZoneOf(k))
           result == C!Take(t0, k).result
           sq == [sp EXCEPT ![k] = IF result = "allowed" THEN @ + 1 ELSE @]
<1>1. /\ C!Take(t0, k).tables = IF new /\ full THEN t ELSE u
      /\ result = IF new /\ full THEN "untracked" ELSE IF b.tokens >= 1 THEN "allowed" ELSE "denied"
  BY DEF C!Take, C!With
<1>2. Sane(t, sp, pe)
  BY PacedSane
<1>3. CASE new /\ full
  <2>1. sq = sp
    BY <1>1, <1>3
  <2> QED
    BY <1>1, <1>2, <1>3, <2>1
<1>4. CASE ~(new /\ full)
  <2> DEFINE B == DOMAIN t.buckets
             z0 == C!ZoneOf(k)
             Of(z, S) == {x \in S : C!ZoneOf(x) = z}
  <2>1. /\ B \subseteq C!Key /\ IsFiniteSet(B) /\ Cardinality(B) <= MaxSources
        /\ \A x \in B : t.buckets[x] \in Bucket
        /\ t.perZone \in [Zone -> Nat]
        /\ \A z \in Zone : t.perZone[z] = Cardinality(Of(z, B))
        /\ \A x \in C!Key : /\ sp[x] \in Nat
                            /\ x \in B => sp[x] + Filled(t.buckets[x]) <= Rps
                            /\ x \notin B \/ C!ZoneOf(x) \notin zones => sp[x] = 0
    BY <1>2 DEF Sane, BucketsSane
  <2>2. /\ t = [buckets |-> t.buckets, perZone |-> t.perZone, inflight |-> t.inflight, swept |-> t.swept]
        /\ t.swept \in 0..SweepEvery /\ StreamsSane(t, pe)
    BY <1>2 DEF Sane
  <2>3. b = [tokens |-> IF new THEN Rps ELSE Filled(t.buckets[k]), age |-> 0]
    BY DEF C!Refilled, Filled
  <2>4. b.tokens \in 0..Rps /\ sp[k] \in Nat /\ sp[k] + b.tokens <= Rps /\ Rps \in Nat \ {0} /\ b.age = 0
        /\ Earn \in Nat /\ Idle \in Nat
    <3>1. CASE new
      BY <2>1, <2>3, <3>1, CeilingsGiven
    <3>2. CASE ~new
      <4>1. Filled(t.buckets[k]) \in 0..Rps /\ Rps \in Nat \ {0} /\ Earn \in Nat /\ Idle \in Nat
        BY <2>1, <3>2, FilledIs, CeilingsGiven
      <4> QED
        BY <2>1, <2>3, <3>2, <4>1
    <3> QED
      BY <3>1, <3>2
  <2>5. v = [tokens |-> IF b.tokens >= 1 THEN b.tokens - 1 ELSE b.tokens, age |-> 0]
    BY <2>3
  <2> HIDE DEF t
  <2>6. u = [ buckets |-> f, perZone |-> [t.perZone EXCEPT ![z0] = IF new THEN @ + 1 ELSE @],
              inflight |-> t.inflight, swept |-> t.swept ]
    <3> HIDE DEF f, new
    <3>1. u = [t EXCEPT !.buckets = f, !.perZone[z0] = IF new THEN @ + 1 ELSE @]
      OBVIOUS
    <3> HIDE DEF u
    <3> QED
      BY <2>2, <3>1
  <2> HIDE DEF b, u, result
  <2>7. v \in Bucket /\ Filled(v) = v.tokens
    BY <2>4, <2>5 DEF Bucket, Filled, C!Least
  <2>8. sq \in [C!Key -> Nat] /\ sq[k] + Filled(v) <= Rps /\ \A x \in C!Key \ {k} : sq[x] = sp[x]
    <3>1. result = IF b.tokens >= 1 THEN "allowed" ELSE "denied"
      BY <1>1, <1>4
    <3>2. sq[k] = IF b.tokens >= 1 THEN sp[k] + 1 ELSE sp[k]
      BY <3>1
    <3>3. sq \in [C!Key -> Nat] /\ \A x \in C!Key \ {k} : sq[x] = sp[x]
      BY <2>4, <3>2
    <3> QED
      BY <2>4, <2>5, <2>7, <3>2, <3>3
  <2> HIDE DEF v, sq
  <2>9. DOMAIN f = B \cup {k} /\ f[k] = v /\ \A x \in B \ {k} : f[x] = t.buckets[x]
    OBVIOUS
  <2> HIDE DEF f
  <2>10. ~new => Cardinality(B \cup {k}) = Cardinality(B)
    <3>1. ~new => B \cup {k} = B
      OBVIOUS
    <3> QED
      BY <3>1
  <2>11. IsFiniteSet(B \cup {k}) /\ Cardinality(B \cup {k}) <= MaxSources
    <3>1. IsFiniteSet(B \cup {k}) /\ Cardinality(B \cup {k}) = (IF k \in B THEN Cardinality(B) ELSE Cardinality(B) + 1)
      BY <2>1, FS_AddElement
    <3>2. new => Cardinality(B) < MaxSources
      <4>1. Cardinality(B) \in Nat /\ MaxSources \in Nat
        BY <2>1, FS_CardinalityType, CeilingsGiven
      <4>2. new => ~(Cardinality(B) >= MaxSources)
        BY <1>4, CeilingsCounted DEF C!BucketsFull
      <4> QED
        BY <4>1, <4>2
    <3>3. Cardinality(B) \in Nat /\ MaxSources \in Nat
      BY <2>1, FS_CardinalityType, CeilingsGiven
    <3> QED
      BY <2>1, <3>1, <3>2, <3>3
  <2>12. ASSUME NEW z \in Zone
         PROVE  u.perZone[z] \in Nat /\ u.perZone[z] = Cardinality(Of(z, B \cup {k}))
    <3>1. IsFiniteSet(Of(z, B)) /\ Cardinality(Of(z, B)) \in Nat /\ t.perZone[z] = Cardinality(Of(z, B))
      <4>1. Of(z, B) \subseteq B
        OBVIOUS
      <4> QED
        BY <2>1, <4>1, FS_Subset, FS_CardinalityType
    <3>2. u.perZone[z] = IF z = z0 /\ new THEN t.perZone[z] + 1 ELSE t.perZone[z]
      BY <2>1, <2>6
    <3>3. CASE z = z0 /\ new
      <4> DEFINE P == Of(z, B)
      <4>1. Of(z, B \cup {k}) = P \cup {k} /\ k \notin P
        BY <3>3
      <4>2. IsFiniteSet(P) /\ Cardinality(P) \in Nat /\ t.perZone[z] = Cardinality(P)
        BY <3>1
      <4> HIDE DEF P
      <4>3. Cardinality(P \cup {k}) = Cardinality(P) + 1
        BY <4>1, <4>2, FS_AddElement
      <4>4. Cardinality(Of(z, B \cup {k})) = Cardinality(P \cup {k})
        BY <4>1, Zenon
      <4>5. u.perZone[z] = Cardinality(P) + 1 /\ Cardinality(P) + 1 \in Nat
        BY <3>2, <3>3, <4>2
      <4> QED
        BY <4>3, <4>4, <4>5
    <3>4. CASE ~(z = z0 /\ new)
      <4>1. Of(z, B \cup {k}) = Of(z, B)
        BY <3>4
      <4> QED
        BY <3>1, <3>2, <3>4, <4>1
    <3> QED
      BY <3>3, <3>4
  <2>13. u.perZone \in [Zone -> Nat]
    BY <2>1, <2>6, <2>12
  <2>14. u.buckets = f /\ u.inflight = t.inflight /\ u.swept = t.swept
         /\ u = [buckets |-> u.buckets, perZone |-> u.perZone, inflight |-> u.inflight, swept |-> u.swept]
    BY <2>6
  <2>15. BucketsSane(u, sq)
    <3>1. B \cup {k} \subseteq C!Key /\ \A x \in B \cup {k} : f[x] \in Bucket
      BY <2>1, <2>7, <2>9
    <3>2. \A x \in C!Key : /\ sq[x] \in Nat
                           /\ x \in B \cup {k} => sq[x] + Filled(f[x]) <= Rps
                           /\ x \notin B \cup {k} \/ C!ZoneOf(x) \notin zones => sq[x] = 0
      <4> SUFFICES ASSUME NEW x \in C!Key
                   PROVE  /\ sq[x] \in Nat
                          /\ x \in B \cup {k} => sq[x] + Filled(f[x]) <= Rps
                          /\ x \notin B \cup {k} \/ C!ZoneOf(x) \notin zones => sq[x] = 0
        OBVIOUS
      <4>1. CASE x = k
        BY <2>8, <2>9, <4>1
      <4>2. CASE x # k
        BY <2>1, <2>8, <2>9, <4>2
      <4> QED
        BY <4>1, <4>2
    <3> HIDE DEF B
    <3> QED
      BY <2>9, <2>11, <2>12, <2>13, <2>14, <3>1, <3>2 DEF BucketsSane
  <2>16. StreamsSane(u, pe) /\ u.swept \in 0..SweepEvery
    BY <2>2, <2>14 DEF StreamsSane
  <2>17. Sane(u, sq, pe)
    BY <2>14, <2>15, <2>16 DEF Sane
  <2> QED
    BY <1>1, <1>4, <2>17 DEF sq, u, t, result
<1> QED
  BY <1>3, <1>4

\* Put in the table, a stream that is within its own requests leaves the table sane.
LEMMA StreamPut ==
  ASSUME C!AdmissionAssumption, NEW t, NEW sp, NEW pe, Sane(t, sp, pe), NEW k \in C!Key,
         NEW p \in Seq(Ages), NEW g, Stream(g, p),
         k \in DOMAIN t.inflight \/ Cardinality(DOMAIN t.inflight) < MaxSources
  PROVE  Sane([ buckets |-> t.buckets, perZone |-> t.perZone, swept |-> t.swept,
                inflight |-> [x \in DOMAIN t.inflight \cup {k} |-> IF x = k THEN g ELSE t.inflight[x]] ],
              sp, [pe EXCEPT ![k] = p])
<1> DEFINE F == DOMAIN t.inflight
           f == [x \in F \cup {k} |-> IF x = k THEN g ELSE t.inflight[x]]
           u == [buckets |-> t.buckets, perZone |-> t.perZone, swept |-> t.swept, inflight |-> f]
           q == [pe EXCEPT ![k] = p]
<1>1. /\ pe \in [C!Key -> Seq(Ages)] /\ F \subseteq C!Key /\ IsFiniteSet(F) /\ Cardinality(F) <= MaxSources
      /\ \A x \in F : Stream(t.inflight[x], pe[x])
      /\ t.swept \in 0..SweepEvery /\ BucketsSane(t, sp)
  BY DEF Sane, StreamsSane
<1>2. /\ u.buckets = t.buckets /\ u.perZone = t.perZone /\ u.swept = t.swept /\ u.inflight = f
      /\ u = [buckets |-> u.buckets, perZone |-> u.perZone, inflight |-> u.inflight, swept |-> u.swept]
  OBVIOUS
<1>3. DOMAIN f = F \cup {k} /\ f[k] = g /\ \A x \in F \ {k} : f[x] = t.inflight[x]
  OBVIOUS
<1>4. q \in [C!Key -> Seq(Ages)] /\ q[k] = p /\ \A x \in F \ {k} : q[x] = pe[x]
  BY <1>1
<1> HIDE DEF u, f, q
<1>5. IsFiniteSet(F \cup {k}) /\ Cardinality(F \cup {k}) <= MaxSources
  <2>1. Cardinality(F) \in Nat /\ MaxSources \in Nat
    BY <1>1, FS_CardinalityType, CeilingsGiven
  <2>2. IsFiniteSet(F \cup {k}) /\ Cardinality(F \cup {k}) = (IF k \in F THEN Cardinality(F) ELSE Cardinality(F) + 1)
    BY <1>1, FS_AddElement
  <2> QED
    BY <1>1, <2>1, <2>2
<1>6. StreamsSane(u, q)
  <2> HIDE DEF F
  <2>1. \A x \in F \cup {k} : Stream(f[x], q[x])
    BY <1>1, <1>3, <1>4
  <2> QED
    BY <1>1, <1>2, <1>3, <1>4, <1>5, <2>1 DEF StreamsSane
<1>7. BucketsSane(u, sp)
  BY <1>1, <1>2 DEF BucketsSane
<1>8. Sane(u, sp, q)
  BY <1>1, <1>2, <1>6, <1>7 DEF Sane
<1> QED
  BY <1>8 DEF u, f, q

\* Counting the slots ages some out.
LEMMA ConsultedSane ==
  ASSUME C!AdmissionAssumption, NEW t, NEW sp, NEW pe, Sane(t, sp, pe), NEW k
  PROVE  Sane(C!Consulted(t, k), sp, pe)
<1> SUFFICES ASSUME k \in DOMAIN t.inflight
             PROVE  Sane([t EXCEPT !.inflight[k] = C!Counted(@)], sp, pe)
  BY DEF C!Consulted
<1> DEFINE f == t.inflight[k]
           p == pe[k]
           c == SubSeq(f.opens, C!Phantoms(f.opens) + 1, Len(f.opens))
           g == [f EXCEPT !.opens = c]
           u == [t EXCEPT !.inflight[k] = C!Counted(@)]
<1>1. Stream(f, p) /\ p \in Seq(Ages) /\ k \in C!Key /\ [pe EXCEPT ![k] = p] = pe
  BY DEF Sane, StreamsSane
<1>2. f.opens \in Seq(Ages) /\ C!OldestFirst(f.opens) /\ Ages \subseteq Nat
  BY <1>1, AgesAre DEF Stream
<1>3. /\ c \in Seq(Ages) /\ C!OldestFirst(c)
      /\ \A a \in 0..MaxAge : Cardinality(C!Upto(c, a)) <= Cardinality(C!Upto(f.opens, a))
  <2> DEFINE o == f.opens
  <2>1. o \in Seq(Ages) /\ C!OldestFirst(o)
    BY <1>2
  <2> HIDE DEF o
  <2>2. LET d == SubSeq(o, C!Phantoms(o) + 1, Len(o))
        IN /\ d \in Seq(Ages) /\ C!OldestFirst(d)
           /\ \A a \in 0..MaxAge : Cardinality(C!Upto(d, a)) <= Cardinality(C!Upto(o, a))
    BY <1>2, <2>1, CountedSlots
  <2> QED
    BY <2>2 DEF o
<1>4. u = [ buckets |-> t.buckets, perZone |-> t.perZone, swept |-> t.swept,
            inflight |-> [x \in DOMAIN t.inflight \cup {k} |-> IF x = k THEN g ELSE t.inflight[x]] ]
  <2>1. C!Counted(f) = g
    BY DEF C!Counted
  <2>2. t = [buckets |-> t.buckets, perZone |-> t.perZone, inflight |-> t.inflight, swept |-> t.swept]
    BY DEF Sane
  <2>3. u = [ buckets |-> t.buckets, perZone |-> t.perZone, swept |-> t.swept,
              inflight |-> [t.inflight EXCEPT ![k] = C!Counted(f)] ]
    BY <2>2
  <2>4. DOMAIN t.inflight \cup {k} = DOMAIN t.inflight
    OBVIOUS
  <2> HIDE DEF g, f, u
  <2> QED
    BY <2>1, <2>3, <2>4
<1> HIDE DEF c
<1>5. Stream(g, p)
  <2>1. g.opens = c /\ g \in [opens : Seq(Ages), lastOpen : 0..(Idle + 1), lastClose : 0..(Idle + 1), dead : BOOLEAN]
    BY <1>1, <1>3 DEF Stream
  <2>2. ASSUME NEW a \in 0..MaxAge
        PROVE  Cardinality(C!Upto(c, a)) <= Cardinality(C!Upto(p, a))
    <3>1. Cardinality(C!Upto(c, a)) <= Cardinality(C!Upto(f.opens, a))
      BY <1>3
    <3>2. Cardinality(C!Upto(f.opens, a)) <= Cardinality(C!Upto(p, a))
      BY <1>1 DEF Stream
    <3>3. Cardinality(C!Upto(c, a)) \in Nat /\ Cardinality(C!Upto(f.opens, a)) \in Nat /\ Cardinality(C!Upto(p, a)) \in Nat
      <4>1. c \in Seq(Nat) /\ f.opens \in Seq(Nat) /\ p \in Seq(Nat)
        BY <1>1, <1>2, <1>3, AgesAre
      <4> QED
        BY <4>1, UptoFinite
    <3> QED
      BY <3>1, <3>2, <3>3
  <2> HIDE DEF g
  <2> QED
    BY <1>3, <2>1, <2>2 DEF Stream
<1> HIDE DEF g, p, u
<1>6. Sane([ buckets |-> t.buckets, perZone |-> t.perZone, swept |-> t.swept,
             inflight |-> [x \in DOMAIN t.inflight \cup {k} |-> IF x = k THEN g ELSE t.inflight[x]] ],
           sp, [pe EXCEPT ![k] = p])
  <2>1. k \in C!Key /\ p \in Seq(Ages) /\ (k \in DOMAIN t.inflight \/ Cardinality(DOMAIN t.inflight) < MaxSources)
    BY <1>1
  <2> QED
    BY <1>5, <2>1, StreamPut
<1>7. Sane(u, sp, pe)
  BY <1>1, <1>4, <1>6
<1> QED
  BY <1>7 DEF u

\* A slot is opened for every request.
LEMMA StreamOpened ==
  ASSUME C!AdmissionAssumption, NEW p \in Seq(Ages), NEW f, Stream(f, p)
  PROVE  Stream(C!Opened(f), Append(p, 0)) /\ Append(p, 0) \in Seq(Ages)
<1> DEFINE o == IF C!Silent(f) THEN <<>> ELSE f.opens
           d == IF C!Silent(f) THEN TRUE ELSE f.dead
           n == Append(o, 0)
<1>1. f \in [opens : Seq(Ages), lastOpen : 0..(Idle + 1), lastClose : 0..(Idle + 1), dead : BOOLEAN]
      /\ 0 \in Ages /\ 0 \in 0..(Idle + 1) /\ Ages \subseteq Nat
  BY CeilingsGiven, AgesAre DEF Stream
<1>2. C!Opened(f) = [opens |-> n, lastOpen |-> 0, lastClose |-> f.lastClose, dead |-> d]
  <2>1. CASE C!Silent(f)
    <3>1. C!Opened(f) = [[f EXCEPT !.opens = <<>>, !.dead = TRUE] EXCEPT !.opens = Append(@, 0), !.lastOpen = 0]
      BY <2>1 DEF C!Opened
    <3>2. f = [opens |-> f.opens, lastOpen |-> f.lastOpen, lastClose |-> f.lastClose, dead |-> f.dead]
      BY <1>1
    <3>3. [f EXCEPT !.opens = <<>>, !.dead = TRUE] = [opens |-> <<>>, lastOpen |-> f.lastOpen, lastClose |-> f.lastClose, dead |-> TRUE]
      <4> DEFINE e == [f EXCEPT !.opens = <<>>, !.dead = TRUE]
                 r == [opens |-> <<>>, lastOpen |-> f.lastOpen, lastClose |-> f.lastClose, dead |-> TRUE]
      <4>1. DOMAIN f = {"opens", "lastOpen", "lastClose", "dead"}
        BY <3>2
      <4>2. /\ e = [x \in DOMAIN f |-> e[x]] /\ e["opens"] = <<>> /\ e["dead"] = TRUE
            /\ e["lastOpen"] = f["lastOpen"] /\ e["lastClose"] = f["lastClose"]
        BY <4>1
      <4>3. r = [x \in {"opens", "lastOpen", "lastClose", "dead"} |-> r[x]]
            /\ r["opens"] = <<>> /\ r["dead"] = TRUE
            /\ r["lastOpen"] = f["lastOpen"] /\ r["lastClose"] = f["lastClose"]
        OBVIOUS
      <4> HIDE DEF e, r
      <4>4. e = r
        BY <4>1, <4>2, <4>3
      <4> QED
        BY <4>4 DEF e, r
    <3> QED
      BY <2>1, <3>1, <3>3
  <2>2. CASE ~C!Silent(f)
    <3>1. C!Opened(f) = [f EXCEPT !.opens = Append(@, 0), !.lastOpen = 0]
      BY <2>2 DEF C!Opened
    <3> QED
      BY <1>1, <2>2, <3>1
  <2> QED
    BY <2>1, <2>2
<1>3. o \in Seq(Ages) /\ d \in BOOLEAN
  <2>1. f.opens \in Seq(Ages) /\ f.dead \in BOOLEAN /\ <<>> \in Seq(Ages)
    BY <1>1
  <2> QED
    BY <2>1
<1>4. C!OldestFirst(o)
  BY DEF Stream, C!OldestFirst
<1>5. \A a \in 0..MaxAge : Cardinality(C!Upto(o, a)) <= Cardinality(C!Upto(p, a))
  <2> SUFFICES ASSUME NEW a \in 0..MaxAge  PROVE Cardinality(C!Upto(o, a)) <= Cardinality(C!Upto(p, a))
    OBVIOUS
  <2>1. CASE C!Silent(f)
    <3>1. C!Upto(<<>>, a) = {}
      BY DEF C!Upto
    <3>2. Cardinality(C!Upto(p, a)) \in Nat /\ Cardinality({}) = 0
      BY AgesAre, UptoFinite, FS_EmptySet
    <3>3. o = <<>>
      BY <2>1
    <3>4. Cardinality(C!Upto(o, a)) = 0
      BY <3>1, <3>2, <3>3, Zenon
    <3> HIDE DEF o
    <3> QED
      BY <3>2, <3>4
  <2>2. CASE ~C!Silent(f)
    BY <2>2 DEF Stream
  <2> QED
    BY <2>1, <2>2
<1> HIDE DEF o, d
<1>6. /\ n \in Seq(Ages) /\ Append(p, 0) \in Seq(Ages)
      /\ o \in Seq(Nat) /\ p \in Seq(Nat) /\ \A i \in DOMAIN o : o[i] \in Nat
  <2>1. o \in Seq(Nat) /\ p \in Seq(Nat)
    BY <1>3, AgesAre
  <2>2. n \in Seq(Ages) /\ Append(p, 0) \in Seq(Ages)
    BY <1>1, <1>3
  <2> HIDE DEF n
  <2> QED
    BY <2>1, <2>2, SeqWithin
<1>7. C!OldestFirst(n)
  <2>1. /\ DOMAIN n = 1..(Len(o) + 1) /\ DOMAIN o = 1..Len(o) /\ Len(o) \in Nat
        /\ n[Len(o) + 1] = 0 /\ \A i \in 1..Len(o) : n[i] = o[i]
    BY <1>3
  <2> HIDE DEF n
  <2> SUFFICES ASSUME NEW i \in DOMAIN n, NEW j \in DOMAIN n, i < j
               PROVE  n[i] >= n[j]
    BY DEF C!OldestFirst
  <2>2. i \in 1..Len(o)
    BY <2>1
  <2>3. CASE j \in 1..Len(o)
    BY <1>4, <2>1, <2>2, <2>3 DEF C!OldestFirst
  <2>4. CASE j = Len(o) + 1
    BY <1>6, <2>1, <2>2, <2>4
  <2> QED
    BY <2>1, <2>3, <2>4
<1>8. ASSUME NEW a \in 0..MaxAge
      PROVE  Cardinality(C!Upto(n, a)) <= Cardinality(C!Upto(Append(p, 0), a))
  <2>1. a \in Nat
    BY CeilingsGiven
  <2>2. Cardinality(C!Upto(n, a)) = Cardinality(C!Upto(o, a)) + 1
    BY <1>6, <2>1, UptoAppend
  <2>3. Cardinality(C!Upto(Append(p, 0), a)) = Cardinality(C!Upto(p, a)) + 1
    BY <1>6, <2>1, UptoAppend
  <2>4. Cardinality(C!Upto(o, a)) \in Nat /\ Cardinality(C!Upto(p, a)) \in Nat
    BY <1>6, UptoFinite
  <2>5. Cardinality(C!Upto(o, a)) <= Cardinality(C!Upto(p, a))
    BY <1>5
  <2> QED
    BY <2>2, <2>3, <2>4, <2>5
<1> HIDE DEF n
<1>9. C!Opened(f) \in [opens : Seq(Ages), lastOpen : 0..(Idle + 1), lastClose : 0..(Idle + 1), dead : BOOLEAN]
      /\ C!Opened(f).opens = n
  BY <1>1, <1>2, <1>3, <1>6
<1> QED
  BY <1>6, <1>7, <1>8, <1>9 DEF Stream

\* A request that is not tracked counts against nobody.
LEMMA OpenSane ==
  ASSUME C!AdmissionAssumption, NEW t, NEW sp, NEW pe, Sane(t, sp, pe), NEW k \in C!Key
  PROVE  Sane(C!Open(t, k), sp, [pe EXCEPT ![k] = Append(@, 0)])
<1> DEFINE F == DOMAIN t.inflight
           p == pe[k]
           q == [pe EXCEPT ![k] = Append(@, 0)]
<1>1. /\ pe \in [C!Key -> Seq(Ages)] /\ IsFiniteSet(F) /\ F \subseteq C!Key
      /\ Cardinality(F) <= MaxSources
      /\ \A x \in F : Stream(t.inflight[x], pe[x])
      /\ t = [buckets |-> t.buckets, perZone |-> t.perZone, inflight |-> t.inflight, swept |-> t.swept]
  BY DEF Sane, StreamsSane
<1>2. q = [pe EXCEPT ![k] = Append(p, 0)] /\ p \in Seq(Ages)
  BY <1>1
<1>3. Append(p, 0) \in Seq(Ages)
  BY <1>2, AgesAre
<1>4. CASE k \in F
  <2> DEFINE g == C!Opened(t.inflight[k])
  <2>1. Stream(g, Append(p, 0))
    BY <1>1, <1>2, <1>4, StreamOpened
  <2>2. C!Open(t, k) = [ buckets |-> t.buckets, perZone |-> t.perZone, swept |-> t.swept,
                         inflight |-> [x \in F \cup {k} |-> IF x = k THEN g ELSE t.inflight[x]] ]
    <3>1. C!Open(t, k) = [t EXCEPT !.inflight[k] = C!Opened(@)]
      BY <1>4 DEF C!Open
    <3>2. C!Open(t, k) = [ buckets |-> t.buckets, perZone |-> t.perZone, swept |-> t.swept,
                           inflight |-> [t.inflight EXCEPT ![k] = g] ]
      BY <1>1, <3>1
    <3>3. F \cup {k} = F
      BY <1>4
    <3> HIDE DEF g
    <3> QED
      BY <3>2, <3>3
  <2> HIDE DEF g, p, q
  <2>3. Sane([ buckets |-> t.buckets, perZone |-> t.perZone, swept |-> t.swept,
               inflight |-> [x \in F \cup {k} |-> IF x = k THEN g ELSE t.inflight[x]] ],
             sp, [pe EXCEPT ![k] = Append(p, 0)])
    BY <1>3, <1>4, <2>1, StreamPut
  <2> QED
    BY <1>2, <2>2, <2>3 DEF q
<1>5. CASE k \notin F /\ Cardinality(F) >= MaxSources
  <2>1. C!Open(t, k) = t
    BY <1>5, CeilingsCounted DEF C!Open
  <2>2. q \in [C!Key -> Seq(Ages)] /\ \A x \in F : q[x] = pe[x]
    BY <1>1, <1>2, <1>3, <1>5
  <2> HIDE DEF q
  <2>3. StreamsSane(t, q)
    BY <1>1, <2>2 DEF StreamsSane
  <2>4. Sane(t, sp, q)
    BY <2>3 DEF Sane
  <2> QED
    BY <2>1, <2>4 DEF q
<1>6. CASE k \notin F /\ ~(Cardinality(F) >= MaxSources)
  <2> DEFINE g == C!Opened(C!Fresh)
  <2>1. Stream(C!Fresh, p)
    <3>1. /\ C!Fresh.opens = <<>>
          /\ C!Fresh \in [opens : Seq(Ages), lastOpen : 0..(Idle + 1), lastClose : 0..(Idle + 1), dead : BOOLEAN]
      BY CeilingsGiven DEF C!Fresh
    <3>2. C!OldestFirst(<<>>) /\ \A a \in 0..MaxAge : C!Upto(<<>>, a) = {}
      BY DEF C!OldestFirst, C!Upto
    <3>3. \A a \in 0..MaxAge : Cardinality(C!Upto(p, a)) >= 0
      <4>1. p \in Seq(Nat)
        BY <1>2, AgesAre
      <4>2. \A a : Cardinality(C!Upto(p, a)) \in Nat
        BY <4>1, UptoFinite
      <4> QED
        BY <4>2
    <3>4. Cardinality({}) = 0
      BY FS_EmptySet
    <3> QED
      BY <3>1, <3>2, <3>3, <3>4 DEF Stream
  <2>2. Stream(g, Append(p, 0))
    BY <1>2, <2>1, StreamOpened
  <2>3. C!Open(t, k) = [ buckets |-> t.buckets, perZone |-> t.perZone, swept |-> t.swept,
                         inflight |-> [x \in F \cup {k} |-> IF x = k THEN g ELSE t.inflight[x]] ]
    <3>1. C!Open(t, k) = [t EXCEPT !.inflight = C!With(@, k, g)]
      BY <1>6, CeilingsCounted DEF C!Open
    <3> HIDE DEF g
    <3> QED
      BY <1>1, <3>1 DEF C!With
  <2>4. Cardinality(F) < MaxSources
    BY <1>1, <1>6, FS_CardinalityType, CeilingsGiven
  <2> HIDE DEF g, p, q
  <2>5. Sane([ buckets |-> t.buckets, perZone |-> t.perZone, swept |-> t.swept,
               inflight |-> [x \in F \cup {k} |-> IF x = k THEN g ELSE t.inflight[x]] ],
             sp, [pe EXCEPT ![k] = Append(p, 0)])
    BY <1>3, <2>2, <2>4, StreamPut
  <2> QED
    BY <1>2, <2>3, <2>5 DEF q
<1> QED
  BY <1>4, <1>5, <1>6

\* A line closes a slot of its stream when there is one, and the youngest: with the request it
\* takes away, those that may be in flight are no fewer.
LEMMA StreamClosed ==
  ASSUME C!AdmissionAssumption, NEW p \in Seq(Ages), NEW i \in DOMAIN p, NEW f, Stream(f, p)
  PROVE  /\ C!RemoveAt(p, i) \in Seq(Ages)
         /\ Stream(C!Completed(f), C!RemoveAt(p, i))
<1> DEFINE o == f.opens
           n == IF o = <<>> THEN o ELSE C!CloseNewest(o)
           r == C!RemoveAt(p, i)
           g == [f EXCEPT !.opens = IF @ = <<>> THEN @ ELSE C!CloseNewest(@), !.lastClose = 0, !.dead = FALSE]
<1>1. /\ f \in [opens : Seq(Ages), lastOpen : 0..(Idle + 1), lastClose : 0..(Idle + 1), dead : BOOLEAN]
      /\ o \in Seq(Ages) /\ C!OldestFirst(o) /\ 0 \in 0..(Idle + 1) /\ Ages \subseteq Nat
      /\ \A a \in 0..MaxAge : Cardinality(C!Upto(o, a)) <= Cardinality(C!Upto(p, a))
  <2>1. 0 \in 0..(Idle + 1) /\ Ages \subseteq Nat
    BY CeilingsGiven, AgesAre
  <2> QED
    BY <2>1 DEF Stream
<1>2. g = [opens |-> n, lastOpen |-> f.lastOpen, lastClose |-> 0, dead |-> FALSE]
  <2> DEFINE h == [opens |-> n, lastOpen |-> f.lastOpen, lastClose |-> 0, dead |-> FALSE]
  <2>1. DOMAIN f = {"opens", "lastOpen", "lastClose", "dead"}
    BY <1>1
  <2>2. /\ g = [x \in DOMAIN f |-> g[x]] /\ g["opens"] = n /\ g["lastClose"] = 0 /\ g["dead"] = FALSE
        /\ g["lastOpen"] = f["lastOpen"]
    BY <2>1
  <2>3. h = [x \in {"opens", "lastOpen", "lastClose", "dead"} |-> h[x]]
        /\ h["opens"] = n /\ h["lastClose"] = 0 /\ h["dead"] = FALSE /\ h["lastOpen"] = f["lastOpen"]
    OBVIOUS
  <2> HIDE DEF g, h, n
  <2>4. g = h
    BY <2>1, <2>2, <2>3
  <2> QED
    BY <2>4 DEF h
<1>3. o \in Seq(Nat) /\ p \in Seq(Nat)
  BY <1>1, AgesAre
<1>4. r \in Seq(Ages) /\ \A a : Cardinality(C!Upto(p, a)) <= Cardinality(C!Upto(r, a)) + 1
  BY <1>1, UptoRemoved
<1>5. /\ n \in Seq(Ages) /\ C!OldestFirst(n)
      /\ \A a \in 0..MaxAge : \/ C!Upto(n, a) = {}
                              \/ Cardinality(C!Upto(n, a)) = Cardinality(C!Upto(o, a)) - 1
  <2>1. CASE o = <<>>
    <3>1. \A a : C!Upto(<<>>, a) = {}
      BY DEF C!Upto
    <3> HIDE DEF o
    <3> QED
      BY <1>1, <2>1, <3>1
  <2>2. CASE o # <<>>
    <3> DEFINE c == C!CloseNewest(o)
    <3>1. ASSUME NEW a \in 0..MaxAge
          PROVE  /\ c \in Seq(Ages) /\ C!OldestFirst(c)
                 /\ C!Upto(c, a) = {} \/ Cardinality(C!Upto(c, a)) = Cardinality(C!Upto(o, a)) - 1
      <4>1. a \in Nat
        BY CeilingsGiven
      <4> HIDE DEF o
      <4> QED
        BY <1>1, <1>3, <2>2, <4>1, UptoFront
    <3>2. 0 \in 0..MaxAge /\ n = c
      BY <2>2, CeilingsGiven
    <3> HIDE DEF c, n
    <3> QED
      BY <3>1, <3>2
  <2> QED
    BY <2>1, <2>2
<1> HIDE DEF n, r, o
<1>6. ASSUME NEW a \in 0..MaxAge
      PROVE  Cardinality(C!Upto(n, a)) <= Cardinality(C!Upto(r, a))
  <2>1. r \in Seq(Nat)
    BY <1>4, AgesAre
  <2>2. Cardinality(C!Upto(o, a)) \in Nat /\ Cardinality(C!Upto(p, a)) \in Nat /\ Cardinality(C!Upto(r, a)) \in Nat
    BY <1>3, <2>1, UptoFinite
  <2>3. Cardinality(C!Upto(o, a)) <= Cardinality(C!Upto(p, a)) /\ Cardinality(C!Upto(p, a)) <= Cardinality(C!Upto(r, a)) + 1
    BY <1>1, <1>4
  <2>4. CASE C!Upto(n, a) = {}
    <3>1. Cardinality(C!Upto(n, a)) = 0
      BY <2>4, FS_EmptySet, Zenon
    <3> QED
      BY <2>2, <3>1
  <2>5. CASE Cardinality(C!Upto(n, a)) = Cardinality(C!Upto(o, a)) - 1
    BY <2>2, <2>3, <2>5
  <2> QED
    BY <1>5, <2>4, <2>5
<1>7. g.opens = n /\ g \in [opens : Seq(Ages), lastOpen : 0..(Idle + 1), lastClose : 0..(Idle + 1), dead : BOOLEAN]
  BY <1>1, <1>2, <1>5
<1> HIDE DEF g
<1>8. Stream(g, r)
  BY <1>5, <1>6, <1>7 DEF Stream
<1> QED
  BY <1>4, <1>8 DEF g, r, C!Completed

\* A bucket earns no more than its tokens of a tick.
LEMMA FilledOlder ==
  ASSUME C!AdmissionAssumption, NEW b \in Bucket
  PROVE  LET o == [b EXCEPT !.age = C!Older(@, Idle + 1)]
         IN o \in Bucket /\ Filled(o) \in 0..Rps /\ Filled(o) <= Filled(b) + Earn
<1> DEFINE a == C!Older(b.age, Idle + 1)
           o == [tokens |-> b.tokens, age |-> a]
<1>1. b.tokens \in 0..Rps /\ b.age \in 0..(Idle + 1) /\ Idle \in Nat /\ Earn \in Nat /\ Rps \in Nat
      /\ [b EXCEPT !.age = C!Older(@, Idle + 1)] = o
  BY CeilingsGiven DEF Bucket
<1>2. a \in 0..(Idle + 1) /\ (a = b.age + 1 \/ a = b.age)
  BY <1>1 DEF C!Older, C!Least
<1> HIDE DEF a
<1>3. o \in Bucket
  BY <1>1, <1>2 DEF Bucket
<1>4. Earn * a \in Nat /\ Earn * b.age \in Nat /\ Earn * a <= Earn * b.age + Earn
  <2>1. Earn * (b.age + 1) = Earn * b.age + Earn
    BY <1>1
  <2>2. Earn * a \in Nat /\ Earn * b.age \in Nat
    BY <1>1, <1>2
  <2> QED
    BY <1>1, <1>2, <2>1, <2>2
<1>5. Filled(o) = C!Least(b.tokens + Earn * a, Rps) /\ Filled(b) = C!Least(b.tokens + Earn * b.age, Rps)
  BY DEF Filled
<1>6. Filled(o) <= Filled(b) + Earn
  <2> DEFINE x == Earn * a
             y == Earn * b.age
  <2>1. x \in Nat /\ y \in Nat /\ x <= y + Earn
        /\ Filled(o) = C!Least(b.tokens + x, Rps) /\ Filled(b) = C!Least(b.tokens + y, Rps)
    BY <1>4, <1>5
  <2> HIDE DEF x, y, o
  <2> QED
    BY <1>1, <2>1 DEF C!Least
<1> HIDE DEF o
<1> QED
  BY <1>1, <1>3, <1>6, FilledIs

\* Slots and requests grow old together.
LEMMA StreamOlder ==
  ASSUME C!AdmissionAssumption, NEW p \in Seq(Ages), NEW f, Stream(f, p)
  PROVE  LET q == [i \in DOMAIN p |-> C!Older(p[i], MaxAge + 1)]
         IN /\ q \in Seq(Ages)
            /\ Stream([f EXCEPT !.opens = [i \in DOMAIN @ |-> C!Older(@[i], MaxAge + 1)],
                                !.lastOpen = C!Older(@, Idle + 1), !.lastClose = C!Older(@, Idle + 1)], q)
<1> DEFINE s == f.opens
           o == [i \in DOMAIN s |-> C!Older(s[i], MaxAge + 1)]
           q == [i \in DOMAIN p |-> C!Older(p[i], MaxAge + 1)]
           g == [f EXCEPT !.opens = [i \in DOMAIN @ |-> C!Older(@[i], MaxAge + 1)],
                          !.lastOpen = C!Older(@, Idle + 1), !.lastClose = C!Older(@, Idle + 1)]
           h == [opens |-> o, lastOpen |-> C!Older(f.lastOpen, Idle + 1), lastClose |-> C!Older(f.lastClose, Idle + 1),
                 dead |-> f.dead]
<1>1. /\ f \in [opens : Seq(Ages), lastOpen : 0..(Idle + 1), lastClose : 0..(Idle + 1), dead : BOOLEAN]
      /\ s \in Seq(Ages) /\ C!OldestFirst(s) /\ Idle \in Nat /\ MaxAge \in Nat
      /\ \A a \in 0..MaxAge : Cardinality(C!Upto(s, a)) <= Cardinality(C!Upto(p, a))
  BY CeilingsGiven DEF Stream
<1>2. g = h
  <2>1. DOMAIN f = {"opens", "lastOpen", "lastClose", "dead"}
    BY <1>1
  <2>2. /\ g = [x \in DOMAIN f |-> g[x]] /\ g["opens"] = o /\ g["lastOpen"] = C!Older(f.lastOpen, Idle + 1)
        /\ g["lastClose"] = C!Older(f.lastClose, Idle + 1) /\ g["dead"] = f.dead
    BY <2>1
  <2>3. /\ h = [x \in {"opens", "lastOpen", "lastClose", "dead"} |-> h[x]]
        /\ h["opens"] = o /\ h["lastOpen"] = C!Older(f.lastOpen, Idle + 1)
        /\ h["lastClose"] = C!Older(f.lastClose, Idle + 1) /\ h["dead"] = f.dead
    OBVIOUS
  <2> HIDE DEF g, h, o
  <2> QED
    BY <2>1, <2>2, <2>3
<1> HIDE DEF g
<1>3. ASSUME NEW a \in 0..MaxAge
      PROVE  /\ o \in Seq(Ages) /\ C!OldestFirst(o) /\ q \in Seq(Ages)
             /\ C!Upto(o, a) = IF a = 0 THEN {} ELSE C!Upto(s, a - 1)
             /\ C!Upto(q, a) = IF a = 0 THEN {} ELSE C!Upto(p, a - 1)
  <2>1. /\ o \in Seq(Ages) /\ (C!OldestFirst(s) => C!OldestFirst(o))
        /\ C!Upto(o, a) = IF a = 0 THEN {} ELSE C!Upto(s, a - 1)
    <3> HIDE DEF s
    <3> QED
      BY <1>1, UptoOlder
  <2>2. q \in Seq(Ages) /\ C!Upto(q, a) = IF a = 0 THEN {} ELSE C!Upto(p, a - 1)
    BY UptoOlder
  <2> HIDE DEF o, q
  <2> QED
    BY <1>1, <2>1, <2>2
<1>4. o \in Seq(Ages) /\ C!OldestFirst(o) /\ q \in Seq(Ages)
  <2>1. 0 \in 0..MaxAge
    BY <1>1
  <2> QED
    BY <1>3, <2>1
<1> HIDE DEF o, q, s
<1>5. ASSUME NEW a \in 0..MaxAge
      PROVE  Cardinality(C!Upto(o, a)) <= Cardinality(C!Upto(q, a))
  <2>1. CASE a = 0
    <3>1. C!Upto(o, a) = {} /\ C!Upto(q, a) = {}
      BY <1>3, <2>1
    <3>2. Cardinality(C!Upto(o, a)) = 0 /\ Cardinality(C!Upto(q, a)) = 0
      BY <3>1, FS_EmptySet, Zenon
    <3> QED
      BY <3>2
  <2>2. CASE a # 0
    <3>1. a - 1 \in 0..MaxAge
      BY <1>1, <2>2
    <3>2. C!Upto(o, a) = C!Upto(s, a - 1) /\ C!Upto(q, a) = C!Upto(p, a - 1)
      BY <1>3, <2>2
    <3>3. Cardinality(C!Upto(s, a - 1)) <= Cardinality(C!Upto(p, a - 1))
      BY <1>1, <3>1
    <3> QED
      BY <3>2, <3>3, Zenon
  <2> QED
    BY <2>1, <2>2
<1>6. h \in [opens : Seq(Ages), lastOpen : 0..(Idle + 1), lastClose : 0..(Idle + 1), dead : BOOLEAN] /\ h.opens = o
  BY <1>1, <1>4 DEF C!Older, C!Least
<1>7. Stream(g, q)
  <2> HIDE DEF h
  <2> QED
    BY <1>2, <1>4, <1>5, <1>6 DEF Stream
<1> QED
  BY <1>4, <1>7 DEF g, q

---------------------------------------------------------------------------
(* Admission: the invariant.                                               *)

\* It says of the tables what Sane does.
LEMMA CeilingsTaken ==
  ASSUME C!AdmissionAssumption, C!IInv
  PROVE  Sane(C!Tables, spent, pending) /\ zones \subseteq Zone /\ spent \in [C!Key -> Nat]
<1> DEFINE t == C!Tables
<1>1. /\ t.buckets = buckets /\ t.perZone = perZone /\ t.inflight = inflight /\ t.swept = swept
      /\ t = [buckets |-> t.buckets, perZone |-> t.perZone, inflight |-> t.inflight, swept |-> t.swept]
  BY DEF C!Tables
<1>2. /\ zones \subseteq Zone /\ spent \in [C!Key -> Nat] /\ perZone \in [Zone -> 0..MaxSources] /\ swept \in 0..SweepEvery
      /\ DOMAIN buckets \subseteq C!Key /\ DOMAIN inflight \subseteq C!Key
      /\ \A k \in DOMAIN buckets : buckets[k] \in Bucket
      /\ \A k \in DOMAIN inflight :
           inflight[k] \in [opens : Seq(Ages), lastOpen : 0..(Idle + 1), lastClose : 0..(Idle + 1), dead : BOOLEAN]
      /\ pending \in [C!Key -> Seq(Ages)]
  BY DEF C!IInv, C!TypeOK, Bucket, Ages
<1>3. /\ IsFiniteSet(DOMAIN buckets) /\ IsFiniteSet(DOMAIN inflight)
      /\ Cardinality(DOMAIN buckets) <= MaxSources /\ Cardinality(DOMAIN inflight) <= MaxSources
      /\ \A z \in Zone : perZone[z] = Cardinality({k \in DOMAIN buckets : C!ZoneOf(k) = z})
  BY CeilingsCounted DEF C!IInv, C!CeilingsHonest, C!BucketsOf
<1>4. \A k \in DOMAIN buckets : C!Refilled(t, k).tokens = Filled(buckets[k])
  BY <1>1 DEF C!Refilled, Filled
<1>5. perZone \in [Zone -> Nat]
  BY <1>2, CeilingsGiven
<1> HIDE DEF t
<1>6. \A k \in C!Key : /\ spent[k] \in Nat
                       /\ k \in DOMAIN buckets => spent[k] + Filled(buckets[k]) <= Rps
                       /\ k \notin DOMAIN buckets \/ C!ZoneOf(k) \notin zones => spent[k] = 0
  <2>1. \A k \in C!Key : /\ k \in DOMAIN buckets => spent[k] + C!Refilled(t, k).tokens <= Rps
                         /\ k \notin DOMAIN buckets \/ C!ZoneOf(k) \notin zones => spent[k] = 0
    BY DEF C!IInv, C!SpentLacks, t
  <2> QED
    BY <1>2, <1>4, <2>1
<1>7. BucketsSane(t, spent)
  BY <1>1, <1>2, <1>3, <1>5, <1>6 DEF BucketsSane
<1>8. \A k \in DOMAIN inflight : Stream(inflight[k], pending[k])
  BY <1>2, CeilingsCounted DEF C!IInv, C!SlotsPending, Stream
<1>9. StreamsSane(t, pending)
  BY <1>1, <1>2, <1>3, <1>8 DEF StreamsSane
<1>10. Sane(t, spent, pending)
  BY <1>1, <1>2, <1>7, <1>9 DEF Sane
<1> QED
  BY <1>2, <1>10 DEF t

\* And the other way.
LEMMA CeilingsGive ==
  ASSUME C!AdmissionAssumption
  PROVE  Sane(C!Tables, spent, pending) /\ zones \subseteq Zone /\ spent \in [C!Key -> Nat] => C!IInv
<1> SUFFICES ASSUME Sane(C!Tables, spent, pending), zones \subseteq Zone, spent \in [C!Key -> Nat]
             PROVE  C!IInv
  OBVIOUS
<1> DEFINE t == C!Tables
<1>1. t.buckets = buckets /\ t.perZone = perZone /\ t.inflight = inflight /\ t.swept = swept
  BY DEF C!Tables
<1>2. /\ swept \in 0..SweepEvery /\ BucketsSane(t, spent) /\ StreamsSane(t, pending)
  BY <1>1 DEF Sane
<1> HIDE DEF t
<1>3. /\ DOMAIN buckets \subseteq C!Key /\ IsFiniteSet(DOMAIN buckets) /\ Cardinality(DOMAIN buckets) <= MaxSources
      /\ \A k \in DOMAIN buckets : buckets[k] \in Bucket
      /\ perZone \in [Zone -> Nat]
      /\ \A z \in Zone : perZone[z] = Cardinality({k \in DOMAIN buckets : C!ZoneOf(k) = z})
      /\ \A k \in C!Key : /\ spent[k] \in Nat
                          /\ k \in DOMAIN buckets => spent[k] + Filled(buckets[k]) <= Rps
                          /\ k \notin DOMAIN buckets \/ C!ZoneOf(k) \notin zones => spent[k] = 0
  BY <1>1, <1>2 DEF BucketsSane
<1>4. /\ pending \in [C!Key -> Seq(Ages)] /\ DOMAIN inflight \subseteq C!Key /\ IsFiniteSet(DOMAIN inflight)
      /\ Cardinality(DOMAIN inflight) <= MaxSources
      /\ \A k \in DOMAIN inflight : Stream(inflight[k], pending[k])
  BY <1>1, <1>2 DEF StreamsSane
<1>5. perZone \in [Zone -> 0..MaxSources]
  <2> SUFFICES ASSUME NEW z \in Zone  PROVE perZone[z] \in 0..MaxSources
    BY <1>3
  <2> DEFINE P == {k \in DOMAIN buckets : C!ZoneOf(k) = z}
  <2>1. P \subseteq DOMAIN buckets
    OBVIOUS
  <2>2. perZone[z] = Cardinality(P) /\ perZone[z] \in Nat
    BY <1>3
  <2> HIDE DEF P
  <2>3. Cardinality(P) <= Cardinality(DOMAIN buckets)
    BY <1>3, <2>1, FS_Subset
  <2>4. Cardinality(DOMAIN buckets) \in Nat /\ MaxSources \in Nat
    BY <1>3, FS_CardinalityType, CeilingsGiven
  <2> QED
    BY <1>3, <2>2, <2>3, <2>4
<1>6. C!TypeOK
  BY <1>2, <1>3, <1>4, <1>5 DEF C!TypeOK, Bucket, Stream, Ages
<1>7. C!SpentLacks
  <2>1. \A k \in DOMAIN buckets : C!Refilled(t, k).tokens = Filled(buckets[k])
    BY <1>1 DEF C!Refilled, Filled
  <2> QED
    BY <1>3, <2>1 DEF C!SpentLacks, t
<1>8. C!SlotsPending
  BY <1>4, CeilingsCounted DEF C!SlotsPending, Stream
<1>9. ASSUME NEW k \in C!Key  PROVE spent[k] <= Rps
  <2>1. CASE k \in DOMAIN buckets
    <3>1. Filled(buckets[k]) \in 0..Rps /\ Rps \in Nat
      BY <1>3, <2>1, FilledIs, CeilingsGiven
    <3> QED
      BY <1>3, <2>1, <3>1
  <2>2. CASE k \notin DOMAIN buckets
    BY <1>3, <2>2, CeilingsGiven
  <2> QED
    BY <2>1, <2>2
<1>10. ASSUME NEW k \in DOMAIN inflight
       PROVE  Len(C!Counted(inflight[k]).opens) <= C!MayBeInFlight(k)
  <2> DEFINE f == inflight[k]
             o == f.opens
             c == SubSeq(o, C!Phantoms(o) + 1, Len(o))
             p == pending[k]
  <2>1. Stream(f, p) /\ p \in Seq(Ages)
    BY <1>4
  <2>2. o \in Seq(Ages) /\ C!OldestFirst(o) /\ Ages \subseteq Nat /\ MaxAge \in 0..MaxAge
        /\ f \in [opens : Seq(Ages), lastOpen : 0..(Idle + 1), lastClose : 0..(Idle + 1), dead : BOOLEAN]
    <3>1. Ages \subseteq Nat /\ MaxAge \in 0..MaxAge
      BY AgesAre, CeilingsGiven
    <3> QED
      BY <2>1, <3>1 DEF Stream
  <2>3. C!Counted(f).opens = c
    BY <2>2 DEF C!Counted
  <2>4. C!MayBeInFlight(k) = Cardinality(C!Upto(p, MaxAge))
    BY CeilingsCounted DEF C!MayBeInFlight, C!Upto, C!Young
  <2>5. Cardinality(C!Upto(o, MaxAge)) <= Cardinality(C!Upto(p, MaxAge))
    BY <2>1, <2>2 DEF Stream
  <2> HIDE DEF o, p, f
  <2>6. /\ c \in Seq(Ages) /\ (\A i \in DOMAIN c : C!Young(c[i]))
        /\ Cardinality(C!Upto(c, MaxAge)) <= Cardinality(C!Upto(o, MaxAge))
    BY <2>2, CountedSlots
  <2> HIDE DEF c
  <2>7. C!Upto(c, MaxAge) = 1..Len(c) /\ Len(c) \in Nat
    BY <2>6, SeqWithin DEF C!Upto, C!Young
  <2>8. Cardinality(1..Len(c)) = Len(c)
    <3>1. 1 <= Len(c) \/ Len(c) = 0
      BY <2>7
    <3> QED
      BY <2>7, <3>1, FS_Interval
  <2>9. Cardinality(C!Upto(c, MaxAge)) = Len(c)
    BY <2>7, <2>8, Zenon
  <2>10. Cardinality(C!Upto(o, MaxAge)) \in Nat /\ Cardinality(C!Upto(p, MaxAge)) \in Nat
    BY <2>1, <2>2, AgesAre, UptoFinite
  <2> QED
    BY <2>3, <2>4, <2>5, <2>6, <2>7, <2>9, <2>10 DEF f
<1>11. C!CeilingsHonest
  BY <1>3, <1>4, <1>9, <1>10, CeilingsCounted DEF C!CeilingsHonest, C!BucketsOf
<1> QED
  BY <1>3, <1>4, <1>6, <1>7, <1>8, <1>11, CeilingsCounted DEF C!IInv

\* What a decision commits is sane.
LEMMA CeilingsDecide ==
  ASSUME C!AdmissionAssumption, Sane(C!Tables, spent, pending), spent \in [C!Key -> Nat],
         NEW k \in C!Key, NEW refused \in BOOLEAN, C!DecideRequest(k, refused)
  PROVE  /\ \E t : C!Commit(t) /\ Sane(t, spent', pending')
         /\ spent' \in [C!Key -> Nat] /\ zones' = zones
<1> DEFINE t == C!Paced(C!Tables, SweepEvery)
           took == IF refused THEN [tables |-> t, result |-> "skipped"] ELSE C!Take(t, k)
           seen == IF took.result \in {"allowed", "untracked"} THEN C!Consulted(took.tables, k) ELSE took.tables
           sq == [spent EXCEPT ![k] = IF took.result = "allowed" THEN @ + 1 ELSE @]
<1>1. /\ C!ZoneOf(k) \in zones /\ C!Commit(C!Open(seen, k)) /\ spent' = sq
      /\ pending' = [pending EXCEPT ![k] = Append(@, 0)] /\ zones' = zones
  BY DEF C!DecideRequest
<1>2. Sane(t, spent, pending)
  BY PacedSane
<1>3. Sane(took.tables, sq, pending) /\ sq \in [C!Key -> Nat]
  <2> HIDE DEF t
  <2>1. CASE refused
    <3>1. took.tables = t /\ sq = spent
      BY <2>1
    <3> QED
      BY <1>2, <3>1
  <2>2. CASE ~refused
    <3>1. C!ZoneOf(k) \in Zone
      BY DEF C!ZoneOf, C!Key
    <3>2. took = C!Take(t, k)
      BY <2>2
    <3>3. Sane(C!Take(t, k).tables, [spent EXCEPT ![k] = IF C!Take(t, k).result = "allowed" THEN @ + 1 ELSE @], pending)
      BY <1>1, <1>2, <3>1, TakeSane
    <3>4. sq \in [C!Key -> Nat]
      <4>1. \A n \in Nat : n + 1 \in Nat
        OBVIOUS
      <4> HIDE DEF took
      <4> QED
        BY <4>1
    <3> HIDE DEF took
    <3> QED
      BY <3>2, <3>3, <3>4
  <2> QED
    BY <2>1, <2>2
<1> HIDE DEF took, sq, t
<1>4. Sane(seen, sq, pending)
  BY <1>3, ConsultedSane
<1> HIDE DEF seen
<1>5. Sane(C!Open(seen, k), spent', pending')
  BY <1>1, <1>4, OpenSane
<1> QED
  BY <1>1, <1>3, <1>5

\* So is what a line leaves.
LEMMA CeilingsComplete ==
  ASSUME C!AdmissionAssumption, Sane(C!Tables, spent, pending),
         NEW k \in C!Key, NEW i, C!Complete(k, i)
  PROVE  /\ \E t : C!Commit(t) /\ Sane(t, spent', pending')
         /\ spent' = spent /\ zones' = zones
<1> DEFINE t == C!Tables
           F == DOMAIN inflight
           p == pending[k]
           r == C!RemoveAt(p, i)
           g == C!Completed(inflight[k])
<1>1. /\ i \in DOMAIN p /\ pending' = [pending EXCEPT ![k] = r]
      /\ inflight' = IF k \notin F THEN inflight ELSE [inflight EXCEPT ![k] = g]
      /\ UNCHANGED <<zones, buckets, perZone, swept, spent>>
  BY DEF C!Complete
<1>2. /\ t = [buckets |-> buckets, perZone |-> perZone, inflight |-> inflight, swept |-> swept]
      /\ t.buckets = buckets /\ t.perZone = perZone /\ t.inflight = inflight /\ t.swept = swept
  BY DEF C!Tables
<1> HIDE DEF t
<1>3. /\ pending \in [C!Key -> Seq(Ages)] /\ p \in Seq(Ages) /\ F \subseteq C!Key
      /\ \A x \in F : Stream(inflight[x], pending[x])
  BY <1>2 DEF Sane, StreamsSane, t
<1>4. CASE k \in F
  <2>1. Stream(inflight[k], p)
    BY <1>3, <1>4
  <2>2. r \in Seq(Ages) /\ Stream(g, r)
    BY <1>1, <1>3, <2>1, StreamClosed
  <2> DEFINE u == [ buckets |-> t.buckets, perZone |-> t.perZone, swept |-> t.swept,
                    inflight |-> [x \in DOMAIN t.inflight \cup {k} |-> IF x = k THEN g ELSE t.inflight[x]] ]
  <2> HIDE DEF g, r
  <2>3. Sane(u, spent, [pending EXCEPT ![k] = r])
    <3>1. Sane(t, spent, pending) /\ k \in DOMAIN t.inflight
      BY <1>2, <1>4 DEF t
    <3> QED
      BY <2>2, <3>1, StreamPut
  <2>4. inflight' = [x \in DOMAIN t.inflight \cup {k} |-> IF x = k THEN g ELSE t.inflight[x]]
    <3>1. F \cup {k} = F
      BY <1>4
    <3> QED
      BY <1>1, <1>2, <1>4, <3>1
  <2>5. u.buckets = t.buckets /\ u.perZone = t.perZone /\ u.swept = t.swept /\ u.inflight = inflight'
    BY <2>4
  <2> HIDE DEF u
  <2>6. C!Commit(u)
    BY <1>1, <1>2, <2>5 DEF C!Commit
  <2> QED
    BY <1>1, <2>3, <2>6
<1>5. CASE k \notin F
  <2>1. r \in Seq(Ages)
    <3>1. Ages \subseteq Nat
      BY AgesAre
    <3> QED
      BY <1>1, <1>3, <3>1, UptoRemoved
  <2> HIDE DEF r
  <2>2. pending' \in [C!Key -> Seq(Ages)] /\ \A x \in F : pending'[x] = pending[x]
    BY <1>1, <1>3, <1>5, <2>1
  <2>3. StreamsSane(t, pending')
    BY <1>2, <2>2 DEF Sane, StreamsSane, t
  <2>4. Sane(t, spent', pending')
    BY <1>1, <2>3 DEF Sane, t
  <2>5. C!Commit(t)
    BY <1>1, <1>2, <1>5 DEF C!Commit
  <2> QED
    BY <1>1, <2>4, <2>5
<1> QED
  BY <1>4, <1>5

\* A document changes whose buckets count, and time what is in them.
LEMMA CeilingsZones ==
  ASSUME C!AdmissionAssumption, Sane(C!Tables, spent, pending), spent \in [C!Key -> Nat], C!SetZones
  PROVE  Sane(C!Tables, spent, pending)' /\ zones' \subseteq Zone /\ spent' \in [C!Key -> Nat]
<1> DEFINE t == C!Tables
<1>1. /\ zones' \subseteq Zone /\ spent' = [k \in C!Key |-> IF C!ZoneOf(k) \in zones \cap zones' THEN spent[k] ELSE 0]
      /\ UNCHANGED <<buckets, perZone, inflight, swept, pending>>
  BY DEF C!SetZones
<1>2. spent' \in [C!Key -> Nat]
  BY <1>1
<1>3. t' = t
  BY <1>1 DEF C!Tables
<1>4. /\ BucketsSane(t, spent) /\ StreamsSane(t, pending) /\ t.swept \in 0..SweepEvery
      /\ t = [buckets |-> t.buckets, perZone |-> t.perZone, inflight |-> t.inflight, swept |-> t.swept]
  BY DEF Sane
<1>5. ASSUME NEW k \in C!Key
      PROVE  /\ spent'[k] \in Nat
             /\ k \in DOMAIN t.buckets => spent'[k] + Filled(t.buckets[k]) <= Rps
             /\ k \notin DOMAIN t.buckets \/ C!ZoneOf(k) \notin zones' => spent'[k] = 0
  <2> HIDE DEF t
  <2>1. /\ spent[k] \in Nat
        /\ k \in DOMAIN t.buckets => spent[k] + Filled(t.buckets[k]) <= Rps /\ t.buckets[k] \in Bucket
        /\ k \notin DOMAIN t.buckets => spent[k] = 0
    BY <1>4 DEF BucketsSane
  <2>2. spent'[k] = 0 \/ (spent'[k] = spent[k] /\ C!ZoneOf(k) \in zones')
    BY <1>1
  <2>3. k \in DOMAIN t.buckets => Filled(t.buckets[k]) \in 0..Rps /\ Rps \in Nat
    BY <2>1, FilledIs, CeilingsGiven
  <2> QED
    BY <1>1, <2>1, <2>2, <2>3
<1>6. BucketsSane(t, spent)'
  <2>1. /\ DOMAIN t.buckets \subseteq C!Key /\ IsFiniteSet(DOMAIN t.buckets) /\ Cardinality(DOMAIN t.buckets) <= MaxSources
        /\ \A k \in DOMAIN t.buckets : t.buckets[k] \in Bucket
        /\ t.perZone \in [Zone -> Nat]
        /\ \A z \in Zone : t.perZone[z] = Cardinality({k \in DOMAIN t.buckets : C!ZoneOf(k) = z})
    BY <1>4 DEF BucketsSane
  <2> HIDE DEF t
  <2> QED
    BY <1>3, <1>5, <2>1 DEF BucketsSane
<1>7. StreamsSane(t, pending)'
  <2> HIDE DEF t
  <2> QED
    BY <1>1, <1>3, <1>4 DEF StreamsSane
<1>8. Sane(t, spent, pending)'
  <2> HIDE DEF t
  <2> QED
    BY <1>3, <1>4, <1>6, <1>7 DEF Sane
<1> QED
  BY <1>1, <1>2, <1>8

\* What the buckets earn in a tick is no more than what is earned back.
LEMMA BucketsOlder ==
  ASSUME C!AdmissionAssumption, NEW B, NEW sp,
         DOMAIN B \subseteq C!Key, \A k \in DOMAIN B : B[k] \in Bucket,
         \A k \in C!Key : /\ sp[k] \in Nat
                          /\ k \in DOMAIN B => sp[k] + Filled(B[k]) <= Rps
                          /\ k \notin DOMAIN B \/ C!ZoneOf(k) \notin zones => sp[k] = 0
  PROVE  LET o == [k \in DOMAIN B |-> [B[k] EXCEPT !.age = C!Older(@, Idle + 1)]]
             so == [k \in C!Key |-> IF sp[k] > Earn THEN sp[k] - Earn ELSE 0]
         IN /\ so \in [C!Key -> Nat]
            /\ \A k \in DOMAIN o : o[k] \in Bucket
            /\ \A k \in C!Key : /\ so[k] \in Nat
                                /\ k \in DOMAIN o => so[k] + Filled(o[k]) <= Rps
                                /\ k \notin DOMAIN o \/ C!ZoneOf(k) \notin zones => so[k] = 0
<1> DEFINE o == [k \in DOMAIN B |-> [B[k] EXCEPT !.age = C!Older(@, Idle + 1)]]
           so == [k \in C!Key |-> IF sp[k] > Earn THEN sp[k] - Earn ELSE 0]
<1>1. Earn \in Nat /\ Rps \in Nat
  BY CeilingsGiven
<1>2. ASSUME NEW k \in C!Key
      PROVE  /\ sp[k] \in Nat /\ so[k] \in Nat /\ (so[k] = 0 \/ so[k] = sp[k] - Earn)
             /\ sp[k] = 0 => so[k] = 0
             /\ k \in DOMAIN B => sp[k] + Filled(B[k]) <= Rps
             /\ k \notin DOMAIN B \/ C!ZoneOf(k) \notin zones => sp[k] = 0
  <2>1. /\ sp[k] \in Nat /\ (k \in DOMAIN B => sp[k] + Filled(B[k]) <= Rps)
        /\ k \notin DOMAIN B \/ C!ZoneOf(k) \notin zones => sp[k] = 0
    OBVIOUS
  <2>2. so[k] = IF sp[k] > Earn THEN sp[k] - Earn ELSE 0
    OBVIOUS
  <2> QED
    BY <1>1, <2>1, <2>2
<1>3. so \in [C!Key -> Nat]
  <2>1. so = [k \in C!Key |-> so[k]]
    OBVIOUS
  <2> QED
    BY <1>2, <2>1
<1>4. ASSUME NEW k \in DOMAIN B
      PROVE  o[k] \in Bucket /\ so[k] + Filled(o[k]) <= Rps
  <2>1. o[k] = [B[k] EXCEPT !.age = C!Older(@, Idle + 1)]
    OBVIOUS
  <2>2. o[k] \in Bucket /\ Filled(o[k]) \in 0..Rps /\ Filled(o[k]) <= Filled(B[k]) + Earn
    BY <2>1, FilledOlder
  <2>3. Filled(B[k]) \in 0..Rps
    BY FilledIs
  <2>4. k \in C!Key
    OBVIOUS
  <2>5. /\ sp[k] \in Nat /\ sp[k] + Filled(B[k]) <= Rps /\ so[k] \in Nat
        /\ so[k] = 0 \/ so[k] = sp[k] - Earn
    BY <1>2, <2>4
  <2> QED
    BY <1>1, <2>2, <2>3, <2>5
<1>5. DOMAIN o = DOMAIN B
  OBVIOUS
<1> QED
  BY <1>2, <1>3, <1>4, <1>5

\* A tick of time: buckets fill, slots and requests grow old.
LEMMA CeilingsTime ==
  ASSUME C!AdmissionAssumption, Sane(C!Tables, spent, pending), C!TimePasses
  PROVE  Sane(C!Tables, spent, pending)' /\ zones' = zones /\ spent' \in [C!Key -> Nat]
<1> DEFINE t == C!Tables
<1>1. /\ buckets' = [k \in DOMAIN buckets |-> [buckets[k] EXCEPT !.age = C!Older(@, Idle + 1)]]
      /\ inflight' = [k \in DOMAIN inflight |->
                        [inflight[k] EXCEPT !.opens = [i \in DOMAIN @ |-> C!Older(@[i], MaxAge + 1)],
                                            !.lastOpen = C!Older(@, Idle + 1), !.lastClose = C!Older(@, Idle + 1)]]
      /\ swept' = C!Older(swept, SweepEvery)
      /\ pending' = [k \in C!Key |-> [i \in DOMAIN pending[k] |-> C!Older(pending[k][i], MaxAge + 1)]]
      /\ spent' = [k \in C!Key |-> IF spent[k] > Earn THEN spent[k] - Earn ELSE 0]
      /\ zones' = zones /\ perZone' = perZone
  BY DEF C!TimePasses
<1>2. t.buckets = buckets /\ t.perZone = perZone /\ t.inflight = inflight /\ t.swept = swept
  BY DEF C!Tables
<1>3. /\ t'.buckets = buckets' /\ t'.perZone = perZone' /\ t'.inflight = inflight' /\ t'.swept = swept'
      /\ t' = [buckets |-> t'.buckets, perZone |-> t'.perZone, inflight |-> t'.inflight, swept |-> t'.swept]
  BY DEF C!Tables
<1> HIDE DEF t
<1>4. swept \in 0..SweepEvery /\ BucketsSane(t, spent) /\ StreamsSane(t, pending)
  BY <1>2 DEF Sane, t
<1>5. /\ DOMAIN buckets \subseteq C!Key /\ IsFiniteSet(DOMAIN buckets) /\ Cardinality(DOMAIN buckets) <= MaxSources
      /\ \A k \in DOMAIN buckets : buckets[k] \in Bucket
      /\ perZone \in [Zone -> Nat]
      /\ \A z \in Zone : perZone[z] = Cardinality({k \in DOMAIN buckets : C!ZoneOf(k) = z})
      /\ \A k \in C!Key : /\ spent[k] \in Nat
                          /\ k \in DOMAIN buckets => spent[k] + Filled(buckets[k]) <= Rps
                          /\ k \notin DOMAIN buckets \/ C!ZoneOf(k) \notin zones => spent[k] = 0
  BY <1>2, <1>4 DEF BucketsSane
<1>6. /\ pending \in [C!Key -> Seq(Ages)] /\ DOMAIN inflight \subseteq C!Key /\ IsFiniteSet(DOMAIN inflight)
      /\ Cardinality(DOMAIN inflight) <= MaxSources
      /\ \A k \in DOMAIN inflight : Stream(inflight[k], pending[k])
  BY <1>2, <1>4 DEF StreamsSane
<1>7. /\ spent' \in [C!Key -> Nat]
      /\ \A k \in DOMAIN buckets' : buckets'[k] \in Bucket
      /\ \A k \in C!Key : /\ spent'[k] \in Nat
                          /\ k \in DOMAIN buckets' => spent'[k] + Filled(buckets'[k]) <= Rps
                          /\ k \notin DOMAIN buckets' \/ C!ZoneOf(k) \notin zones => spent'[k] = 0
  <2> DEFINE B == buckets
             sp == spent
             so == spent'
             o == buckets'
  <2>1. /\ DOMAIN B \subseteq C!Key /\ \A k \in DOMAIN B : B[k] \in Bucket
        /\ \A k \in C!Key : /\ sp[k] \in Nat
                            /\ k \in DOMAIN B => sp[k] + Filled(B[k]) <= Rps
                            /\ k \notin DOMAIN B \/ C!ZoneOf(k) \notin zones => sp[k] = 0
        /\ o = [k \in DOMAIN B |-> [B[k] EXCEPT !.age = C!Older(@, Idle + 1)]]
        /\ so = [k \in C!Key |-> IF sp[k] > Earn THEN sp[k] - Earn ELSE 0]
    BY <1>1, <1>5
  <2> HIDE DEF B, sp, so, o
  <2>2. /\ so \in [C!Key -> Nat]
        /\ \A k \in DOMAIN o : o[k] \in Bucket
        /\ \A k \in C!Key : /\ so[k] \in Nat
                            /\ k \in DOMAIN o => so[k] + Filled(o[k]) <= Rps
                            /\ k \notin DOMAIN o \/ C!ZoneOf(k) \notin zones => so[k] = 0
    <3> HIDE DEF B, sp
    <3> DEFINE oo == [k \in DOMAIN B |-> [B[k] EXCEPT !.age = C!Older(@, Idle + 1)]]
               ss == [k \in C!Key |-> IF sp[k] > Earn THEN sp[k] - Earn ELSE 0]
    <3>1. /\ ss \in [C!Key -> Nat]
          /\ \A k \in DOMAIN oo : oo[k] \in Bucket
          /\ \A k \in C!Key : /\ ss[k] \in Nat
                              /\ k \in DOMAIN oo => ss[k] + Filled(oo[k]) <= Rps
                              /\ k \notin DOMAIN oo \/ C!ZoneOf(k) \notin zones => ss[k] = 0
      BY <2>1, BucketsOlder
    <3>2. o = oo /\ so = ss
      BY <2>1
    <3> HIDE DEF oo, ss
    <3> QED
      BY <3>1, <3>2
  <2> QED
    BY <1>1, <2>2 DEF so, o
<1>8. DOMAIN buckets' = DOMAIN buckets /\ DOMAIN inflight' = DOMAIN inflight
  BY <1>1
<1>9. BucketsSane(t, spent)'
  BY <1>1, <1>3, <1>5, <1>7, <1>8 DEF BucketsSane
<1>10. ASSUME NEW k \in C!Key  PROVE pending'[k] \in Seq(Ages)
  <2> DEFINE p == pending[k]
  <2>1. pending'[k] = [i \in DOMAIN p |-> C!Older(p[i], MaxAge + 1)] /\ p \in Seq(Ages) /\ 0 \in 0..MaxAge
    <3>1. 0 \in 0..MaxAge
      BY CeilingsGiven
    <3> QED
      BY <1>1, <1>6, <3>1
  <2> HIDE DEF p
  <2>2. [i \in DOMAIN p |-> C!Older(p[i], MaxAge + 1)] \in Seq(Ages)
    BY <2>1, UptoOlder
  <2> QED
    BY <2>1, <2>2
<1>11. pending' \in [C!Key -> Seq(Ages)]
  <2>1. pending' = [k \in C!Key |-> pending'[k]]
    BY <1>1
  <2> QED
    BY <1>10, <2>1
<1>12. ASSUME NEW k \in DOMAIN inflight  PROVE Stream(inflight'[k], pending'[k])
  <2> DEFINE f == inflight[k]
             p == pending[k]
  <2>1. p \in Seq(Ages) /\ Stream(f, p) /\ k \in C!Key
    BY <1>6
  <2>2. /\ inflight'[k] = [f EXCEPT !.opens = [i \in DOMAIN @ |-> C!Older(@[i], MaxAge + 1)],
                                     !.lastOpen = C!Older(@, Idle + 1), !.lastClose = C!Older(@, Idle + 1)]
        /\ pending'[k] = [i \in DOMAIN p |-> C!Older(p[i], MaxAge + 1)]
    BY <1>1, <2>1
  <2> DEFINE g == [f EXCEPT !.opens = [i \in DOMAIN @ |-> C!Older(@[i], MaxAge + 1)],
                            !.lastOpen = C!Older(@, Idle + 1), !.lastClose = C!Older(@, Idle + 1)]
             q == [i \in DOMAIN p |-> C!Older(p[i], MaxAge + 1)]
  <2>3. inflight'[k] = g /\ pending'[k] = q
    BY <2>2
  <2>4. Stream(g, q)
    <3> HIDE DEF f, p
    <3> QED
      BY <2>1, StreamOlder
  <2> HIDE DEF f, p, g, q
  <2> QED
    BY <2>3, <2>4
<1>13. StreamsSane(t, pending)'
  BY <1>3, <1>6, <1>8, <1>11, <1>12 DEF StreamsSane
<1>14. swept' \in 0..SweepEvery
  <2>1. swept \in 0..SweepEvery /\ SweepEvery \in Nat /\ swept' = IF swept + 1 < SweepEvery THEN swept + 1 ELSE SweepEvery
    BY <1>1, <1>4, CeilingsGiven DEF C!Older, C!Least
  <2> QED
    BY <2>1
<1>15. Sane(t, spent, pending)'
  BY <1>3, <1>9, <1>13, <1>14 DEF Sane
<1> QED
  BY <1>1, <1>7, <1>15 DEF t

\* What is committed is the service's.
LEMMA CeilingsCommit ==
  ASSUME NEW t, C!Commit(t), Sane(t, spent', pending'), zones' = zones
  PROVE  Sane(C!Tables, spent, pending)'
<1>1. C!Tables' = [buckets |-> t.buckets, perZone |-> t.perZone, inflight |-> t.inflight, swept |-> t.swept]
  BY DEF C!Tables, C!Commit
<1>2. C!Tables' = t
  BY <1>1 DEF Sane
<1>3. Sane(t, spent', pending') = Sane(C!Tables, spent, pending)'
  BY <1>2 DEF Sane, BucketsSane, StreamsSane
<1> QED
  BY <1>3

\* A node that has just started has no buckets.
LEMMA CeilingsInit ==
  ASSUME C!AdmissionAssumption, C!Init
  PROVE  C!IInv
<1> DEFINE t == C!Tables
<1>1. /\ zones = {} /\ buckets = <<>> /\ perZone = [z \in Zone |-> 0] /\ inflight = <<>> /\ swept = SweepEvery
      /\ pending = [k \in C!Key |-> <<>>] /\ spent = [k \in C!Key |-> 0]
  BY DEF C!Init
<1>2. /\ t.buckets = buckets /\ t.perZone = perZone /\ t.inflight = inflight /\ t.swept = swept
      /\ t = [buckets |-> t.buckets, perZone |-> t.perZone, inflight |-> t.inflight, swept |-> t.swept]
  BY DEF C!Tables
<1> HIDE DEF t
<1>3. DOMAIN t.buckets = {} /\ DOMAIN t.inflight = {}
  BY <1>1, <1>2
<1>4. Cardinality({}) = 0 /\ IsFiniteSet({}) /\ MaxSources \in Nat /\ SweepEvery \in Nat
  BY FS_EmptySet, CeilingsGiven
<1>5. spent \in [C!Key -> Nat] /\ pending \in [C!Key -> Seq(Ages)] /\ perZone \in [Zone -> Nat]
  BY <1>1
<1>6. \A z \in Zone : perZone[z] = Cardinality({k \in {} : C!ZoneOf(k) = z})
  <2>1. \A z : {k \in {} : C!ZoneOf(k) = z} = {}
    OBVIOUS
  <2>2. \A z : Cardinality({k \in {} : C!ZoneOf(k) = z}) = 0
    BY <1>4, <2>1, Zenon
  <2> QED
    BY <1>1, <2>2
<1>7. BucketsSane(t, spent)
  BY <1>1, <1>2, <1>3, <1>4, <1>5, <1>6 DEF BucketsSane
<1>8. StreamsSane(t, pending)
  BY <1>3, <1>4, <1>5 DEF StreamsSane
<1>9. Sane(t, spent, pending) /\ zones \subseteq Zone
  BY <1>1, <1>2, <1>4, <1>7, <1>8 DEF Sane
<1> QED
  BY <1>5, <1>9, CeilingsGive DEF t

\* Every step keeps the invariant of the ceilings.
LEMMA CeilingsStep ==
  ASSUME C!AdmissionAssumption, C!IInv, [C!Next]_C!vars
  PROVE  C!IInv'
<1> DEFINE Kept == Sane(C!Tables, spent, pending) /\ zones \subseteq Zone /\ spent \in [C!Key -> Nat]
<1>1. Sane(C!Tables, spent, pending) /\ zones \subseteq Zone /\ spent \in [C!Key -> Nat]
  BY CeilingsTaken
<1>2. ASSUME UNCHANGED C!vars  PROVE Kept'
  <2>1. /\ zones' = zones /\ spent' = spent /\ pending' = pending /\ buckets' = buckets
        /\ perZone' = perZone /\ inflight' = inflight /\ swept' = swept
    BY <1>2 DEF C!vars
  <2>2. C!Commit(C!Tables)
    BY <2>1 DEF C!Commit, C!Tables
  <2>3. Sane(C!Tables, spent', pending')
    BY <1>1, <2>1
  <2>4. Sane(C!Tables, spent, pending)'
    <3> DEFINE t == C!Tables
    <3>1. C!Commit(t) /\ Sane(t, spent', pending')
      BY <2>2, <2>3
    <3> HIDE DEF t
    <3> QED
      BY <2>1, <3>1, CeilingsCommit
  <2> QED
    BY <1>1, <2>1, <2>4
<1>3. ASSUME NEW t, C!Commit(t), Sane(t, spent', pending'), zones' = zones, spent' \in [C!Key -> Nat]
      PROVE  Kept'
  BY <1>1, <1>3, CeilingsCommit
<1>4. ASSUME NEW k \in C!Key, NEW refused \in BOOLEAN, C!DecideRequest(k, refused)  PROVE Kept'
  <2>1. /\ \E t : C!Commit(t) /\ Sane(t, spent', pending')
        /\ spent' \in [C!Key -> Nat] /\ zones' = zones
    BY <1>1, <1>4, CeilingsDecide
  <2> HIDE DEF Kept
  <2> QED
    BY <1>3, <2>1
<1>5. ASSUME NEW k \in C!Key, NEW i, C!Complete(k, i)  PROVE Kept'
  <2>1. (\E t : C!Commit(t) /\ Sane(t, spent', pending')) /\ spent' = spent /\ zones' = zones
    BY <1>1, <1>5, CeilingsComplete
  <2> HIDE DEF Kept
  <2> QED
    BY <1>1, <1>3, <2>1
<1>6. ASSUME C!SetZones  PROVE Kept'
  BY <1>1, <1>6, CeilingsZones
<1>7. ASSUME C!Tick  PROVE Kept'
  <2> DEFINE t == C!Paced(C!Tables, SweepEvery)
  <2>1. C!Commit(t) /\ zones' = zones /\ pending' = pending /\ spent' = spent
    BY <1>7 DEF C!Tick
  <2>2. Sane(t, spent, pending)
    BY <1>1, PacedSane
  <2> HIDE DEF t, Kept
  <2> QED
    BY <1>1, <1>3, <2>1, <2>2
<1>8. ASSUME C!TimePasses  PROVE Kept'
  BY <1>1, <1>8, CeilingsTime
<1> HIDE DEF Kept
<1>9. Kept'
  BY <1>2, <1>4, <1>5, <1>6, <1>7, <1>8 DEF C!Next
<1>10. (Sane(C!Tables, spent, pending) /\ zones \subseteq Zone /\ spent \in [C!Key -> Nat] => C!IInv)'
  BY CeilingsGive, PTL
<1> QED
  BY <1>9, <1>10 DEF Kept
=============================================================================
