----------------------------- MODULE BrainProofs ----------------------------
(***************************************************************************)
(* What the parts of the brain promise, whatever the sizes.  For each part, *)
(* that its inductive invariant holds at the start, that its steps keep it,  *)
(* and what follows (BrainPartProofs has the ban table and its file, the     *)
(* measurement and the telling); and then the same of the brain.            *)
(***************************************************************************)
EXTENDS BrainPartProofs

---------------------------------------------------------------------------
(* The source blocks.                                                      *)

\* A pair's entry that the kernel is to enforce.
Real(e) == e # Free /\ ~e.dry /\ e.left > 0

\* One more element makes a finite set at most one larger.
LEMMA OneMore ==
  ASSUME NEW X, NEW x, IsFiniteSet(X)
  PROVE  /\ IsFiniteSet(X \cup {x}) /\ Cardinality(X \cup {x}) \in Nat
         /\ Cardinality(X \cup {x}) <= Cardinality(X) + 1
<1>1. IsFiniteSet(X \cup {x}) /\ Cardinality(X \cup {x}) = IF x \in X THEN Cardinality(X) ELSE Cardinality(X) + 1
  BY FS_AddElement
<1>2. Cardinality(X) \in Nat
  BY FS_CardinalityType
<1> QED
  BY <1>1, <1>2

\* The cardinalities of the anchors are the library's.
LEMMA SourcesCounted ==
  /\ \A X : S!IsFiniteSet(X) <=> IsFiniteSet(X)
  /\ \A X : S!Cardinality(X) = Cardinality(X)
<1>1. \A X : S!IsFiniteSet(X) <=> IsFiniteSet(X)
  BY DEF S!IsFiniteSet, IsFiniteSet
<1>2. \A X : S!Cardinality(X) = Cardinality(X)
  BY DEF S!Cardinality, Cardinality
<1> QED
  BY <1>1, <1>2

\* The invariant, pair by pair.
LEMMA SourcesKnown ==
  ASSUME S!SourcesAssumption, S!IInv
  PROVE  /\ pol \in Policies /\ pairs \in [Pair -> S!Entry \cup {Free}] /\ drop \in [Pair -> 0..Ttl]
         /\ fpAnchors \subseteq S!Source /\ installed \subseteq S!Source /\ leaked \subseteq S!Source
         /\ fpAnchors \subseteq S!Anchors(pairs) /\ Cardinality(fpAnchors) <= S!FpBudget
         /\ IsFiniteSet(fpAnchors) /\ Cardinality(fpAnchors) \in Nat
         /\ \A p \in Pair : /\ p[1] \in S!Source
                            /\ Real(pairs[p]) => drop[p] = pairs[p].left /\ p[1] \in installed
                            /\ drop[p] > 0 => Real(pairs[p]) \/ p[1] \in leaked
<1>1. IsFiniteSet(S!Source)
  <2> DEFINE f == [p \in Pair |-> p[1]]
  <2>1. f \in Surjection(Pair, S!Source)
    BY DEF Surjection, S!Source
  <2> QED
    BY <2>1, FS_Surjection, SourcesCounted DEF S!SourcesAssumption
<1>2. fpAnchors \subseteq S!Source
  BY DEF S!IInv, S!TypeOK
<1>3. IsFiniteSet(fpAnchors) /\ Cardinality(fpAnchors) \in Nat
  BY <1>1, <1>2, FS_Subset, FS_CardinalityType
<1> QED
  BY <1>3, SourcesCounted
  DEF S!IInv, S!TypeOK, S!OperatorReserve, S!TableIsKernel, S!InstalledSources, Real, S!Source

\* The invariant from what it says of each pair.
LEMMA SourcesKept ==
  ASSUME pol' \in Policies, pairs' \in [Pair -> S!Entry \cup {Free}], drop' \in [Pair -> 0..Ttl],
         fpAnchors' \subseteq S!Source, installed' \subseteq S!Source, leaked' \subseteq S!Source,
         fpAnchors' \subseteq S!Anchors(pairs'), Cardinality(fpAnchors') <= S!FpBudget,
         \A p \in Pair : /\ Real(pairs'[p]) => drop'[p] = pairs'[p].left /\ p[1] \in installed'
                         /\ drop'[p] > 0 => Real(pairs'[p]) \/ p[1] \in leaked'
  PROVE  S!IInv'
<1>1. S!TypeOK'
  BY DEF S!TypeOK
<1>2. S!OperatorReserve'
  BY SourcesCounted DEF S!OperatorReserve, S!Anchors, S!Live
<1>3. S!TableIsKernel' /\ S!InstalledSources'
  BY DEF S!TableIsKernel, S!InstalledSources, Real
<1> QED
  BY <1>1, <1>2, <1>3 DEF S!IInv

\* A source is an anchor while one of its pairs is blocked.
LEMMA AnchorIs ==
  ASSUME NEW t, NEW s
  PROVE  s \in S!Anchors(t) <=> s \in S!Source /\ \E p \in Pair : p[1] = s /\ t[p] # Free
  BY DEF S!Anchors, S!Live, S!Of

\* After a source's block is rebuilt, or lost, or refused, or withdrawn, or not, the table and the
\* kernel agree about it, and nothing has happened to any other.
LEMMA Reinstalled ==
  ASSUME S!SourcesAssumption, S!IInv, NEW s \in S!Source,
         NEW t \in [Pair -> S!Entry \cup {Free}], \A p \in Pair : p[1] # s => t[p] = pairs[p],
         NEW fp \in SUBSET S!Anchors(t), IsFiniteSet(fp), Cardinality(fp) <= S!FpBudget,
         NEW r \in S!Reinstall(t, fp, drop, s), S!Becomes(r), pol' \in Policies
  PROVE  S!IInv'
<1>1. /\ pairs \in [Pair -> S!Entry \cup {Free}] /\ drop \in [Pair -> 0..Ttl] /\ Ttl \in Nat
      /\ installed \subseteq S!Source /\ leaked \subseteq S!Source
      /\ \A p \in Pair : /\ p[1] \in S!Source
                         /\ Real(pairs[p]) => drop[p] = pairs[p].left /\ p[1] \in installed
                         /\ drop[p] > 0 => Real(pairs[p]) \/ p[1] \in leaked
  BY SourcesKnown DEF S!SourcesAssumption
<1>2. \A p \in Pair : p \in S!Enforced(t, s) <=> p[1] = s /\ Real(t[p])
  BY DEF S!Enforced, S!Live, S!Of, Real
<1>3. \A p \in Pair : Real(t[p]) => t[p].left \in 0..Ttl
  BY DEF Real, S!Entry
<1>4. ~Real(Free)
  BY DEF Real
<1>5. fp \subseteq S!Source /\ Cardinality(fp \ {s}) <= S!FpBudget
  <2>1. Cardinality(fp \ {s}) <= Cardinality(fp) /\ Cardinality(fp) \in Nat /\ Cardinality(fp \ {s}) \in Nat
    BY FS_Subset, FS_CardinalityType
  <2>2. S!FpBudget \in Nat
    BY DEF S!FpBudget, S!SourcesAssumption
  <2> QED
    BY <2>1, <2>2 DEF S!Anchors
<1>6. pairs' = r.pairs /\ fpAnchors' = r.fp /\ drop' = r.drop /\ installed' = r.inst /\ leaked' = r.leaked
  BY DEF S!Becomes
<1> DEFINE built == [p \in Pair |-> IF p \in S!Enforced(t, s) THEN t[p].left ELSE IF p[1] = s THEN 0 ELSE drop[p]]
           without == [p \in Pair |-> IF p[1] = s THEN Free ELSE t[p]]
           clean == [p \in Pair |-> IF p[1] = s THEN 0 ELSE drop[p]]
<1>7. /\ built \in [Pair -> 0..Ttl] /\ clean \in [Pair -> 0..Ttl] /\ without \in [Pair -> S!Entry \cup {Free}]
  BY <1>1, <1>2, <1>3
<1>8. \A x \in fp \ {s} : x \in S!Anchors(without)
  <2> SUFFICES ASSUME NEW x \in fp \ {s} PROVE x \in S!Anchors(without)
    OBVIOUS
  <2>1. PICK p \in Pair : p[1] = x /\ t[p] # Free
    BY AnchorIs
  <2>2. without[p] # Free
    BY <2>1
  <2> HIDE DEF without
  <2> QED
    BY <1>5, <2>1, <2>2, AnchorIs
<1>9. CASE S!Enforced(t, s) # {} /\ r = S!Result(t, fp, built, installed \cup {s}, leaked \ {s})
  <2>1. pairs' = t /\ fpAnchors' = fp /\ drop' = built /\ installed' = installed \cup {s} /\ leaked' = leaked \ {s}
    BY <1>6, <1>9 DEF S!Result
  <2>2. \A p \in Pair : /\ Real(t[p]) => built[p] = t[p].left /\ p[1] \in installed \cup {s}
                        /\ built[p] > 0 => Real(t[p]) \/ p[1] \in leaked \ {s}
    BY <1>1, <1>2
  <2> HIDE DEF built
  <2> QED
    BY <1>1, <1>5, <1>7, <2>1, <2>2, SourcesKept
<1>10. CASE r = S!Result(without, fp \ {s}, clean, installed \ {s}, leaked \ {s})
  <2>1. /\ pairs' = without /\ fpAnchors' = fp \ {s} /\ drop' = clean /\ installed' = installed \ {s}
        /\ leaked' = leaked \ {s}
    BY <1>6, <1>10 DEF S!Result
  <2>2. \A p \in Pair : /\ Real(without[p]) => clean[p] = without[p].left /\ p[1] \in installed \ {s}
                        /\ clean[p] > 0 => Real(without[p]) \/ p[1] \in leaked \ {s}
    BY <1>1, <1>4
  <2>3. \A x \in fp \ {s} : x \in S!Anchors(without)
    BY <1>8
  <2> HIDE DEF without, clean
  <2> QED
    BY <1>1, <1>5, <1>7, <2>1, <2>2, <2>3, SourcesKept
<1>11. CASE S!Enforced(t, s) = {} /\ s \notin installed /\ r = S!Result(t, fp, drop, installed, leaked)
  <2>1. pairs' = t /\ fpAnchors' = fp /\ drop' = drop /\ installed' = installed /\ leaked' = leaked
    BY <1>6, <1>11 DEF S!Result
  <2>2. \A p \in Pair : /\ Real(t[p]) => drop[p] = t[p].left /\ p[1] \in installed
                        /\ drop[p] > 0 => Real(t[p]) \/ p[1] \in leaked
    BY <1>1, <1>2, <1>11
  <2> QED
    BY <1>1, <1>5, <2>1, <2>2, SourcesKept
<1>12. CASE S!Enforced(t, s) = {} /\ r = S!Result(t, fp, clean, installed \ {s}, leaked \ {s})
  <2>1. pairs' = t /\ fpAnchors' = fp /\ drop' = clean /\ installed' = installed \ {s} /\ leaked' = leaked \ {s}
    BY <1>6, <1>12 DEF S!Result
  <2>2. \A p \in Pair : /\ Real(t[p]) => clean[p] = t[p].left /\ p[1] \in installed \ {s}
                        /\ clean[p] > 0 => Real(t[p]) \/ p[1] \in leaked \ {s}
    BY <1>1, <1>2, <1>12
  <2> HIDE DEF clean
  <2> QED
    BY <1>1, <1>5, <1>7, <2>1, <2>2, SourcesKept
<1>13. CASE S!Enforced(t, s) = {} /\ r = S!Result(t, fp, drop, installed \ {s}, leaked \cup {s})
  <2>1. pairs' = t /\ fpAnchors' = fp /\ drop' = drop /\ installed' = installed \ {s} /\ leaked' = leaked \cup {s}
    BY <1>6, <1>13 DEF S!Result
  <2>2. \A p \in Pair : /\ Real(t[p]) => drop[p] = t[p].left /\ p[1] \in installed \ {s}
                        /\ drop[p] > 0 => Real(t[p]) \/ p[1] \in leaked \cup {s}
    BY <1>1, <1>2, <1>13
  <2> QED
    BY <1>1, <1>5, <2>1, <2>2, SourcesKept
<1>14. CASE r = S!Result(without, fp \ {s}, drop, installed \ {s}, leaked \cup {s})
  <2>1. /\ pairs' = without /\ fpAnchors' = fp \ {s} /\ drop' = drop /\ installed' = installed \ {s}
        /\ leaked' = leaked \cup {s}
    BY <1>6, <1>14 DEF S!Result
  <2>2. \A p \in Pair : /\ Real(without[p]) => drop[p] = without[p].left /\ p[1] \in installed \ {s}
                        /\ drop[p] > 0 => Real(without[p]) \/ p[1] \in leaked \cup {s}
    BY <1>1, <1>4
  <2>3. \A x \in fp \ {s} : x \in S!Anchors(without)
    BY <1>8
  <2> HIDE DEF without
  <2> QED
    BY <1>1, <1>5, <1>7, <2>1, <2>2, <2>3, SourcesKept
<1> QED
  BY <1>9, <1>10, <1>11, <1>12, <1>13, <1>14 DEF S!Reinstall, S!Dropped, S!Without, S!Cleaned

\* No pair, anchor or rule at the start.
LEMMA SourcesInit ==
  ASSUME S!SourcesAssumption, S!Init
  PROVE  S!IInv
<1>1. S!Cardinality({}) = 0 /\ 0 <= S!FpBudget
  BY SourcesCounted, FS_EmptySet DEF S!FpBudget, S!SourcesAssumption
<1> QED
  BY <1>1 DEF S!SourcesAssumption, S!Init, S!IInv, S!TypeOK, S!TableIsKernel, S!OperatorReserve, S!InstalledSources

\* A block claims an anchor only where there is one to claim.
LEMMA SourcesBlock ==
  ASSUME S!SourcesAssumption, S!IInv, NEW p \in Pair, NEW ttl \in 1..Ttl, NEW auto \in BOOLEAN,
         S!Block(p, ttl, auto), UNCHANGED pol
  PROVE  S!IInv'
<1> DEFINE e == [left |-> ttl, dry |-> pol.dryRun, auto |-> auto]
           t == [pairs EXCEPT ![p] = e]
           fp == IF auto /\ S!Live(pairs, p[1]) = {} THEN fpAnchors \cup {p[1]} ELSE fpAnchors
<1>1. /\ pol \in Policies /\ pairs \in [Pair -> S!Entry \cup {Free}] /\ p[1] \in S!Source /\ Ttl \in Nat
      /\ fpAnchors \subseteq S!Anchors(pairs) /\ Cardinality(fpAnchors) <= S!FpBudget
      /\ IsFiniteSet(fpAnchors) /\ Cardinality(fpAnchors) \in Nat /\ S!FpBudget \in Nat
  BY SourcesKnown DEF S!SourcesAssumption, S!FpBudget
<1>2. e \in S!Entry /\ e # Free
  BY <1>1 DEF S!Entry, S!SourcesAssumption
<1> HIDE DEF e
<1>3. t \in [Pair -> S!Entry \cup {Free}] /\ \A x \in Pair : t[x] = IF x = p THEN e ELSE pairs[x]
  BY <1>1, <1>2
<1>4. PICK r \in S!Reinstall(t, fp, drop, p[1]) : S!Becomes(r)
  BY DEF S!Block, e
<1>5. auto /\ S!Live(pairs, p[1]) = {} => Cardinality(fpAnchors) < S!FpBudget
  BY SourcesCounted DEF S!Block, S!Accepts, S!HasSlot
<1>6. IsFiniteSet(fp) /\ Cardinality(fp) <= S!FpBudget
  <2>1. CASE auto /\ S!Live(pairs, p[1]) = {}
    <3>1. /\ IsFiniteSet(fpAnchors \cup {p[1]}) /\ Cardinality(fpAnchors \cup {p[1]}) \in Nat
          /\ Cardinality(fpAnchors \cup {p[1]}) <= Cardinality(fpAnchors) + 1
      BY <1>1, OneMore
    <3> QED
      BY <1>1, <1>5, <2>1, <3>1
  <2>2. CASE ~(auto /\ S!Live(pairs, p[1]) = {})
    BY <1>1, <2>2
  <2> QED
    BY <2>1, <2>2
<1> HIDE DEF t
<1>7. \A s \in fp : s \in S!Anchors(t)
  <2>1. \A s \in fpAnchors : s \in S!Anchors(t)
    <3> SUFFICES ASSUME NEW s \in fpAnchors PROVE s \in S!Anchors(t)
      OBVIOUS
    <3>1. PICK x \in Pair : x[1] = s /\ pairs[x] # Free /\ s \in S!Source
      BY <1>1, AnchorIs
    <3>2. t[x] # Free
      BY <1>2, <1>3, <3>1
    <3> QED
      BY <3>1, <3>2, AnchorIs
  <2>2. p[1] \in S!Anchors(t)
    BY <1>1, <1>2, <1>3, AnchorIs
  <2> QED
    BY <2>1, <2>2
<1> HIDE DEF fp
<1> QED
  BY <1>1, <1>3, <1>4, <1>6, <1>7, Reinstalled

\* A source that loses its last pair gives its anchor back.
LEMMA SourcesFreed ==
  ASSUME S!SourcesAssumption, S!IInv, NEW s \in S!Source, NEW t \in [Pair -> S!Entry \cup {Free}],
         \A x \in Pair : t[x] = pairs[x] \/ (x[1] = s /\ t[x] = Free),
         \E r \in S!Reinstall(t, S!Attributed(t, s), drop, s) : S!Becomes(r), UNCHANGED pol
  PROVE  S!IInv'
<1> DEFINE fp == S!Attributed(t, s)
<1>1. /\ pol \in Policies /\ fpAnchors \subseteq S!Anchors(pairs) /\ Cardinality(fpAnchors) <= S!FpBudget
      /\ IsFiniteSet(fpAnchors) /\ Cardinality(fpAnchors) \in Nat /\ S!FpBudget \in Nat
  BY SourcesKnown DEF S!SourcesAssumption, S!FpBudget
<1>2. fp \subseteq fpAnchors /\ (S!Live(t, s) = {} => s \notin fp)
  BY DEF S!Attributed
<1> HIDE DEF fp
<1>3. IsFiniteSet(fp) /\ Cardinality(fp) <= S!FpBudget
  <2>1. IsFiniteSet(fp) /\ Cardinality(fp) <= Cardinality(fpAnchors) /\ Cardinality(fp) \in Nat
    BY <1>1, <1>2, FS_Subset, FS_CardinalityType
  <2> QED
    BY <1>1, <2>1
<1>4. ASSUME NEW x \in fp  PROVE x \in S!Anchors(t)
  <2>1. PICK p \in Pair : p[1] = x /\ pairs[p] # Free /\ x \in S!Source
    BY <1>1, <1>2, AnchorIs
  <2>2. CASE x = s
    <3>1. S!Live(t, s) # {}
      BY <1>2, <2>2
    <3> QED
      BY <2>1, <2>2, <3>1 DEF S!Anchors
  <2>3. CASE x # s
    <3>1. t[p] # Free
      BY <2>1, <2>3
    <3> QED
      BY <2>1, <3>1, AnchorIs
  <2> QED
    BY <2>2, <2>3
<1>5. PICK r \in S!Reinstall(t, fp, drop, s) : S!Becomes(r)
  BY DEF fp
<1> QED
  BY <1>1, <1>3, <1>4, <1>5, Reinstalled

\* An operator's unblock is the removal of one pair.
LEMMA SourcesUnblock ==
  ASSUME S!SourcesAssumption, S!IInv, NEW p \in Pair, S!UnblockSource(p)
  PROVE  S!IInv'
<1> DEFINE t == [pairs EXCEPT ![p] = Free]
<1>1. pairs \in [Pair -> S!Entry \cup {Free}] /\ p[1] \in S!Source
  BY SourcesKnown
<1>2. t \in [Pair -> S!Entry \cup {Free}] /\ \A x \in Pair : t[x] = pairs[x] \/ (x[1] = p[1] /\ t[x] = Free)
  BY <1>1
<1>3. (\E r \in S!Reinstall(t, S!Attributed(t, p[1]), drop, p[1]) : S!Becomes(r)) /\ UNCHANGED pol
  BY DEF S!UnblockSource
<1> HIDE DEF t
<1> QED
  BY <1>1, <1>2, <1>3, SourcesFreed

\* A source swept of its ended pairs is rebuilt without them.
LEMMA SourcesSweep ==
  ASSUME S!SourcesAssumption, S!IInv, NEW s \in S!Source, S!SweepSource(s)
  PROVE  S!IInv'
<1> DEFINE t == [p \in Pair |-> IF p \in S!Retired(s) THEN Free ELSE pairs[p]]
<1>1. pairs \in [Pair -> S!Entry \cup {Free}]
  BY SourcesKnown
<1>2. \A p \in S!Retired(s) : p[1] = s
  BY DEF S!Retired, S!Live, S!Of
<1>3. t \in [Pair -> S!Entry \cup {Free}] /\ \A x \in Pair : t[x] = pairs[x] \/ (x[1] = s /\ t[x] = Free)
  BY <1>1, <1>2
<1>4. (\E r \in S!Reinstall(t, S!Attributed(t, s), drop, s) : S!Becomes(r)) /\ UNCHANGED pol
  BY DEF S!SweepSource
<1> HIDE DEF t
<1> QED
  BY <1>1, <1>3, <1>4, SourcesFreed

\* What a restart restores it installs, or gives up; what it finds of the others lapses.
LEMMA SourcesRestart ==
  ASSUME S!SourcesAssumption, S!IInv, S!Restart
  PROVE  S!IInv'
<1>1. /\ pol \in Policies /\ pairs \in [Pair -> S!Entry \cup {Free}] /\ drop \in [Pair -> 0..Ttl] /\ Ttl \in Nat
      /\ S!FpBudget \in Nat /\ \A p \in Pair : p[1] \in S!Source
  BY SourcesKnown DEF S!SourcesAssumption, S!FpBudget
<1> DEFINE Restored(K, fp, failed, wiped) ==
      LET t == [p \in Pair |-> IF p[1] \in failed THEN Free ELSE S!Rehydrated(K)[p]]
          up == {s \in S!Source : S!Enforced(t, s) # {}}
      IN /\ \A p \in S!Kept \ K : pairs[p].auto /\ S!Cardinality(fp) >= S!FpBudget
         /\ failed \subseteq {s \in S!Source : S!Enforced(S!Rehydrated(K), s) # {}}
         /\ fp \subseteq S!FirstAuto(K) /\ S!Cardinality(fp) <= S!FpBudget
         /\ \A s \in S!Source : S!Live(S!Rehydrated(K), s) # {}
              /\ (\A p \in S!Live(S!Rehydrated(K), s) : pairs[p].auto) => s \in fp
         /\ pairs' = t
         /\ fpAnchors' = fp \ failed
         /\ installed' = up
         /\ drop' = [p \in Pair |-> IF p \in S!Enforced(t, p[1]) THEN t[p].left
                                    ELSE IF p[1] \in up \cup wiped THEN 0 ELSE drop[p]]
         /\ leaked' = {s \in S!Source \ (up \cup wiped) : \E p \in S!Of(s) : drop[p] > 0}
         /\ UNCHANGED pol
<1>2. PICK K \in SUBSET S!Kept, fp \in SUBSET S!Source, failed \in SUBSET S!Source :
       \E wiped \in SUBSET failed : Restored(K, fp, failed, wiped)
  BY Zenon DEF S!Restart
<1>3. PICK wiped \in SUBSET failed : Restored(K, fp, failed, wiped)
  BY <1>2
<1> DEFINE t == [p \in Pair |-> IF p[1] \in failed THEN Free ELSE S!Rehydrated(K)[p]]
           up == {s \in S!Source : S!Enforced(t, s) # {}}
           d == [p \in Pair |-> IF p \in S!Enforced(t, p[1]) THEN t[p].left
                                ELSE IF p[1] \in up \cup wiped THEN 0 ELSE drop[p]]
           l == {s \in S!Source \ (up \cup wiped) : \E p \in S!Of(s) : drop[p] > 0}
<1>4. /\ fp \subseteq S!FirstAuto(K) /\ Cardinality(fp) <= S!FpBudget
      /\ pairs' = t /\ fpAnchors' = fp \ failed /\ installed' = up /\ drop' = d /\ leaked' = l /\ pol' = pol
  BY <1>3, SourcesCounted
<1>5. ASSUME NEW p \in Pair
      PROVE  /\ t[p] \in S!Entry \cup {Free} /\ (p \in K /\ p[1] \notin failed => t[p] # Free)
             /\ p \in S!Enforced(t, p[1]) <=> Real(t[p])
             /\ Real(t[p]) => p[1] \in up /\ t[p].left \in 0..Ttl
  <2>1. pol.dryRun \in BOOLEAN
    BY <1>1 DEF S!SourcesAssumption
  <2>2. S!Rehydrated(K)[p] \in S!Entry \cup {Free} /\ (p \in K => S!Rehydrated(K)[p] # Free)
    <3>1. CASE p \in K
      <4>1. pairs[p] \in S!Entry
        BY <1>1, <3>1 DEF S!Kept
      <4>2. [pairs[p] EXCEPT !.dry = pol.dryRun] \in S!Entry
        BY <2>1, <4>1 DEF S!Entry
      <4>3. S!Rehydrated(K)[p] = [pairs[p] EXCEPT !.dry = pol.dryRun]
        BY <3>1 DEF S!Rehydrated
      <4> QED
        BY <4>2, <4>3 DEF S!Entry, S!SourcesAssumption
    <3>2. CASE p \notin K
      BY <3>2 DEF S!Rehydrated
    <3> QED
      BY <3>1, <3>2
  <2>3. t[p] \in S!Entry \cup {Free} /\ (p \in K /\ p[1] \notin failed => t[p] # Free)
    BY <2>2
  <2> HIDE DEF t
  <2>4. p \in S!Enforced(t, p[1]) <=> Real(t[p])
    BY DEF S!Enforced, S!Live, S!Of, Real
  <2>5. Real(t[p]) => p[1] \in up /\ t[p].left \in 0..Ttl
    BY <1>1, <2>3, <2>4 DEF S!Entry, Real
  <2> QED
    BY <2>3, <2>4, <2>5
<1>6. t \in [Pair -> S!Entry \cup {Free}]
  BY <1>5
<1> HIDE DEF t, up
<1>7. d \in [Pair -> 0..Ttl]
  BY <1>1, <1>5
<1>8. up \subseteq S!Source /\ l \subseteq S!Source
  BY DEF up
<1>9. ASSUME NEW p \in Pair
      PROVE  /\ Real(t[p]) => d[p] = t[p].left /\ p[1] \in up
             /\ d[p] > 0 => Real(t[p]) \/ p[1] \in l
  <2>1. d[p] = IF Real(t[p]) THEN t[p].left ELSE IF p[1] \in up \cup wiped THEN 0 ELSE drop[p]
    BY <1>5
  <2>2. ~Real(t[p]) /\ p[1] \notin up \cup wiped /\ drop[p] > 0 => p[1] \in l
    BY <1>1 DEF S!Of
  <2> HIDE DEF d, l
  <2> QED
    BY <1>5, <2>1, <2>2
<1> HIDE DEF d, l
<1>10. ASSUME NEW s \in fp \ failed  PROVE s \in S!Anchors(t)
  <2>1. PICK p \in K : p[1] = s /\ s \in S!Source
    BY <1>4 DEF S!FirstAuto
  <2>2. p \in Pair
    BY DEF S!Kept
  <2> QED
    BY <1>5, <2>1, <2>2, AnchorIs
<1>11. Cardinality(fp \ failed) <= S!FpBudget
  <2>1. IsFiniteSet(fp)
    <3> DEFINE f == [p \in Pair |-> p[1]]
    <3>1. f \in Surjection(Pair, S!Source)
      BY DEF Surjection, S!Source
    <3> QED
      BY <3>1, FS_Surjection, FS_Subset, SourcesCounted DEF S!SourcesAssumption
  <2>2. Cardinality(fp \ failed) <= Cardinality(fp) /\ Cardinality(fp) \in Nat /\ Cardinality(fp \ failed) \in Nat
    BY <2>1, FS_Subset, FS_CardinalityType
  <2> QED
    BY <1>1, <1>4, <2>2
<1> QED
  BY <1>1, <1>4, <1>6, <1>7, <1>8, <1>9, <1>10, <1>11, SourcesKept

\* Time shortens an entry and its rule alike.
LEMMA SourcesTick ==
  ASSUME S!SourcesAssumption, S!IInv, S!Tick
  PROVE  S!IInv'
<1>1. /\ pol \in Policies /\ pairs \in [Pair -> S!Entry \cup {Free}] /\ drop \in [Pair -> 0..Ttl] /\ Ttl \in Nat
      /\ fpAnchors \subseteq S!Source /\ installed \subseteq S!Source /\ leaked \subseteq S!Source
      /\ fpAnchors \subseteq S!Anchors(pairs) /\ Cardinality(fpAnchors) <= S!FpBudget
      /\ \A p \in Pair : /\ p[1] \in S!Source
                         /\ Real(pairs[p]) => drop[p] = pairs[p].left /\ p[1] \in installed
                         /\ drop[p] > 0 => Real(pairs[p]) \/ p[1] \in leaked
  BY SourcesKnown DEF S!SourcesAssumption
<1> DEFINE d == [p \in Pair |-> IF drop[p] > 0 THEN drop[p] - 1 ELSE 0]
           t == [p \in Pair |-> IF pairs[p] # Free /\ pairs[p].left > -1
                                THEN [pairs[p] EXCEPT !.left = pairs[p].left - 1] ELSE pairs[p]]
           l == {s \in leaked : \E p \in S!Of(s) : d[p] > 0}
<1>2. pairs' = t /\ drop' = d /\ leaked' = l /\ UNCHANGED <<pol, fpAnchors, installed>>
  BY DEF S!Tick
<1>3. d \in [Pair -> 0..Ttl] /\ \A p \in Pair : d[p] = IF drop[p] > 0 THEN drop[p] - 1 ELSE 0
  BY <1>1
<1>4. ASSUME NEW p \in Pair
      PROVE  /\ t[p] \in S!Entry \cup {Free} /\ (pairs[p] # Free => t[p] # Free)
             /\ Real(t[p]) => Real(pairs[p]) /\ t[p].left = pairs[p].left - 1
             /\ Real(pairs[p]) /\ pairs[p].left > 1 => Real(t[p])
  <2>1. CASE pairs[p] # Free /\ pairs[p].left > -1
    <3> DEFINE e == [pairs[p] EXCEPT !.left = pairs[p].left - 1]
    <3>1. pairs[p] \in S!Entry
      BY <1>1, <2>1
    <3>2. e \in S!Entry /\ e.left = pairs[p].left - 1 /\ e.dry = pairs[p].dry
      BY <1>1, <2>1, <3>1 DEF S!Entry
    <3>3. t[p] = e
      BY <2>1
    <3> HIDE DEF e, t
    <3>4. e # Free
      BY <3>2 DEF S!Entry, S!SourcesAssumption
    <3>5. pairs[p].left \in -1..Ttl /\ pairs[p].dry \in BOOLEAN
      BY <3>1 DEF S!Entry
    <3> QED
      BY <2>1, <3>2, <3>3, <3>4, <3>5 DEF Real
  <2>2. CASE ~(pairs[p] # Free /\ pairs[p].left > -1)
    <3>1. t[p] = pairs[p]
      BY <2>2
    <3>2. ~Real(pairs[p])
      <4>1. pairs[p] # Free => pairs[p].left \in -1..Ttl
        BY <1>1 DEF S!Entry
      <4> QED
        BY <1>1, <2>2, <4>1 DEF Real
    <3> QED
      BY <1>1, <3>1, <3>2
  <2> QED
    BY <2>1, <2>2
<1>5. t \in [Pair -> S!Entry \cup {Free}]
  BY <1>4
<1> HIDE DEF t
<1>6. ASSUME NEW p \in Pair
      PROVE  /\ Real(t[p]) => d[p] = t[p].left /\ p[1] \in installed
             /\ d[p] > 0 => Real(t[p]) \/ p[1] \in l
  <2>1. d[p] = (IF drop[p] > 0 THEN drop[p] - 1 ELSE 0) /\ drop[p] \in 0..Ttl
    BY <1>1, <1>3
  <2>2. Real(pairs[p]) => pairs[p].left \in 1..Ttl
    BY <1>1 DEF Real, S!Entry
  <2>3. d[p] > 0 /\ p[1] \in leaked => p[1] \in l
    BY DEF S!Of
  <2> HIDE DEF d, l
  <2> QED
    BY <1>1, <1>4, <2>1, <2>2, <2>3
<1>7. ASSUME NEW s \in fpAnchors  PROVE s \in S!Anchors(t)
  <2>1. PICK p \in Pair : p[1] = s /\ pairs[p] # Free /\ s \in S!Source
    BY <1>1, AnchorIs
  <2> QED
    BY <1>4, <2>1, AnchorIs
<1> HIDE DEF d
<1>8. l \subseteq S!Source
  BY <1>1
<1> HIDE DEF l
<1> QED
  BY <1>1, <1>2, <1>3, <1>5, <1>6, <1>7, <1>8, SourcesKept

\* Every step keeps the invariant.
LEMMA SourcesStep ==
  ASSUME S!SourcesAssumption, S!IInv, [S!Next]_S!vars
  PROVE  S!IInv'
<1>1. CASE UNCHANGED S!vars
  BY <1>1 DEF S!vars, S!IInv, S!TypeOK, S!TableIsKernel, S!OperatorReserve, S!InstalledSources, S!Anchors, S!Live
<1>2. ASSUME NEW p \in Pair, S!BlockSource(p)  PROVE S!IInv'
  BY <1>2, SourcesBlock DEF S!BlockSource
<1>3. ASSUME NEW p \in Pair, S!Classify(p)  PROVE S!IInv'
  <2>1. Ttl \in 1..Ttl
    BY DEF S!SourcesAssumption
  <2> QED
    BY <1>3, <2>1, SourcesBlock DEF S!Classify
<1>4. CASE S!Reload
  BY <1>4 DEF S!Reload, S!IInv, S!TypeOK, S!TableIsKernel, S!OperatorReserve, S!InstalledSources, S!Anchors, S!Live
<1> QED
  BY <1>1, <1>2, <1>3, <1>4, SourcesUnblock, SourcesSweep, SourcesRestart, SourcesTick DEF S!Next

---------------------------------------------------------------------------
(* The policy maps.                                                        *)

\* The least of some numbers is one of them.
LEMMA MapLeast ==
  ASSUME NEW X \in SUBSET Nat, X # {}
  PROVE  D!Least(X) \in X
<1>1. PICK x \in X : \A y \in X : x <= y
  BY LeastNatural
<1> QED
  BY <1>1 DEF D!Least

\* What an installer may remember, and that every profile in use holds its rate.
Shaped(m) ==
  m = [held |-> m.held, taken |-> m.taken, ceiling |-> m.ceiling,
       interned |-> m.interned, rate |-> m.rate]
Remembered(m) ==
  /\ Shaped(m)
  /\ m.held \in [Victim -> D!Slot \cup {D!NoSlot}] /\ m.taken \subseteq D!Slot
  /\ m.ceiling \in [Victim -> D!Profile \cup {D!NoProfile}]
  /\ m.interned \in [D!Profile -> Rate \cup {D!NoRate}] /\ m.rate \in [D!Profile -> Rate \cup {D!NoRate}]
  /\ \A w \in Victim : m.ceiling[w] # D!NoProfile =>
       m.interned[m.ceiling[w]] # D!NoRate /\ m.rate[m.ceiling[w]] = m.interned[m.ceiling[w]]

\* To a victim nothing has changed.
SameTo(w, m, n) ==
  /\ n.held[w] = m.held[w] /\ n.ceiling[w] = m.ceiling[w]
  /\ m.ceiling[w] # D!NoProfile => n.interned[m.ceiling[w]] = m.interned[m.ceiling[w]]

\* A slot and a profile are numbers, and what stands for none is not one of them.
LEMMA MapNumbers ==
  /\ D!NoSlot \notin D!Slot /\ D!NoProfile \notin D!Profile
  /\ D!Slot \subseteq Nat /\ D!Profile \subseteq Nat
  BY DEF D!NoSlot, D!Slot, D!NoProfile, D!Profile

\* What the installer remembers is of its shape.
LEMMA MapMemory ==
  ASSUME D!IInv
  PROVE  Remembered(D!Memory)
  BY DEF D!IInv, D!Typed, D!TypeOK, D!ProfilesHeld, D!Memory, Remembered, Shaped

\* Releasing a victim's ceiling changes nothing for another.
LEMMA MapReleased ==
  ASSUME NEW m, Remembered(m), NEW v \in Victim
  PROVE  LET n == D!Released(m, v)
         IN /\ Remembered(n) /\ n.held = m.held /\ n.taken = m.taken /\ n.ceiling[v] = D!NoProfile
            /\ \A w \in Victim \ {v} : SameTo(w, m, n)
<1> DEFINE q == m.ceiling[v]
           n == D!Released(m, v)
<1>1. CASE q = D!NoProfile
  BY <1>1 DEF D!Released, SameTo
<1>2. CASE q # D!NoProfile /\ \E w \in Victim \ {v} : m.ceiling[w] = q
  <2>1. n = [m EXCEPT !.ceiling = [m.ceiling EXCEPT ![v] = D!NoProfile]]
    BY <1>2 DEF D!Released, Remembered, Shaped
  <2>2. /\ n.held = m.held /\ n.taken = m.taken /\ n.interned = m.interned /\ n.rate = m.rate
        /\ n.ceiling = [m.ceiling EXCEPT ![v] = D!NoProfile]
        /\ Shaped(n)
    BY <2>1 DEF Remembered, Shaped
  <2> QED
    BY <2>2 DEF Remembered, SameTo
<1>3. CASE q # D!NoProfile /\ ~\E w \in Victim \ {v} : m.ceiling[w] = q
  <2>1. n = [m EXCEPT !.ceiling = [m.ceiling EXCEPT ![v] = D!NoProfile],
                      !.interned = [m.interned EXCEPT ![q] = D!NoRate],
                      !.rate = [m.rate EXCEPT ![q] = D!NoRate]]
    BY <1>3 DEF D!Released, Remembered, Shaped
  <2>2. /\ n.held = m.held /\ n.taken = m.taken
        /\ n.interned = [m.interned EXCEPT ![q] = D!NoRate] /\ n.rate = [m.rate EXCEPT ![q] = D!NoRate]
        /\ n.ceiling = [m.ceiling EXCEPT ![v] = D!NoProfile]
        /\ Shaped(n)
    BY <2>1 DEF Remembered, Shaped
  <2>3. q \in D!Profile
    BY <1>3 DEF Remembered
  <2> QED
    BY <1>3, <2>2, <2>3 DEF Remembered, SameTo
<1> QED
  BY <1>1, <1>2, <1>3

\* The profile found for a rate holds it, or nothing.
LEMMA MapProfileFor ==
  ASSUME NEW m, Remembered(m), NEW r \in Rate \cup {D!NoRate}, D!ProfileFor(m, r) # D!NoProfile
  PROVE  /\ D!ProfileFor(m, r) \in D!Profile
         /\ m.interned[D!ProfileFor(m, r)] \in {r, D!NoRate}
<1> DEFINE same == {p \in D!Profile : m.interned[p] = r}
           free == {p \in D!Profile : m.interned[p] = D!NoRate}
<1>1. same \in SUBSET Nat /\ free \in SUBSET Nat
  BY MapNumbers
<1>2. CASE same # {}
  BY <1>1, <1>2, MapLeast DEF D!ProfileFor
<1>3. CASE same = {} /\ free # {}
  BY <1>1, <1>3, MapLeast DEF D!ProfileFor
<1> QED
  BY <1>2, <1>3 DEF D!ProfileFor

\* Interning a rate for a victim that has none gives it a profile that holds it.
LEMMA MapInterned ==
  ASSUME NEW m, Remembered(m), NEW v \in Victim, m.ceiling[v] = D!NoProfile,
         NEW r \in Rate \cup {D!NoRate}, r # D!NoRate => D!ProfileFor(m, r) # D!NoProfile
  PROVE  LET n == D!Interned(m, v, r)
         IN /\ Remembered(n) /\ n.held = m.held /\ n.taken = m.taken
            /\ r = IF n.ceiling[v] = D!NoProfile THEN D!NoRate ELSE n.interned[n.ceiling[v]]
            /\ \A w \in Victim \ {v} : SameTo(w, m, n)
<1> DEFINE q == D!ProfileFor(m, r)
           n == D!Interned(m, v, r)
<1>1. CASE r = D!NoRate
  BY <1>1 DEF D!Interned, SameTo
<1>2. CASE r # D!NoRate
  <2>1. q \in D!Profile /\ m.interned[q] \in {r, D!NoRate} /\ q # D!NoProfile
    BY <1>2, MapProfileFor, MapNumbers
  <2>2. n = [m EXCEPT !.ceiling = [m.ceiling EXCEPT ![v] = q],
                      !.interned = [m.interned EXCEPT ![q] = r], !.rate = [m.rate EXCEPT ![q] = r]]
    BY <1>2, <2>1 DEF D!Interned, Remembered, Shaped
  <2>3. /\ n.held = m.held /\ n.taken = m.taken
        /\ n.interned = [m.interned EXCEPT ![q] = r] /\ n.rate = [m.rate EXCEPT ![q] = r]
        /\ n.ceiling = [m.ceiling EXCEPT ![v] = q]
        /\ Shaped(n)
    BY <2>2 DEF Remembered, Shaped
  <2> QED
    BY <1>2, <2>1, <2>3 DEF Remembered, SameTo
<1> QED
  BY <1>1, <1>2

\* A victim's slot is the one it has, or one that is not taken.
LEMMA MapSlotFor ==
  ASSUME D!IInv, NEW v \in Victim, D!SlotFor(D!Memory, v) # D!NoSlot
  PROVE  LET i == D!SlotFor(D!Memory, v)
         IN i \in D!Slot /\ (i = slotOf[v] \/ (slotOf[v] = D!NoSlot /\ i \notin taken))
<1>1. slotOf[v] \in D!Slot \cup {D!NoSlot}
  BY DEF D!IInv, D!Typed, D!TypeOK
<1>2. CASE slotOf[v] # D!NoSlot
  BY <1>1, <1>2 DEF D!SlotFor, D!Memory
<1>3. CASE slotOf[v] = D!NoSlot
  <2> DEFINE free == D!Slot \ taken
  <2>1. free # {} /\ D!SlotFor(D!Memory, v) = D!Least(free)
    BY <1>3 DEF D!SlotFor, D!Memory
  <2>2. free \in SUBSET Nat
    BY MapNumbers
  <2> QED
    BY <1>3, <2>1, <2>2, MapLeast
<1> QED
  BY <1>2, <1>3

\* The types of the block maps, of a call in progress and of what was asked for.
BlockMaps == [D!Gens -> [D!Slot -> [victim : Victim \cup {NoVictim}, profile : D!Profile \cup {D!NoProfile},
                                    live : BOOLEAN]]]
Calls == [op : {"none", "install", "withdraw"}, victim : Victim \cup {NoVictim},
          slot : D!Slot \cup {D!NoSlot}, fresh : BOOLEAN, rate : Rate \cup {D!NoRate}]
Wants == [Victim -> [on : BOOLEAN, rate : Rate \cup {D!NoRate}, own : BOOLEAN]]

\* A block whose rules may have expired is the same block.
LEMMA MapDead ==
  ASSUME NEW b \in [victim : Victim \cup {NoVictim}, profile : D!Profile \cup {D!NoProfile}, live : BOOLEAN],
         NEW v
  PROVE  LET d == [b EXCEPT !.live = @ /\ b.victim # v]
         IN /\ d \in [victim : Victim \cup {NoVictim}, profile : D!Profile \cup {D!NoProfile}, live : BOOLEAN]
            /\ d.victim = b.victim /\ d.profile = b.profile
            /\ d.live = (b.live /\ b.victim # v)
<1> DEFINE l == b.live /\ b.victim # v
<1>1. l \in BOOLEAN
  OBVIOUS
<1> HIDE DEF l
<1>2. LET d == [b EXCEPT !.live = l]
      IN /\ d \in [victim : Victim \cup {NoVictim}, profile : D!Profile \cup {D!NoProfile}, live : BOOLEAN]
         /\ d.victim = b.victim /\ d.profile = b.profile /\ d.live = l
  BY <1>1
<1> QED
  BY <1>2 DEF l

\* A reload begins with what it is to publish.
LEMMA MapReload ==
  ASSUME D!DataplaneAssumption, D!IInv, NEW p \in Policy, D!Reload(p)
  PROVE  D!IInv'
<1> USE DEF D!DataplaneAssumption
<1>1. D!Typed'
  BY DEF D!IInv, D!maps, D!memory, D!Reload, D!Typed, D!TypeOK
<1>2. D!SlotsApart'
  BY DEF D!IInv, D!maps, D!memory, D!Reload, D!SlotsApart
<1>3. D!KnowsNothing'
  BY DEF D!IInv, D!memory, D!Reload, D!KnowsNothing
<1>4. D!InProgress'
  BY DEF D!IInv, D!Ready, D!Reload, D!InProgress
<1>5. D!ProfilesHeld'
  BY DEF D!IInv, D!Live, D!maps, D!memory, D!Reload, D!ProfilesHeld
<1>6. D!Building'
  BY DEF D!IInv, D!Reload, D!Building
<1>7. D!DynamicRulesLive'
  BY DEF D!IInv, D!Live, D!maps, D!Reload, D!DynamicRulesLive
<1>8. D!NoForeignBlock'
  BY DEF D!IInv, D!Live, D!maps, D!InTrie, D!Reload, D!NoForeignBlock
<1>9. D!OptionsAreLive'
  BY DEF D!IInv, D!maps, D!Reload, D!OptionsAreLive
<1> QED
  BY <1>1, <1>2, <1>3, <1>4, <1>5, <1>6, <1>7, <1>8, <1>9 DEF D!IInv

\* The statics of a reload go to the generation that is not live.
LEMMA MapPutStatics ==
  ASSUME D!DataplaneAssumption, D!IInv, D!PutStatics
  PROVE  D!IInv'
<1> USE DEF D!DataplaneAssumption
<1>1. D!Typed'
  BY DEF D!IInv, D!memory, D!Typed, D!TypeOK, D!PutStatics
<1>2. D!SlotsApart'
  BY DEF D!IInv, D!memory, D!SlotsApart, D!PutStatics
<1>3. D!KnowsNothing'
  BY DEF D!IInv, D!memory, D!KnowsNothing, D!PutStatics
<1>4. D!InProgress'
  BY DEF D!IInv, D!InProgress, D!PutStatics
<1>5. D!ProfilesHeld'
  BY DEF D!IInv, D!Live, D!memory, D!ProfilesHeld, D!PutStatics
<1>6. D!Building'
  BY DEF D!IInv, D!Gens, D!Typed, D!TypeOK, D!Building, D!PutStatics, D!InactiveGeneration
<1>7. D!DynamicRulesLive'
  BY DEF D!IInv, D!Live, D!DynamicRulesLive, D!PutStatics
<1>8. D!NoForeignBlock'
  BY DEF D!IInv, D!Live, D!InTrie, D!NoForeignBlock, D!PutStatics
<1>9. D!OptionsAreLive'
  BY DEF D!IInv, D!Gens, D!Typed, D!TypeOK, D!OptionsAreLive, D!PutStatics, D!InactiveGeneration
<1> QED
  BY <1>1, <1>2, <1>3, <1>4, <1>5, <1>6, <1>7, <1>8, <1>9 DEF D!IInv

\* The blocks are mirrored there.
LEMMA MapMirror ==
  ASSUME D!DataplaneAssumption, D!IInv, D!MirrorPolicyBlocks
  PROVE  D!IInv'
<1> USE DEF D!DataplaneAssumption
<1>1. D!Typed'
  BY DEF D!IInv, D!memory, D!Typed, D!TypeOK, D!MirrorPolicyBlocks, D!Mirrored
<1>2. D!SlotsApart'
  BY DEF D!IInv, D!memory, D!SlotsApart, D!MirrorPolicyBlocks
<1>3. D!KnowsNothing'
  BY DEF D!IInv, D!memory, D!KnowsNothing, D!MirrorPolicyBlocks
<1>4. D!InProgress'
  BY DEF D!IInv, D!InProgress, D!MirrorPolicyBlocks
<1>5. D!ProfilesHeld'
  BY DEF D!IInv, D!Live, D!memory, D!ProfilesHeld, D!MirrorPolicyBlocks, D!Mirrored
<1>6. D!Building'
  BY DEF D!IInv, D!Gens, D!Typed, D!TypeOK, D!Building, D!InactiveGeneration,
         D!MirrorPolicyBlocks, D!Mirrored
<1>7. D!DynamicRulesLive'
  BY DEF D!IInv, D!Live, D!DynamicRulesLive, D!MirrorPolicyBlocks, D!Mirrored
<1>8. D!NoForeignBlock'
  BY DEF D!IInv, D!Live, D!InTrie, D!NoForeignBlock, D!MirrorPolicyBlocks, D!Mirrored
<1>9. D!OptionsAreLive'
  BY DEF D!IInv, D!OptionsAreLive, D!MirrorPolicyBlocks
<1> QED
  BY <1>1, <1>2, <1>3, <1>4, <1>5, <1>6, <1>7, <1>8, <1>9 DEF D!IInv

\* The generation built becomes the live one, with all that was wanted.
LEMMA MapActivate ==
  ASSUME D!DataplaneAssumption, D!IInv, D!Activate
  PROVE  D!IInv'
<1> USE DEF D!DataplaneAssumption
<1>1. D!Typed'
  BY DEF D!IInv, D!memory, D!Empty, D!Gens, D!Typed, D!TypeOK, D!Activate, D!Idled
<1>2. D!SlotsApart'
  BY DEF D!IInv, D!memory, D!SlotsApart, D!Activate
<1>3. D!KnowsNothing'
  BY DEF D!IInv, D!memory, D!KnowsNothing, D!Activate
<1>4. D!InProgress'
  BY DEF D!IInv, D!InProgress, D!Activate
<1>5. D!ProfilesHeld'
  BY DEF D!IInv, D!Live, D!memory, D!Profile, D!ProfilesHeld, D!Building, D!Activate, D!Idled
<1>6. D!Building'
  BY DEF D!IInv, D!Building, D!Activate
<1>7. D!DynamicRulesLive'
  BY DEF D!IInv, D!Live, D!Profile, D!Building, D!DynamicRulesLive, D!Activate, D!Idled
<1>8. D!NoForeignBlock'
  BY DEF D!IInv, D!Live, D!InTrie, D!Profile, D!Building, D!NoForeignBlock, D!Activate, D!Idled
<1>9. D!OptionsAreLive'
  BY DEF D!IInv, D!Building, D!OptionsAreLive, D!Activate
<1> QED
  BY <1>1, <1>2, <1>3, <1>4, <1>5, <1>6, <1>7, <1>8, <1>9 DEF D!IInv

\* A reload that fails leaves the live generation as it was.
LEMMA MapReloadFailed ==
  ASSUME D!DataplaneAssumption, D!IInv, D!ReloadFailed
  PROVE  D!IInv'
<1> USE DEF D!DataplaneAssumption
<1>1. D!Typed'
  BY DEF D!IInv, D!memory, D!Empty, D!Typed, D!TypeOK, D!Idled, D!ReloadFailed
<1>2. D!SlotsApart'
  BY DEF D!IInv, D!memory, D!SlotsApart, D!ReloadFailed
<1>3. D!KnowsNothing'
  BY DEF D!IInv, D!memory, D!KnowsNothing, D!ReloadFailed
<1>4. D!InProgress'
  BY DEF D!IInv, D!InProgress, D!ReloadFailed
<1>5. D!ProfilesHeld'
  BY DEF D!IInv, D!Live, D!memory, D!Gens, D!Typed, D!ProfilesHeld, D!Idled, D!ReloadFailed
<1>6. D!Building'
  BY DEF D!IInv, D!Building, D!ReloadFailed
<1>7. D!DynamicRulesLive'
  BY DEF D!IInv, D!Live, D!Gens, D!Typed, D!DynamicRulesLive, D!Idled, D!ReloadFailed
<1>8. D!NoForeignBlock'
  BY DEF D!IInv, D!Live, D!InTrie, D!Gens, D!Typed, D!NoForeignBlock, D!Idled, D!ReloadFailed
<1>9. D!OptionsAreLive'
  BY DEF D!IInv, D!OptionsAreLive, D!ReloadFailed
<1> QED
  BY <1>1, <1>2, <1>3, <1>4, <1>5, <1>6, <1>7, <1>8, <1>9 DEF D!IInv

\* A manager that stops leaves the maps and forgets the rest.
LEMMA MapStop ==
  ASSUME D!DataplaneAssumption, D!IInv, D!Stop
  PROVE  D!IInv'
<1> USE DEF D!DataplaneAssumption
<1>1. D!Typed'
  BY DEF D!IInv, D!Quiet, D!Empty, D!Typed, D!TypeOK, D!Idled, D!Stop, D!Forget
<1>2. D!SlotsApart'
  BY DEF D!IInv, D!SlotsApart, D!Stop, D!Forget
<1>3. D!KnowsNothing'
  BY DEF D!IInv, D!Typed, D!KnowsNothing, D!Stop, D!Forget
<1>4. D!InProgress'
  BY DEF D!IInv, D!InProgress, D!Stop, D!Forget
<1>5. D!ProfilesHeld'
  BY DEF D!IInv, D!Typed, D!ProfilesHeld, D!Stop, D!Forget
<1>6. D!Building'
  BY DEF D!IInv, D!Building, D!Stop
<1>7. D!DynamicRulesLive'
  <2>1. gen \in D!Gens /\ block \in BlockMaps /\ want \in Wants
    BY DEF D!IInv, D!Typed, D!TypeOK, BlockMaps, Wants
  <2>2. D!Live' = D!Live
    BY <2>1 DEF D!Stop, D!Idled, D!Live, D!Gens, BlockMaps
  <2>3. \A w \in Victim : want'[w].on = want[w].on
    BY <2>1 DEF D!Stop, Wants
  <2> QED
    BY <2>2, <2>3 DEF D!IInv, D!DynamicRulesLive, D!Stop
<1>8. D!NoForeignBlock'
  BY DEF D!IInv, D!Live, D!InTrie, D!Gens, D!Typed, D!NoForeignBlock, D!Idled, D!Stop
<1>9. D!OptionsAreLive'
  BY DEF D!IInv, D!OptionsAreLive, D!Stop, D!Forget
<1> QED
  BY <1>1, <1>2, <1>3, <1>4, <1>5, <1>6, <1>7, <1>8, <1>9 DEF D!IInv

\* A manager that detaches leaves empty maps.
LEMMA MapDetach ==
  ASSUME D!DataplaneAssumption, D!IInv, D!Detach
  PROVE  D!IInv'
<1> USE DEF D!DataplaneAssumption
<1>1. D!Typed'
  BY DEF D!IInv, D!Quiet, D!Empty, D!Unwanted, D!Gens, D!Typed, D!TypeOK, D!Forget, D!Detach,
         D!Fresh
<1>2. D!SlotsApart'
  BY DEF D!IInv, D!SlotsApart, D!Forget, D!Detach, D!Fresh
<1>3. D!KnowsNothing'
  BY DEF D!IInv, D!Unwanted, D!KnowsNothing, D!Forget, D!Detach
<1>4. D!InProgress'
  BY DEF D!IInv, D!InProgress, D!Forget, D!Detach
<1>5. D!ProfilesHeld'
  BY DEF D!IInv, D!Unwanted, D!ProfilesHeld, D!Forget, D!Detach
<1>6. D!Building'
  BY DEF D!IInv, D!Building, D!Detach
<1>7. D!DynamicRulesLive'
  BY DEF D!IInv, D!Unwanted, D!DynamicRulesLive, D!Detach
<1>8. D!NoForeignBlock'
  BY DEF D!IInv, D!InTrie, D!NoForeignBlock, D!Detach, D!Fresh
<1>9. D!OptionsAreLive'
  BY DEF D!IInv, D!OptionsAreLive, D!Forget, D!Detach
<1> QED
  BY <1>1, <1>2, <1>3, <1>4, <1>5, <1>6, <1>7, <1>8, <1>9 DEF D!IInv

\* A manager that opens finds its pinned maps, or fresh ones.
LEMMA MapOpen ==
  ASSUME D!DataplaneAssumption, D!IInv, NEW p \in Policy, NEW adopt \in BOOLEAN, D!Open(p, adopt)
  PROVE  D!IInv'
<1> USE DEF D!DataplaneAssumption
<1>1. D!Typed'
  <2>1. D!TypeOK'
    BY DEF D!IInv, D!Typed, D!TypeOK, D!Open, D!Fresh, D!Gens, D!maps, D!memory
  <2>2. (block \in BlockMaps)'
    <3>1. D!Empty \in [victim : Victim \cup {NoVictim}, profile : D!Profile \cup {D!NoProfile}, live : BOOLEAN]
      BY DEF D!Empty
    <3> QED
      BY <3>1 DEF D!IInv, D!Typed, D!Open, D!Fresh, D!maps, BlockMaps
  <2>3. (interned \in [D!Profile -> Rate \cup {D!NoRate}] /\ known \in BOOLEAN)'
    BY DEF D!IInv, D!Typed, D!TypeOK, D!memory, D!Open, D!Fresh, D!Gens, D!maps, D!memory
  <2>4. (doing \in Calls)'
    BY DEF D!IInv, D!Typed, D!Open, Calls
  <2>5. (want \in Wants)'
    <3>1. D!Unwanted \in [on : BOOLEAN, rate : Rate \cup {D!NoRate}, own : BOOLEAN]
      BY DEF D!Unwanted
    <3> QED
      BY <3>1 DEF D!IInv, D!Typed, D!Open, Wants
  <2> QED
    BY <2>1, <2>2, <2>3, <2>4, <2>5 DEF D!Typed, BlockMaps, Calls, Wants
<1>2. D!SlotsApart'
  BY DEF D!IInv, D!maps, D!memory, D!SlotsApart, D!Fresh, D!Open
<1>3. D!KnowsNothing'
  BY DEF D!IInv, D!memory, D!Unwanted, D!KnowsNothing, D!Open
<1>4. D!InProgress'
  BY DEF D!IInv, D!InProgress, D!Open
<1>5. D!ProfilesHeld'
  BY DEF D!IInv, D!memory, D!Unwanted, D!KnowsNothing, D!ProfilesHeld, D!Open
<1>6. D!Building'
  BY DEF D!IInv, D!Building, D!Open
<1>7. D!DynamicRulesLive'
  BY DEF D!IInv, D!Live, D!maps, D!Unwanted, D!DynamicRulesLive, D!Open
<1>8. D!NoForeignBlock'
  BY DEF D!IInv, D!Live, D!maps, D!InTrie, D!NoForeignBlock, D!Fresh, D!Open
<1>9. D!OptionsAreLive'
  BY DEF D!IInv, D!KnowsNothing, D!OptionsAreLive, D!Open
<1> QED
  BY <1>1, <1>2, <1>3, <1>4, <1>5, <1>6, <1>7, <1>8, <1>9 DEF D!IInv

\* A deadline the kernel reaches silences a block, and moves nothing.
LEMMA MapExpire ==
  ASSUME D!DataplaneAssumption, D!IInv, NEW v \in Victim, D!Expire(v)
  PROVE  D!IInv'
<1> USE DEF D!DataplaneAssumption
<1>1. D!Typed'
  <2>1. D!TypeOK'
    BY DEF D!IInv, D!Typed, D!TypeOK, D!Expire, D!Lost, D!Gens, D!memory, Wants, Calls
  <2>2. (block \in BlockMaps)'
    <3>1. ASSUME NEW g \in D!Gens, NEW i \in D!Slot
          PROVE  [block[g][i] EXCEPT !.live = @ /\ block[g][i].victim # v]
                   \in [victim : Victim \cup {NoVictim}, profile : D!Profile \cup {D!NoProfile}, live : BOOLEAN]
      <4>1. block[g][i] \in [victim : Victim \cup {NoVictim}, profile : D!Profile \cup {D!NoProfile}, live : BOOLEAN]
        BY DEF D!IInv, D!Typed
      <4> QED
        BY <4>1, MapDead
    <3> QED
      BY <3>1 DEF D!Expire, BlockMaps
  <2>3. (interned \in [D!Profile -> Rate \cup {D!NoRate}] /\ known \in BOOLEAN)'
    BY DEF D!IInv, D!Typed, D!TypeOK, D!memory, D!Expire, D!Lost, D!Gens, D!memory, Wants, Calls
  <2>4. (doing \in Calls)'
    BY DEF D!IInv, D!Typed, D!TypeOK, D!Quiet, D!Expire, D!Lost, D!Gens, D!memory, Wants, Calls
  <2>5. (want \in Wants)'
    BY DEF D!IInv, D!Typed, D!TypeOK, D!Unwanted, D!NoRate, D!Expire, D!Lost, D!Gens,
           D!memory, Wants, Calls
  <2> QED
    BY <2>1, <2>2, <2>3, <2>4, <2>5 DEF D!Typed, BlockMaps, Calls, Wants
<1>2. D!SlotsApart'
  BY DEF D!IInv, D!memory, D!SlotsApart, D!Expire
<1>3. D!KnowsNothing'
  BY DEF D!IInv, D!memory, D!Unwanted, D!KnowsNothing, D!Lost, D!Expire
<1>4. D!InProgress'
  BY DEF D!IInv, D!Live, D!memory, D!Quiet, D!Unwanted, D!Gens, D!Slot, D!Profile, D!NoSlot,
         D!NoProfile, D!Typed, D!TypeOK, D!InProgress, D!Lost, D!Expire
<1>5. D!ProfilesHeld'
  <2>1. gen \in D!Gens /\ block \in BlockMaps /\ want \in Wants
    BY DEF D!IInv, D!Typed, D!TypeOK, BlockMaps, Wants
  <2>2. ASSUME NEW i \in D!Slot
        PROVE  D!Live'[i].profile = D!Live[i].profile
    <3>1. D!Live'[i] = [block[gen][i] EXCEPT !.live = @ /\ block[gen][i].victim # v]
      BY <2>1 DEF D!Expire, D!Live
    <3>2. block[gen][i] \in [victim : Victim \cup {NoVictim}, profile : D!Profile \cup {D!NoProfile}, live : BOOLEAN]
      BY <2>1 DEF BlockMaps
    <3> QED
      BY <3>1, <3>2, MapDead DEF D!Live
  <2>3. \A w \in Victim : want'[w].on => want'[w] = want[w]
    BY <2>1 DEF D!Expire, D!Lost, D!Unwanted, Wants
  <2>4. \A w \in Victim : want[w].on => trie[w] \in D!Slot
    BY DEF D!IInv, D!DynamicRulesLive, D!Typed, D!TypeOK
  <2>5. \A w \in Victim : ceiling'[w] # D!NoProfile =>
          interned'[ceiling'[w]] # D!NoRate /\ rate'[ceiling'[w]] = interned'[ceiling'[w]]
    BY DEF D!IInv, D!ProfilesHeld, D!Expire, D!memory
  <2>6. ASSUME NEW w \in Victim, want'[w].on /\ want'[w].own /\ doing'.victim # w
        PROVE  /\ D!Live'[trie'[w]].profile = ceiling'[w]
               /\ want'[w].rate = IF ceiling'[w] = D!NoProfile THEN D!NoRate ELSE interned'[ceiling'[w]]
    <3>1. want'[w] = want[w] /\ trie[w] \in D!Slot
      BY <2>3, <2>4, <2>6
    <3> QED
      BY <2>2, <2>6, <3>1 DEF D!IInv, D!ProfilesHeld, D!Expire, D!memory
  <2> QED
    BY <2>5, <2>6 DEF D!ProfilesHeld
<1>6. D!Building'
  <2>1. gen \in D!Gens /\ block \in BlockMaps /\ want \in Wants
    BY DEF D!IInv, D!Typed, D!TypeOK, BlockMaps, Wants
  <2>2. ASSUME stage = "publish"
        PROVE  block'[1 - gen] = block'[gen]
    <3>1. block[1 - gen] = block[gen] /\ 1 - gen \in D!Gens
      BY <2>1, <2>2 DEF D!IInv, D!Building, D!Gens
    <3> QED
      BY <2>1, <3>1 DEF D!Expire
  <2> QED
    BY <2>2 DEF D!IInv, D!Building, D!Expire
<1>7. D!DynamicRulesLive'
  BY DEF D!IInv, D!Live, D!Unwanted, D!Typed, D!TypeOK, D!DynamicRulesLive, D!Lost, D!Expire
<1>8. D!NoForeignBlock'
  BY DEF D!IInv, D!Live, D!InTrie, D!Typed, D!TypeOK, D!NoForeignBlock, D!Expire
<1>9. D!OptionsAreLive'
  BY DEF D!IInv, D!OptionsAreLive, D!Expire
<1> QED
  BY <1>1, <1>2, <1>3, <1>4, <1>5, <1>6, <1>7, <1>8, <1>9 DEF D!IInv

\* An install begins with what it was given.
LEMMA MapInstallVictim ==
  ASSUME D!DataplaneAssumption, D!IInv, D!InstallVictim
  PROVE  D!IInv'
<1> USE DEF D!DataplaneAssumption
<1>1. D!Typed'
  BY DEF D!IInv, D!memory, D!Quiet, D!Typed, D!TypeOK, D!InstallVictim
<1>2. D!SlotsApart'
  BY DEF D!IInv, D!memory, D!Quiet, D!SlotsApart, D!InProgress, D!InstallVictim
<1>3. D!KnowsNothing'
  BY DEF D!IInv, D!memory, D!Quiet, D!KnowsNothing, D!InProgress, D!InstallVictim
<1>4. D!InProgress'
  BY DEF D!IInv, D!InProgress, D!InstallVictim
<1>5. D!ProfilesHeld'
  BY DEF D!IInv, D!Live, D!memory, D!Typed, D!TypeOK, D!InProgress, D!ProfilesHeld,
         D!InstallVictim
<1>6. D!Building'
  BY DEF D!IInv, D!Building, D!InstallVictim
<1>7. D!DynamicRulesLive'
  BY DEF D!IInv, D!Live, D!Quiet, D!Typed, D!TypeOK, D!InProgress, D!DynamicRulesLive,
         D!InstallVictim
<1>8. D!NoForeignBlock'
  BY DEF D!IInv, D!Live, D!InTrie, D!Quiet, D!InProgress, D!NoForeignBlock, D!InstallVictim
<1>9. D!OptionsAreLive'
  BY DEF D!IInv, D!OptionsAreLive, D!InstallVictim
<1> QED
  BY <1>1, <1>2, <1>3, <1>4, <1>5, <1>6, <1>7, <1>8, <1>9 DEF D!IInv

\* A withdrawal leaves no entry of its victim.
LEMMA MapWithdrawVictim ==
  ASSUME D!DataplaneAssumption, D!IInv, NEW v \in Victim, D!WithdrawVictim(v)
  PROVE  D!IInv'
<1> USE DEF D!DataplaneAssumption
<1>1. D!Typed'
  <2>1. D!TypeOK'
    BY DEF D!IInv, D!Typed, D!TypeOK, D!WithdrawVictim, D!Lost, D!Ready, D!memory, BlockMaps,
           Wants
  <2>2. (block \in BlockMaps)'
    BY DEF D!IInv, D!Typed, D!Empty, D!NoProfile, D!WithdrawVictim, D!Lost, D!Ready,
           D!memory, BlockMaps, Wants
  <2>3. (interned \in [D!Profile -> Rate \cup {D!NoRate}] /\ known \in BOOLEAN)'
    BY DEF D!IInv, D!Typed, D!TypeOK, D!memory, D!WithdrawVictim, D!Lost, D!Ready, D!memory,
           BlockMaps, Wants
  <2>4. (doing \in Calls)'
    <3>1. slotOf[v] \in D!Slot
      BY DEF D!IInv, D!Typed, D!TypeOK, D!WithdrawVictim
    <3>2. PICK f \in BOOLEAN : doing' = [op |-> "withdraw", victim |-> v, slot |-> slotOf[v], fresh |-> f, rate |-> D!NoRate]
      BY DEF D!WithdrawVictim
    <3> QED
      BY <3>1, <3>2 DEF Calls
  <2>5. (want \in Wants)'
    BY DEF D!IInv, D!Typed, D!TypeOK, D!Unwanted, D!NoRate, D!WithdrawVictim, D!Lost,
           D!Ready, D!memory, BlockMaps, Wants
  <2> QED
    BY <2>1, <2>2, <2>3, <2>4, <2>5 DEF D!Typed, BlockMaps, Calls, Wants
<1>2. D!SlotsApart'
  BY DEF D!IInv, D!memory, D!Ready, D!Quiet, D!Unwanted, D!Gens, D!Slot, D!Profile, D!NoSlot,
         D!NoRate, D!Typed, D!TypeOK, D!SlotsApart, D!Lost, D!WithdrawVictim
<1>3. D!KnowsNothing'
  BY DEF D!IInv, D!memory, D!KnowsNothing, D!WithdrawVictim
<1>4. D!InProgress'
  BY DEF D!IInv, D!memory, D!Ready, D!Unwanted, D!Typed, D!TypeOK, D!InProgress, D!Lost,
         D!WithdrawVictim
<1>5. D!ProfilesHeld'
  BY DEF D!IInv, D!Live, D!memory, D!Ready, D!Quiet, D!Typed, D!TypeOK, D!ProfilesHeld,
         D!Lost, D!WithdrawVictim
<1>6. D!Building'
  BY DEF D!IInv, D!Building, D!WithdrawVictim
<1>7. D!DynamicRulesLive'
  BY DEF D!IInv, D!Live, D!Unwanted, D!Typed, D!TypeOK, D!DynamicRulesLive, D!Lost,
         D!WithdrawVictim
<1>8. D!NoForeignBlock'
  BY DEF D!IInv, D!Live, D!InTrie, D!Typed, D!TypeOK, D!NoForeignBlock, D!WithdrawVictim
<1>9. D!OptionsAreLive'
  BY DEF D!IInv, D!OptionsAreLive, D!WithdrawVictim
<1> QED
  BY <1>1, <1>2, <1>3, <1>4, <1>5, <1>6, <1>7, <1>8, <1>9 DEF D!IInv

\* An adopted block is its victim's.
LEMMA MapAdopt ==
  ASSUME D!DataplaneAssumption, D!IInv, D!AdoptLocked
  PROVE  D!IInv'
<1> USE DEF D!DataplaneAssumption
<1>1. D!Typed'
  BY DEF D!IInv, D!InTrie, D!Empty, D!Typed, D!TypeOK, D!AdoptLocked, D!AdoptedTaken
<1>2. D!SlotsApart'
  BY DEF D!IInv, D!InTrie, D!SlotsApart, D!AdoptLocked, D!AdoptedTaken
<1>3. D!KnowsNothing'
  BY DEF D!IInv, D!KnowsNothing, D!AdoptLocked
<1>4. D!InProgress'
  BY DEF D!IInv, D!InProgress, D!AdoptLocked
<1>5. D!ProfilesHeld'
  BY DEF D!IInv, D!KnowsNothing, D!ProfilesHeld, D!AdoptLocked
<1>6. D!Building'
  BY DEF D!IInv, D!Building, D!AdoptLocked
<1>7. D!DynamicRulesLive'
  BY DEF D!IInv, D!Live, D!Typed, D!TypeOK, D!DynamicRulesLive, D!AdoptLocked, D!Dead, D!Reaped
<1>8. D!NoForeignBlock'
  BY DEF D!IInv, D!Live, D!InTrie, D!Typed, D!TypeOK, D!NoForeignBlock, D!AdoptLocked,
         D!Dead, D!Reaped
<1>9. D!OptionsAreLive'
  BY DEF D!IInv, D!OptionsAreLive, D!AdoptLocked
<1> QED
  BY <1>1, <1>2, <1>3, <1>4, <1>5, <1>6, <1>7, <1>8, <1>9 DEF D!IInv


\* What a call leaves in the installer's memory.
LEMMA MapRemember ==
  ASSUME NEW m, D!Remember(m), Shaped(m)
  PROVE  D!Memory' = m
  BY DEF D!Remember, D!Memory, Shaped

\* A refused install has released the victim's ceiling at most.
LEMMA MapRefused ==
  ASSUME D!DataplaneAssumption, D!IInv, NEW v \in Victim, NEW r \in Rate \cup {D!NoRate},
         D!InstallRefused(v, r)
  PROVE  D!IInv'
<1>1. /\ Remembered(D!Memory') /\ slotOf' = slotOf /\ taken' = taken
      /\ ceiling'[v] = ceiling[v] \/ ceiling'[v] = D!NoProfile
      /\ \A w \in Victim \ {v} : SameTo(w, D!Memory, D!Memory')
  <2>1. Remembered(D!Memory)
    BY MapMemory
  <2>2. CASE UNCHANGED <<D!memory, rate>>
    <3>1. D!Memory' = D!Memory
      BY <2>2 DEF D!memory, D!Memory
    <3> QED
      BY <2>1, <2>2, <3>1 DEF D!memory, SameTo
  <2>3. CASE D!Remember(D!Released(D!Memory, v))
    <3>1. LET n == D!Released(D!Memory, v)
          IN /\ Remembered(n) /\ n.held = D!Memory.held /\ n.taken = D!Memory.taken
             /\ n.ceiling[v] = D!NoProfile /\ \A w \in Victim \ {v} : SameTo(w, D!Memory, n)
      BY <2>1, MapReleased
    <3>2. D!Memory' = D!Released(D!Memory, v)
      BY <2>3, <3>1, MapRemember DEF Remembered
    <3>3. /\ D!Memory'.held = slotOf' /\ D!Memory'.taken = taken' /\ D!Memory'.ceiling = ceiling'
          /\ D!Memory.held = slotOf /\ D!Memory.taken = taken
      BY DEF D!Memory
    <3> QED
      BY <3>1, <3>2, <3>3
  <2> QED
    BY <2>2, <2>3 DEF D!InstallRefused
<1>2. /\ slotOf' \in [Victim -> D!Slot \cup {D!NoSlot}] /\ taken' \subseteq D!Slot
      /\ ceiling' \in [Victim -> D!Profile \cup {D!NoProfile}]
      /\ interned' \in [D!Profile -> Rate \cup {D!NoRate}] /\ rate' \in [D!Profile -> Rate \cup {D!NoRate}]
      /\ \A w \in Victim : ceiling'[w] # D!NoProfile =>
           interned'[ceiling'[w]] # D!NoRate /\ rate'[ceiling'[w]] = interned'[ceiling'[w]]
  BY <1>1 DEF Remembered, D!Memory
<1>3. \A w \in Victim \ {v} :
        /\ ceiling'[w] = ceiling[w]
        /\ ceiling[w] # D!NoProfile => interned'[ceiling[w]] = interned[ceiling[w]]
  BY <1>1 DEF SameTo, D!Memory
<1>4. /\ want' = [want EXCEPT ![v] = D!Unwanted] /\ doing = D!Quiet /\ doing' = doing /\ stage = "idle" /\ known
      /\ UNCHANGED <<gen, statics, block, trie, opts, next, stage, known>>
  BY DEF D!InstallRefused, D!Lost, D!Ready, D!memory
<1>5. want \in Wants
  BY DEF D!IInv, D!Typed, Wants
<1>6. want'[v] = D!Unwanted /\ \A w \in Victim \ {v} : want'[w] = want[w]
  BY <1>4, <1>5 DEF Wants
<1>7. D!Typed'
  BY <1>2, <1>4 DEF D!IInv, D!Typed, D!TypeOK, D!Unwanted, D!NoRate
<1>8. D!SlotsApart'
  BY <1>1, <1>4 DEF D!IInv, D!SlotsApart
<1>9. D!KnowsNothing' /\ D!InProgress' /\ D!Building' /\ D!NoForeignBlock' /\ D!OptionsAreLive'
  BY <1>4
  DEF D!IInv, D!KnowsNothing, D!InProgress, D!Building, D!NoForeignBlock, D!OptionsAreLive,
      D!Live, D!InTrie
<1>10. D!ProfilesHeld'
  BY <1>2, <1>3, <1>4, <1>6 DEF D!IInv, D!ProfilesHeld, D!Live, D!Unwanted
<1>11. D!DynamicRulesLive'
  BY <1>4, <1>6 DEF D!IInv, D!DynamicRulesLive, D!Live, D!Unwanted
<1> QED
  BY <1>7, <1>8, <1>9, <1>10, <1>11 DEF D!IInv

\* The block is written where no other entry points, under its victim's ceiling.
LEMMA MapBlock ==
  ASSUME D!DataplaneAssumption, D!IInv, NEW v \in Victim, NEW r \in Rate \cup {D!NoRate},
         D!InstallBlock(v, r)
  PROVE  D!IInv'
<1> DEFINE i == D!SlotFor(D!Memory, v)
           t == D!Released(D!Memory, v)
           m == D!Interned(t, v, r)
<1>1. i \in D!Slot /\ i # D!NoSlot /\ (i = slotOf[v] \/ (slotOf[v] = D!NoSlot /\ i \notin taken))
  BY MapSlotFor, MapNumbers DEF D!InstallBlock
<1>2. Remembered(D!Memory)
  BY MapMemory
<1>3. /\ Remembered(t) /\ t.held = slotOf /\ t.taken = taken /\ t.ceiling[v] = D!NoProfile
      /\ \A w \in Victim \ {v} : SameTo(w, D!Memory, t)
  BY <1>2, MapReleased DEF D!Memory
<1>4. r # D!NoRate => D!ProfileFor(t, r) # D!NoProfile
  BY DEF D!InstallBlock
<1> HIDE DEF i, t
<1>5. /\ Remembered(m) /\ m.held = t.held /\ m.taken = t.taken
      /\ r = IF m.ceiling[v] = D!NoProfile THEN D!NoRate ELSE m.interned[m.ceiling[v]]
      /\ \A w \in Victim \ {v} : SameTo(w, t, m)
  BY <1>3, <1>4, MapInterned
<1>6. /\ D!Ready /\ known /\ UNCHANGED <<gen, statics, trie, known, opts, next, stage, want>>
      /\ D!Remember([m EXCEPT !.held[v] = i, !.taken = @ \cup {i}])
      /\ block' = [block EXCEPT ![gen][i] = [victim |-> v, profile |-> m.ceiling[v], live |-> TRUE]]
      /\ doing' = [op |-> "install", victim |-> v, slot |-> i, fresh |-> slotOf[v] = D!NoSlot, rate |-> r]
  BY DEF D!InstallBlock, i, t
<1> HIDE DEF m
<1>7. /\ slotOf' = [slotOf EXCEPT ![v] = i] /\ taken' = taken \cup {i}
      /\ ceiling' = m.ceiling /\ interned' = m.interned /\ rate' = m.rate
  <2> DEFINE n == [m EXCEPT !.held[v] = i, !.taken = @ \cup {i}]
  <2>1. n = [m EXCEPT !.held = [m.held EXCEPT ![v] = i], !.taken = m.taken \cup {i}]
    BY <1>5 DEF Remembered, Shaped
  <2>2. /\ n.held = [m.held EXCEPT ![v] = i] /\ n.taken = m.taken \cup {i}
        /\ n.ceiling = m.ceiling /\ n.interned = m.interned /\ n.rate = m.rate
    BY <1>5, <2>1 DEF Remembered, Shaped
  <2>3. D!Remember(n)
    BY <1>6
  <2> HIDE DEF n
  <2> QED
    BY <1>3, <1>5, <2>2, <2>3 DEF D!Remember
<1>8. /\ ceiling' \in [Victim -> D!Profile \cup {D!NoProfile}]
      /\ interned' \in [D!Profile -> Rate \cup {D!NoRate}] /\ rate' \in [D!Profile -> Rate \cup {D!NoRate}]
      /\ r = IF ceiling'[v] = D!NoProfile THEN D!NoRate ELSE interned'[ceiling'[v]]
      /\ \A w \in Victim : ceiling'[w] # D!NoProfile =>
           interned'[ceiling'[w]] # D!NoRate /\ rate'[ceiling'[w]] = interned'[ceiling'[w]]
  BY <1>5, <1>7 DEF Remembered
<1>9. ASSUME NEW w \in Victim \ {v}
      PROVE  /\ ceiling'[w] = ceiling[w]
             /\ ceiling[w] # D!NoProfile => interned'[ceiling[w]] = interned[ceiling[w]]
  <2>1. SameTo(w, D!Memory, t) /\ SameTo(w, t, m)
    BY <1>3, <1>5
  <2> QED
    BY <1>7, <2>1 DEF SameTo, D!Memory
<1>10. /\ gen \in D!Gens /\ block \in BlockMaps /\ want \in Wants /\ slotOf \in [Victim -> D!Slot \cup {D!NoSlot}]
       /\ taken \subseteq D!Slot /\ trie \in [Victim -> D!Slot \cup {D!NoSlot}] /\ v # NoVictim
  BY DEF D!IInv, D!Typed, D!TypeOK, BlockMaps, Wants, D!DataplaneAssumption
<1>11. /\ D!Live'[i] = [victim |-> v, profile |-> ceiling'[v], live |-> TRUE]
       /\ \A j \in D!Slot \ {i} : D!Live'[j] = D!Live[j]
       /\ block' \in BlockMaps
  <2>1. block' = [block EXCEPT ![gen] = [block[gen] EXCEPT ![i] = [victim |-> v, profile |-> ceiling'[v], live |-> TRUE]]]
    BY <1>6, <1>7
  <2>2. [victim |-> v, profile |-> ceiling'[v], live |-> TRUE]
          \in [victim : Victim \cup {NoVictim}, profile : D!Profile \cup {D!NoProfile}, live : BOOLEAN]
    BY <1>8
  <2>3. [block[gen] EXCEPT ![i] = [victim |-> v, profile |-> ceiling'[v], live |-> TRUE]]
          \in [D!Slot -> [victim : Victim \cup {NoVictim}, profile : D!Profile \cup {D!NoProfile}, live : BOOLEAN]]
    BY <1>1, <1>10, <2>2 DEF BlockMaps
  <2> QED
    BY <1>1, <1>6, <1>10, <2>1, <2>3 DEF BlockMaps, D!Live
<1>12. /\ slotOf'[v] = i /\ \A w \in Victim \ {v} : slotOf'[w] = slotOf[w] /\ slotOf[w] # i /\ trie[w] # i
  BY <1>1, <1>6, <1>7, <1>10 DEF D!IInv, D!SlotsApart
<1>13. doing = D!Quiet /\ stage = "idle"
  BY <1>6 DEF D!Ready
<1>14. D!Typed'
  <2>1. doing' \in Calls
    <3> DEFINE f == slotOf[v] = D!NoSlot
    <3>1. f \in BOOLEAN
      OBVIOUS
    <3> HIDE DEF f
    <3> QED
      BY <1>1, <1>6, <3>1 DEF Calls, f
  <2> QED
    BY <1>1, <1>6, <1>7, <1>8, <1>10, <1>11, <2>1
    DEF D!IInv, D!Typed, D!TypeOK, BlockMaps, Calls
<1>15. D!SlotsApart'
  BY <1>1, <1>6, <1>7, <1>10, <1>12 DEF D!IInv, D!SlotsApart
<1>16. D!KnowsNothing' /\ D!Building' /\ D!OptionsAreLive'
  BY <1>6, <1>13 DEF D!IInv, D!KnowsNothing, D!Building, D!OptionsAreLive
<1>17. D!InProgress'
  BY <1>1, <1>6, <1>8, <1>11, <1>12, <1>13 DEF D!InProgress
<1>18. D!ProfilesHeld'
  <2>1. ASSUME NEW w \in Victim, want'[w].on /\ want'[w].own /\ doing'.victim # w
        PROVE  /\ D!Live'[trie'[w]].profile = ceiling'[w]
               /\ want'[w].rate = IF ceiling'[w] = D!NoProfile THEN D!NoRate ELSE interned'[ceiling'[w]]
    <3>1. w # v /\ doing.victim # w
      BY <1>6, <1>13, <2>1 DEF D!Quiet, D!DataplaneAssumption
    <3>2. trie[w] \in D!Slot \ {i}
      BY <1>6, <1>10, <1>12, <2>1, <3>1 DEF D!IInv, D!DynamicRulesLive
    <3> QED
      BY <1>6, <1>9, <1>11, <2>1, <3>1, <3>2 DEF D!IInv, D!ProfilesHeld
  <2> QED
    BY <1>8, <2>1 DEF D!ProfilesHeld
<1>19. D!DynamicRulesLive'
  BY <1>6, <1>10, <1>11, <1>12 DEF D!IInv, D!DynamicRulesLive
<1>20. D!NoForeignBlock'
  BY <1>6, <1>10, <1>11, <1>12 DEF D!IInv, D!NoForeignBlock, D!InTrie
<1> QED
  BY <1>14, <1>15, <1>16, <1>17, <1>18, <1>19, <1>20 DEF D!IInv

\* What a withdrawal frees: the slot, unless an entry still points at it.
LEMMA MapFreed ==
  ASSUME NEW m, Remembered(m), NEW v \in Victim, NEW unpointed \in BOOLEAN
  PROVE  LET n == D!Freed(m, v, unpointed)
         IN /\ Shaped(n) /\ n.held = [m.held EXCEPT ![v] = D!NoSlot]
            /\ n.taken = IF unpointed THEN m.taken \ {m.held[v]} ELSE m.taken
            /\ n.ceiling = m.ceiling /\ n.interned = m.interned /\ n.rate = m.rate
<1> DEFINE rest == IF unpointed THEN m.taken \ {m.held[v]} ELSE m.taken
<1>1. D!Freed(m, v, unpointed) = [m EXCEPT !.held = [m.held EXCEPT ![v] = D!NoSlot], !.taken = rest]
  BY DEF D!Freed, Remembered, Shaped
<1> HIDE DEF rest
<1>2. LET n == D!Freed(m, v, unpointed)
      IN /\ Shaped(n) /\ n.held = [m.held EXCEPT ![v] = D!NoSlot] /\ n.taken = rest
         /\ n.ceiling = m.ceiling /\ n.interned = m.interned /\ n.rate = m.rate
  BY <1>1 DEF Remembered, Shaped
<1> QED
  BY <1>2 DEF rest

\* The end of a withdrawal, and of an install that is rolled back.
LEMMA MapBlockGone ==
  ASSUME D!DataplaneAssumption, D!IInv, D!WithdrawBlock \/ D!InstallRolledBack
  PROVE  D!IInv'
<1> DEFINE v == doing.victim
           i == doing.slot
           t == D!Released(D!Memory, v)
<1>1. /\ stage = "idle" /\ known /\ v \in Victim /\ i # D!NoSlot /\ slotOf[v] = i /\ doing # D!Quiet
      /\ doing \in Calls /\ i \in D!Slot
  <2>1. doing # D!Quiet /\ doing \in Calls
    BY DEF D!WithdrawBlock, D!InstallRolledBack, D!Quiet, D!IInv, D!Typed, Calls
  <2> QED
    BY <2>1 DEF D!IInv, D!InProgress, Calls
<1>2. Remembered(D!Memory)
  BY MapMemory
<1>3. /\ Remembered(t) /\ t.held = slotOf /\ t.taken = taken /\ t.ceiling[v] = D!NoProfile
      /\ \A w \in Victim \ {v} : SameTo(w, D!Memory, t)
  BY <1>1, <1>2, MapReleased DEF D!Memory
<1>4. /\ UNCHANGED <<gen, statics, known, opts, next, stage>> /\ doing' = D!Quiet
      /\ block' = [block EXCEPT ![gen][i] = D!Empty]
      /\ trie' = trie \/ trie' = [trie EXCEPT ![v] = D!NoSlot]
      /\ want' = want \/ want' = [want EXCEPT ![v] = D!Unwanted]
  BY DEF D!WithdrawBlock, D!InstallRolledBack, D!Lost
<1>5. /\ gen \in D!Gens /\ block \in BlockMaps /\ want \in Wants /\ slotOf \in [Victim -> D!Slot \cup {D!NoSlot}]
      /\ taken \subseteq D!Slot /\ trie \in [Victim -> D!Slot \cup {D!NoSlot}]
  BY DEF D!IInv, D!Typed, D!TypeOK, BlockMaps, Wants
<1>6. ~want'[v].on
  <2>1. CASE D!WithdrawBlock
    BY <1>1, <2>1 DEF D!WithdrawBlock, D!IInv, D!InProgress
  <2>2. CASE D!InstallRolledBack
    BY <1>1, <1>5, <2>2 DEF D!InstallRolledBack, D!Lost, D!Unwanted, Wants
  <2> QED
    BY <2>1, <2>2
<1> HIDE DEF t
<1>7. /\ slotOf' \in [Victim -> D!Slot \cup {D!NoSlot}] /\ taken' \subseteq taken
      /\ ceiling' = t.ceiling /\ interned' = t.interned /\ rate' = t.rate
      /\ slotOf'[v] \in {slotOf[v], D!NoSlot} /\ \A w \in Victim \ {v} : slotOf'[w] = slotOf[w]
      /\ taken \ {i} \subseteq taken'
      /\ i \in taken \ taken' => slotOf'[v] = D!NoSlot /\ trie'[v] # i
  <2>1. CASE D!WithdrawBlock
    <3> DEFINE n == D!Freed(t, v, doing.fresh)
    <3>1. /\ Shaped(n) /\ n.held = [slotOf EXCEPT ![v] = D!NoSlot]
          /\ n.taken = IF doing.fresh THEN taken \ {i} ELSE taken
          /\ n.ceiling = t.ceiling /\ n.interned = t.interned /\ n.rate = t.rate
      <4>1. doing.fresh \in BOOLEAN
        BY <1>1 DEF Calls
      <4>2. /\ Shaped(n) /\ n.held = [t.held EXCEPT ![v] = D!NoSlot]
            /\ n.taken = IF doing.fresh THEN t.taken \ {t.held[v]} ELSE t.taken
            /\ n.ceiling = t.ceiling /\ n.interned = t.interned /\ n.rate = t.rate
        BY <1>1, <1>3, <4>1, MapFreed
      <4> HIDE DEF n
      <4> QED
        BY <1>1, <1>3, <4>2
    <3>2. D!Remember(n) /\ trie' = trie /\ doing.op = "withdraw"
      BY <2>1 DEF D!WithdrawBlock, t
    <3> HIDE DEF n
    <3>3. slotOf' = n.held /\ taken' = n.taken /\ ceiling' = n.ceiling /\ interned' = n.interned /\ rate' = n.rate
      BY <3>2 DEF D!Remember
    <3>4. doing.fresh => trie[v] = D!NoSlot
      BY <1>1, <3>2 DEF D!IInv, D!InProgress
    <3> QED
      BY <1>1, <1>5, <3>1, <3>2, <3>3, <3>4
  <2>2. CASE D!InstallRolledBack
    <3> DEFINE n == D!Unbound(t, v, doing.fresh)
    <3>1. /\ n.held = IF doing.fresh THEN [slotOf EXCEPT ![v] = D!NoSlot] ELSE slotOf
          /\ n.taken = IF doing.fresh THEN taken \ {i} ELSE taken
          /\ n.ceiling = t.ceiling /\ n.interned = t.interned /\ n.rate = t.rate
      <4>1. CASE ~doing.fresh
        BY <1>3, <4>1 DEF D!Unbound
      <4>2. CASE doing.fresh
        <5>1. n = D!Freed(t, v, TRUE)
          BY <4>2 DEF D!Unbound, D!Freed
        <5>2. LET f == D!Freed(t, v, TRUE)
              IN /\ f.held = [t.held EXCEPT ![v] = D!NoSlot] /\ f.taken = t.taken \ {t.held[v]}
                 /\ f.ceiling = t.ceiling /\ f.interned = t.interned /\ f.rate = t.rate
          BY <1>1, <1>3, MapFreed
        <5> HIDE DEF n
        <5> QED
          BY <1>1, <1>3, <4>2, <5>1, <5>2
      <4> QED
        BY <4>1, <4>2
    <3>2. D!Remember(n) /\ trie' = [trie EXCEPT ![v] = D!NoSlot]
      BY <2>2 DEF D!InstallRolledBack, t
    <3> HIDE DEF n
    <3>3. slotOf' = n.held /\ taken' = n.taken /\ ceiling' = n.ceiling /\ interned' = n.interned /\ rate' = n.rate
      BY <3>2 DEF D!Remember
    <3>4. trie'[v] # i
      BY <1>1, <1>5, <3>2
    <3> QED
      BY <1>1, <1>5, <3>1, <3>3, <3>4
  <2> QED
    BY <2>1, <2>2
<1>8. /\ ceiling' \in [Victim -> D!Profile \cup {D!NoProfile}]
      /\ interned' \in [D!Profile -> Rate \cup {D!NoRate}] /\ rate' \in [D!Profile -> Rate \cup {D!NoRate}]
      /\ \A w \in Victim : ceiling'[w] # D!NoProfile =>
           interned'[ceiling'[w]] # D!NoRate /\ rate'[ceiling'[w]] = interned'[ceiling'[w]]
  BY <1>3, <1>7 DEF Remembered
<1>9. ASSUME NEW w \in Victim \ {v}
      PROVE  /\ ceiling'[w] = ceiling[w]
             /\ ceiling[w] # D!NoProfile => interned'[ceiling[w]] = interned[ceiling[w]]
  BY <1>3, <1>7 DEF SameTo, D!Memory
<1>10. /\ D!Live'[i] = D!Empty /\ \A j \in D!Slot \ {i} : D!Live'[j] = D!Live[j]
       /\ block' \in BlockMaps
  <2>1. block' = [block EXCEPT ![gen] = [block[gen] EXCEPT ![i] = D!Empty]]
    BY <1>4
  <2>2. D!Empty \in [victim : Victim \cup {NoVictim}, profile : D!Profile \cup {D!NoProfile}, live : BOOLEAN]
    BY DEF D!Empty
  <2>3. [block[gen] EXCEPT ![i] = D!Empty]
          \in [D!Slot -> [victim : Victim \cup {NoVictim}, profile : D!Profile \cup {D!NoProfile}, live : BOOLEAN]]
    BY <1>1, <1>5, <2>2 DEF BlockMaps
  <2> QED
    BY <1>1, <1>4, <1>5, <2>1, <2>3 DEF BlockMaps, D!Live
<1>11. /\ trie' \in [Victim -> D!Slot \cup {D!NoSlot}]
       /\ trie'[v] \in {trie[v], D!NoSlot} /\ \A w \in Victim \ {v} : trie'[w] = trie[w]
  BY <1>1, <1>4, <1>5
<1>12. want' \in Wants /\ \A w \in Victim \ {v} : want'[w] = want[w]
  <2>1. D!Unwanted \in [on : BOOLEAN, rate : Rate \cup {D!NoRate}, own : BOOLEAN]
    BY DEF D!Unwanted
  <2> QED
    BY <1>1, <1>4, <1>5, <2>1 DEF Wants
<1>13. \A w \in Victim \ {v} : trie[w] # i /\ slotOf[w] # i
  BY <1>1 DEF D!IInv, D!SlotsApart
<1> HIDE DEF v, i
<1>14. D!Typed'
  <2>1. D!Quiet \in Calls
    BY DEF D!Quiet, Calls
  <2> QED
    BY <1>4, <1>5, <1>7, <1>8, <1>10, <1>11, <1>12, <2>1
    DEF D!IInv, D!Typed, D!TypeOK, BlockMaps, Calls, Wants
<1>15. D!SlotsApart'
  <2>1. \A w \in Victim : trie'[w] \in {trie[w], D!NoSlot} /\ slotOf'[w] \in {slotOf[w], D!NoSlot}
    BY <1>7, <1>11
  <2>2. \A x, w \in Victim : x # w =>
          /\ trie'[x] # D!NoSlot => trie'[x] # trie'[w] /\ trie'[x] # slotOf'[w]
          /\ slotOf'[x] # D!NoSlot => slotOf'[x] # slotOf'[w]
    BY <2>1 DEF D!IInv, D!SlotsApart
  <2>3. \A w \in Victim : trie'[w] \in taken' \cup {D!NoSlot} /\ slotOf'[w] \in taken' \cup {D!NoSlot}
    BY <1>1, <1>7, <1>13, <2>1 DEF D!IInv, D!SlotsApart
  <2> QED
    BY <2>2, <2>3 DEF D!SlotsApart
<1>16. D!KnowsNothing' /\ D!InProgress' /\ D!Building' /\ D!OptionsAreLive'
  BY <1>1, <1>4 DEF D!IInv, D!KnowsNothing, D!InProgress, D!Building, D!OptionsAreLive
<1>17. D!ProfilesHeld'
  <2>1. ASSUME NEW w \in Victim, want'[w].on /\ want'[w].own /\ doing'.victim # w
        PROVE  /\ D!Live'[trie'[w]].profile = ceiling'[w]
               /\ want'[w].rate = IF ceiling'[w] = D!NoProfile THEN D!NoRate ELSE interned'[ceiling'[w]]
    <3>1. w # v /\ doing.victim # w /\ want[w].on
      BY <1>6, <1>12, <2>1 DEF v
    <3>2. trie[w] \in D!Slot \ {i} /\ trie'[w] = trie[w]
      BY <1>5, <1>11, <1>13, <3>1 DEF D!IInv, D!DynamicRulesLive
    <3> QED
      BY <1>9, <1>10, <1>12, <2>1, <3>1, <3>2 DEF D!IInv, D!ProfilesHeld
  <2> QED
    BY <1>8, <2>1 DEF D!ProfilesHeld
<1>18. D!DynamicRulesLive'
  <2>1. ASSUME NEW w \in Victim, want'[w].on
        PROVE  w # v /\ want[w].on /\ trie'[w] = trie[w] /\ trie[w] \in D!Slot \ {i}
    BY <1>5, <1>6, <1>11, <1>12, <1>13, <2>1 DEF D!IInv, D!DynamicRulesLive
  <2> QED
    BY <1>10, <2>1 DEF D!IInv, D!DynamicRulesLive
<1>19. D!NoForeignBlock'
  <2>1. ASSUME NEW w \in Victim, trie'[w] # D!NoSlot
        PROVE  trie'[w] = trie[w] /\ trie[w] \in D!Slot
    BY <1>5, <1>11, <2>1
  <2> QED
    BY <1>10, <2>1 DEF D!IInv, D!NoForeignBlock, D!InTrie, D!Empty
<1> QED
  BY <1>14, <1>15, <1>16, <1>17, <1>18, <1>19 DEF D!IInv

\* A call that did nothing keeps the invariant.
LEMMA MapRests ==
  ASSUME D!IInv, UNCHANGED D!vars
  PROVE  D!IInv'
<1> USE DEF D!vars, D!maps, D!memory
<1>1. D!Typed' /\ D!SlotsApart'
  BY DEF D!IInv, D!Typed, D!TypeOK, D!SlotsApart
<1>2. D!KnowsNothing' /\ D!InProgress'
  BY DEF D!IInv, D!KnowsNothing, D!InProgress, D!Live
<1>3. D!ProfilesHeld' /\ D!Building' /\ D!OptionsAreLive'
  BY DEF D!IInv, D!ProfilesHeld, D!Building, D!OptionsAreLive, D!Live
<1>4. D!DynamicRulesLive' /\ D!NoForeignBlock'
  BY DEF D!IInv, D!DynamicRulesLive, D!NoForeignBlock, D!Live, D!InTrie
<1> QED
  BY <1>1, <1>2, <1>3, <1>4 DEF D!IInv

\* The manager starts with empty maps.
LEMMA DataplaneInit ==
  ASSUME D!DataplaneAssumption, D!Init
  PROVE  D!IInv
<1>1. D!Typed
  BY DEF D!Init, D!Typed, D!TypeOK, D!Gens, D!Empty, D!Quiet, D!Unwanted, D!NoSlot, D!NoRate,
         D!NoProfile
<1>2. D!SlotsApart /\ D!KnowsNothing /\ D!InProgress
  BY DEF D!Init, D!SlotsApart, D!KnowsNothing, D!InProgress, D!Unwanted
<1>3. D!ProfilesHeld /\ D!Building /\ D!DynamicRulesLive /\ D!NoForeignBlock /\ D!OptionsAreLive
  BY DEF D!Init, D!ProfilesHeld, D!Building, D!DynamicRulesLive, D!NoForeignBlock,
         D!OptionsAreLive,
         D!Unwanted, D!InTrie
<1> QED
  BY <1>1, <1>2, <1>3 DEF D!IInv

\* Every step of the manager and of the kernel keeps the invariant.
LEMMA DataplaneStep ==
  ASSUME D!DataplaneAssumption, D!IInv, [D!Next]_D!vars
  PROVE  D!IInv'
<1>1. CASE \E v \in Victim, r \in Rate \cup {D!NoRate} : D!InstallRefused(v, r) \/ D!InstallBlock(v, r)
  BY <1>1, MapRefused, MapBlock
<1>2. CASE D!InstallVictim \/ D!InstallRolledBack \/ D!WithdrawBlock \/ \E v \in Victim : D!WithdrawVictim(v)
  BY <1>2, MapInstallVictim, MapBlockGone, MapWithdrawVictim
<1>3. CASE D!PutStatics \/ D!MirrorPolicyBlocks \/ D!Activate \/ D!ReloadFailed \/ \E p \in Policy : D!Reload(p)
  BY <1>3, MapPutStatics, MapMirror, MapActivate, MapReloadFailed, MapReload
<1>4. CASE D!Stop \/ D!Detach \/ \E p \in Policy, adopt \in BOOLEAN : D!Open(p, adopt)
  BY <1>4, MapStop, MapDetach, MapOpen
<1>5. CASE D!AdoptLocked \/ \E v \in Victim : D!Expire(v)
  BY <1>5, MapAdopt, MapExpire
<1>6. CASE UNCHANGED D!vars
  BY <1>6, MapRests
<1> QED
  BY <1>1, <1>2, <1>3, <1>4, <1>5, <1>6 DEF D!Next

\* The invariant holds what the properties of the maps say.
LEMMA DataplaneHeld ==
  ASSUME D!IInv
  PROVE  D!TypeOK /\ D!DynamicRulesLive /\ D!OptionsAreLive /\ D!NoForeignBlock /\ D!OwnCeiling
<1>1. D!TypeOK /\ D!DynamicRulesLive /\ D!OptionsAreLive /\ D!NoForeignBlock
  BY DEF D!IInv, D!Typed
<1>2. D!OwnCeiling
  BY DEF D!OwnCeiling, D!IInv, D!ProfilesHeld
<1> QED
  BY <1>1, <1>2

---------------------------------------------------------------------------
(* Who may ask.                                                            *)

\* A request, what a poll of it counts for, and the cardinality of the library.
Ats == {"away", "check", "act", "started"} \cup A!InHold
Founds == A!Owners \cup {None, "asked", "gone", "demoted", "unknown"}
Req == [at : Ats, route : A!Routes \cup {"none"}, on : A!Target \cup Box \cup {None},
        caller : A!Callers \cup {None}, found : Founds]

Counts(r, n) ==
  /\ r.route = "poll" /\ r.on = n /\ r.at \in {"started"} \cup A!InHold
  /\ r.caller.role = "agent" /\ r.caller.node \in {None, n}

\* What the invariant says of one request.
Fit(r) ==
  /\ r.at # "away" => r.caller \in A!Callers /\ A!Permitted(r.caller, r.route)
  /\ r.at = "check" => /\ r.found = None
                       /\ r.route \in {"ban", "unban"} => r.on \in Owned
                       /\ r.route \in {"set", "clear"} => r.on \in Site
                       /\ r.route = "report" => r.on \in Box
                       /\ r.route = "poll" => r.on \in Box \cup {None}
  /\ r.at = "act" => \/ (r.route \in {"ban", "unban"} /\ r.on \in Owned)
                     \/ (r.route \in {"set", "clear"} /\ r.on \in Site)
  /\ r.at \in {"started"} \cup A!InHold =>
       r.route = "poll" /\ r.on \in Box \cup {None} /\ A!NodeActor(r.caller, r.on)
  /\ r.at = "started" => r.found = None
  /\ r.at = "act" => r.caller.role = "operator" /\ r.caller.tenant \in {A!Unscoped, r.found}
  /\ r.at \in A!InHold => r.found # "gone" /\ (r.found = "unknown" => r.caller.token = None)

\* The request table's cardinalities are the library's.
LEMMA AccessCounted ==
  /\ \A X : A!IsFiniteSet(X) <=> IsFiniteSet(X)
  /\ \A X : A!Cardinality(X) = Cardinality(X)
<1>1. \A X : A!IsFiniteSet(X) <=> IsFiniteSet(X)
  BY DEF A!IsFiniteSet, IsFiniteSet
<1>2. \A X : A!Cardinality(X) = Cardinality(X)
  BY DEF A!Cardinality, Cardinality
<1> QED
  BY <1>1, <1>2

\* The invariant, request by request.
LEMMA AccessKnown ==
  ASSUME A!AccessAssumption, A!IInv
  PROVE  /\ request \in [Client -> Req] /\ conf \in ApiConf
         /\ banned \subseteq Owned /\ levered \subseteq Site /\ reported \subseteq Box
         /\ polling \in [Box -> Nat]
         /\ \A k \in Client : Fit(request[k])
         /\ \A n \in Box : polling[n] = Cardinality({k \in Client : Counts(request[k], n)})
         /\ \A k \in Client : request[k].at \in A!InHold => Cardinality(A!HeldBy(request[k].caller)) <= MaxHolds
         /\ IsFiniteSet(Client)
<1>1. request \in [Client -> Req] /\ polling \in [Box -> Nat]
  BY DEF A!IInv, A!Typed, Req, Ats, Founds
<1>2. \A k \in Client : Fit(request[k])
  BY DEF A!IInv, A!OnItsWay, A!ActsForOwner, A!HoldsRevalidated, Fit
<1>3. \A n \in Box : polling[n] = Cardinality({k \in Client : Counts(request[k], n)})
  BY AccessCounted DEF A!IInv, A!PresenceHonest, Counts
<1>4. \A k \in Client : request[k].at \in A!InHold => Cardinality(A!HeldBy(request[k].caller)) <= MaxHolds
  BY AccessCounted DEF A!IInv, A!HoldsRevalidated
<1> QED
  BY <1>1, <1>2, <1>3, <1>4, AccessCounted DEF A!IInv, A!Typed, A!TypeOK, A!AccessAssumption

\* The members of a set that a change at one place adds or takes.
LEMMA CountMoves ==
  ASSUME NEW X, IsFiniteSet(X), NEW k \in X, NEW Y, NEW Z, Y \subseteq X, Z \subseteq X,
         \A x \in X : x # k => (x \in Y <=> x \in Z)
  PROVE  /\ Cardinality(Y) \in Nat /\ Cardinality(Z) \in Nat
         /\ Cardinality(Z) = Cardinality(Y) + (IF k \in Z THEN 1 ELSE 0) - (IF k \in Y THEN 1 ELSE 0)
<1>1. IsFiniteSet(Y) /\ IsFiniteSet(Z) /\ Cardinality(Y) \in Nat /\ Cardinality(Z) \in Nat
  BY FS_Subset, FS_CardinalityType
<1>2. CASE (k \in Y) <=> (k \in Z)
  <2>1. Y = Z
    BY <1>2
  <2> QED
    BY <1>1, <1>2, <2>1
<1>3. CASE k \in Y /\ k \notin Z
  <2>1. Z = Y \ {k}
    BY <1>3
  <2> QED
    BY <1>1, <1>3, <2>1, FS_RemoveElement
<1>4. CASE k \notin Y /\ k \in Z
  <2>1. Z = Y \cup {k}
    BY <1>4
  <2> QED
    BY <1>1, <1>4, <2>1, FS_AddElement
<1> QED
  BY <1>2, <1>3, <1>4

\* What remains to be shown of a step of one client's request.
LEMMA AccessStepTo ==
  ASSUME A!AccessAssumption, A!IInv, NEW k \in Client, NEW q \in Req,
         request' = [request EXCEPT ![k] = q], Fit(q),
         conf' \in ApiConf, banned' \subseteq Owned, levered' \subseteq Site, reported' \subseteq Box,
         polling' \in [Box -> Int],
         \A n \in Box : polling'[n] = polling[n] + (IF Counts(q, n) THEN 1 ELSE 0)
                                                 - (IF Counts(request[k], n) THEN 1 ELSE 0),
         q.at \in A!InHold =>
           \/ request[k].at \in A!InHold /\ q.caller = request[k].caller
           \/ Cardinality(A!HeldBy(q.caller)) < MaxHolds
  PROVE  A!IInv'
<1>1. /\ request \in [Client -> Req] /\ polling \in [Box -> Nat] /\ IsFiniteSet(Client) /\ MaxHolds \in Nat
      /\ \A j \in Client : Fit(request[j])
      /\ \A n \in Box : polling[n] = Cardinality({j \in Client : Counts(request[j], n)})
      /\ \A j \in Client : request[j].at \in A!InHold => Cardinality(A!HeldBy(request[j].caller)) <= MaxHolds
  BY AccessKnown DEF A!AccessAssumption
<1>2. /\ request' \in [Client -> Req] /\ request'[k] = q
      /\ \A j \in Client : j # k => request'[j] = request[j]
  BY <1>1
<1>3. \A j \in Client : Fit(request'[j])
  BY <1>1, <1>2
<1>4. ASSUME NEW n \in Box
      PROVE  /\ polling'[n] = Cardinality({j \in Client : Counts(request'[j], n)})
             /\ polling'[n] \in 0..Cardinality(Client)
  <2> DEFINE Y == {j \in Client : Counts(request[j], n)}
             Z == {j \in Client : Counts(request'[j], n)}
  <2>1. Y \subseteq Client /\ Z \subseteq Client /\ (k \in Y <=> Counts(request[k], n)) /\ (k \in Z <=> Counts(q, n))
        /\ \A x \in Client : x # k => (x \in Y <=> x \in Z)
    BY <1>2
  <2>2. polling[n] = Cardinality(Y)
    BY <1>1
  <2> HIDE DEF Y, Z
  <2>3. /\ Cardinality(Y) \in Nat /\ Cardinality(Z) \in Nat
        /\ Cardinality(Z) = Cardinality(Y) + (IF k \in Z THEN 1 ELSE 0) - (IF k \in Y THEN 1 ELSE 0)
    BY <1>1, <2>1, CountMoves
  <2>4. polling'[n] = Cardinality(Z)
    BY <2>1, <2>2, <2>3
  <2>5. Cardinality(Z) <= Cardinality(Client) /\ Cardinality(Client) \in Nat
    BY <1>1, <2>1, FS_Subset, FS_CardinalityType
  <2> QED
    BY <2>3, <2>4, <2>5 DEF Z
<1>5. ASSUME NEW j \in Client, request'[j].at \in A!InHold
      PROVE  Cardinality(A!HeldBy(request[j].caller)') <= MaxHolds
  <2> DEFINE tok == request'[j].caller.token
             Y == {i \in Client : request[i].at \in A!InHold /\ request[i].caller.token = tok}
             Z == {i \in Client : request'[i].at \in A!InHold /\ request'[i].caller.token = tok}
  <2>1. A!HeldBy(request[j].caller)' = Z
    BY DEF A!HeldBy, A!InHold
  <2>2. Y \subseteq Client /\ Z \subseteq Client
        /\ (k \in Y <=> request[k].at \in A!InHold /\ request[k].caller.token = tok)
        /\ (k \in Z <=> q.at \in A!InHold /\ q.caller.token = tok)
        /\ \A x \in Client : x # k => (x \in Y <=> x \in Z)
    BY <1>2
  <2>3. \A i \in Client : request[i].caller.token = tok => A!HeldBy(request[i].caller) = Y
    BY DEF A!HeldBy
  <2>4. q.caller.token = tok => A!HeldBy(q.caller) = Y
    BY DEF A!HeldBy
  <2>5. j = k \/ (request[j].at \in A!InHold /\ request[j].caller.token = tok)
    <3>1. CASE j # k
      <4>1. request'[j] = request[j]
        BY <1>2, <3>1
      <4> QED
        BY <1>5, <4>1
    <3>2. CASE j = k
      BY <3>2
    <3> QED
      BY <3>1, <3>2
  <2>6. j = k => q.caller.token = tok /\ q.at \in A!InHold
    BY <1>2, <1>5
  <2> HIDE DEF Y, Z, tok
  <2>7. /\ Cardinality(Y) \in Nat /\ Cardinality(Z) \in Nat
        /\ Cardinality(Z) = Cardinality(Y) + (IF k \in Z THEN 1 ELSE 0) - (IF k \in Y THEN 1 ELSE 0)
    BY <1>1, <2>2, CountMoves
  <2>8. CASE k \in Z /\ k \notin Y
    <3>1. Cardinality(Y) < MaxHolds
      BY <2>2, <2>4, <2>8
    <3> QED
      BY <1>1, <2>1, <2>7, <2>8, <3>1
  <2>9. CASE ~(k \in Z /\ k \notin Y)
    <3>1. Cardinality(Z) <= Cardinality(Y)
      BY <2>7, <2>9
    <3>2. Cardinality(Y) <= MaxHolds
      <4>1. CASE j # k
        BY <1>1, <2>3, <2>5, <4>1
      <4>2. CASE j = k
        <5>1. k \in Y
          BY <2>2, <2>6, <2>9, <4>2
        <5> QED
          BY <1>1, <2>2, <2>3, <5>1
      <4> QED
        BY <4>1, <4>2
    <3> QED
      BY <1>1, <2>1, <2>7, <3>1, <3>2
  <2> QED
    BY <2>8, <2>9
<1>6. polling' \in [Box -> Nat] /\ \A n \in Box : polling'[n] \in 0..A!Cardinality(Client)
  <2>1. \A n \in Box : polling'[n] \in 0..Cardinality(Client)
    BY <1>4
  <2>2. \A n \in Box : polling'[n] \in Nat
    BY <2>1
  <2>3. polling' = [n \in Box |-> polling'[n]]
    OBVIOUS
  <2> QED
    BY <2>1, <2>2, <2>3, AccessCounted
<1>7. A!Typed'
  <2>1. \A j \in Client : request'[j].at \in Ats
    BY <1>2 DEF Req
  <2> QED
    BY <1>2, <1>6, <2>1 DEF A!Typed, A!TypeOK, Req, Ats, Founds, A!InHold
<1>8. A!OnItsWay' /\ A!ActsForOwner'
  BY <1>3 DEF A!OnItsWay, A!ActsForOwner, Fit, A!InHold
<1>9. A!PresenceHonest'
  <2>1. \A n \in Box : polling'[n] = A!Cardinality({j \in Client : Counts(request'[j], n)})
    BY <1>4, AccessCounted
  <2> QED
    BY <2>1 DEF A!PresenceHonest, Counts, A!InHold
<1>10. A!HoldsRevalidated'
  <2>1. \A j \in Client : request'[j].at \in A!InHold => A!Cardinality(A!HeldBy(request[j].caller)') <= MaxHolds
    BY <1>5, AccessCounted
  <2> QED
    BY <1>3, <2>1 DEF A!HoldsRevalidated, Fit, A!InHold, A!HeldBy
<1> QED
  BY <1>7, <1>8, <1>9, <1>10 DEF A!IInv

\* A request moved on.
LEMMA Moved ==
  ASSUME NEW r \in Req, NEW x \in Ats
  PROVE  LET p == [r EXCEPT !.at = x]
         IN  /\ p \in Req /\ p.at = x /\ p.route = r.route /\ p.on = r.on
             /\ p.caller = r.caller /\ p.found = r.found
  BY DEF Req

\* A request that is gone counts for nothing.
LEMMA GoneIs ==
  /\ A!Gone \in Req /\ A!Gone.at = "away" /\ Fit(A!Gone)
  /\ \A n : ~Counts(A!Gone, n)
<1>1. A!Gone \in Req /\ A!Gone.at = "away"
  BY DEF A!Gone, Req, Ats, Founds
<1> QED
  BY <1>1 DEF Fit, Counts, A!InHold

\* A caller is one of the configuration, and an agent has a name.
LEMMA CallersNamed ==
  ASSUME A!AccessAssumption, NEW c \in A!Callers
  PROVE  c.role = "agent" => c.token # None
<1>1. CASE c = A!Anybody
  BY <1>1 DEF A!Anybody
<1>2. CASE \E d \in ApiConf : \E i \in DOMAIN d.tokens : c = A!Principal(d.tokens[i])
  BY <1>2 DEF A!Principal, A!AccessAssumption
<1> QED
  BY <1>1, <1>2 DEF A!Callers

\* Who a request is of is a caller the live configuration knows.
LEMMA AuthenticatedIs ==
  ASSUME A!AccessAssumption, A!IInv, NEW s, A!Authenticated(s) # None
  PROVE  A!Authenticated(s) \in A!Callers
<1>0. conf \in ApiConf
  BY AccessKnown
<1>1. CASE conf.tokens = <<>>
  BY <1>1 DEF A!Authenticated, A!Callers
<1>2. CASE conf.tokens # <<>>
  <2>1. A!Matching(s) # {} /\ A!Authenticated(s) = A!Principal(conf.tokens[A!Min(A!Matching(s))])
    BY <1>2 DEF A!Authenticated
  <2>2. A!Matching(s) \in SUBSET Nat /\ A!Matching(s) \subseteq DOMAIN conf.tokens
    BY <1>0 DEF A!Matching, A!AccessAssumption
  <2>3. \E x \in A!Matching(s) : \A y \in A!Matching(s) : x <= y
    BY <2>1, <2>2, LeastNatural
  <2>4. A!Min(A!Matching(s)) \in DOMAIN conf.tokens
    BY <2>2, <2>3 DEF A!Min
  <2> QED
    BY <1>0, <2>1, <2>4 DEF A!Callers
<1> QED
  BY <1>1, <1>2

\* The invariant holds at the start.
LEMMA AccessInit ==
  ASSUME A!AccessAssumption, A!Init
  PROVE  A!IInv
<1>1. \A k \in Client : request[k] = A!Gone
  BY DEF A!Init
<1>2. request \in [Client -> Req]
  BY GoneIs DEF A!Init
<1>3. \A k \in Client : Fit(request[k]) /\ request[k].at = "away"
  BY <1>1, GoneIs
<1>4. A!Cardinality(Client) \in Nat
  BY AccessCounted, FS_CardinalityType DEF A!AccessAssumption
<1>5. A!Typed
  BY <1>2, <1>3, <1>4 DEF A!Init, A!Typed, A!TypeOK, Req, Ats, Founds
<1>6. A!OnItsWay /\ A!ActsForOwner
  BY <1>3 DEF A!OnItsWay, A!ActsForOwner, Fit
<1>7. A!PresenceHonest
  <2>1. \A n \in Box : {k \in Client : Counts(request[k], n)} = {}
    BY <1>1, GoneIs
  <2>2. \A n \in Box : polling[n] = Cardinality({k \in Client : Counts(request[k], n)})
    BY <2>1, FS_EmptySet DEF A!Init
  <2> QED
    BY <2>2, AccessCounted DEF A!PresenceHonest, Counts
<1>8. A!HoldsRevalidated
  BY <1>3 DEF A!HoldsRevalidated, A!InHold
<1> QED
  BY <1>5, <1>6, <1>7, <1>8 DEF A!IInv

\* A request that comes in is one its token may make.
LEMMA AccessArrive ==
  ASSUME A!AccessAssumption, A!IInv, NEW k \in Client, NEW s, NEW route \in A!Routes,
         NEW on \in A!Target \cup Box \cup {None}, A!Arrive(k, s, route, on),
         route \in {"ban", "unban"} => on \in Owned,
         route \in {"set", "clear"} => on \in Site,
         route = "report" => on \in Box, route = "poll" => on \in Box \cup {None}
  PROVE  A!IInv'
<1> DEFINE c == A!Authenticated(s)
           q == [at |-> "check", route |-> route, on |-> on, caller |-> c, found |-> None]
<1>1. /\ request \in [Client -> Req] /\ conf \in ApiConf /\ banned \subseteq Owned /\ levered \subseteq Site
      /\ reported \subseteq Box /\ polling \in [Box -> Nat]
  BY AccessKnown
<1>2. /\ request[k] = A!Gone /\ c # None /\ A!Permitted(c, route)
      /\ request' = [request EXCEPT ![k] = q] /\ UNCHANGED <<conf, banned, levered, polling, reported>>
  BY DEF A!Arrive
<1>3. c \in A!Callers
  BY <1>2, AuthenticatedIs
<1> HIDE DEF c
<1>4. q \in Req
  BY <1>3 DEF Req, Ats, Founds
<1>5. Fit(q) /\ q.at = "check" /\ q.at \notin A!InHold
  BY <1>2, <1>3 DEF Fit, A!InHold
<1>6. \A n \in Box : ~Counts(q, n) /\ ~Counts(request[k], n)
  BY <1>2, GoneIs DEF Counts, A!InHold
<1> HIDE DEF q
<1>7. polling' \in [Box -> Int]
      /\ \A n \in Box : polling'[n] = polling[n] + (IF Counts(q, n) THEN 1 ELSE 0)
                                                  - (IF Counts(request[k], n) THEN 1 ELSE 0)
  BY <1>1, <1>2, <1>6
<1> QED
  BY <1>1, <1>2, <1>4, <1>5, <1>7, AccessStepTo

\* A request that goes away, and its poll with it.
LEMMA AccessLeave ==
  ASSUME A!AccessAssumption, A!IInv, NEW k \in Client, A!Leave(k),
         conf' \in ApiConf, banned' \subseteq Owned, levered' \subseteq Site, reported' \subseteq Box,
         \/ request[k].at \in {"check", "act"} /\ polling' = polling
         \/ /\ request[k].at \in {"started"} \cup A!InHold
            /\ polling' = A!Stamped(request[k].caller, request[k].on, -1)
  PROVE  A!IInv'
<1>1. request \in [Client -> Req] /\ polling \in [Box -> Nat] /\ Fit(request[k]) /\ request[k] \in Req
  BY AccessKnown
<1>2. request' = [request EXCEPT ![k] = A!Gone]
  BY DEF A!Leave
<1>3. /\ polling' \in [Box -> Int]
      /\ \A n \in Box : polling'[n] = polling[n] - (IF Counts(request[k], n) THEN 1 ELSE 0)
  <2>1. CASE request[k].at \in {"check", "act"} /\ polling' = polling
    <3>1. \A n \in Box : ~Counts(request[k], n)
      BY <2>1 DEF Counts, A!InHold
    <3> QED
      BY <1>1, <2>1, <3>1
  <2>2. CASE /\ request[k].at \in {"started"} \cup A!InHold
             /\ polling' = A!Stamped(request[k].caller, request[k].on, -1)
    <3> DEFINE c == request[k].caller
               on == request[k].on
    <3>1. /\ request[k].route = "poll" /\ on \in Box \cup {None} /\ A!NodeActor(c, on) /\ c \in A!Callers
          /\ None \notin Box
      BY <1>1, <2>2 DEF Fit, A!InHold, A!AccessAssumption
    <3>2. \A n \in Box : Counts(request[k], n) <=> on = n /\ A!StampsPresence(c)
      BY <2>2, <3>1, CallersNamed DEF Counts, A!NodeActor, A!StampsPresence
    <3>3. CASE on = None \/ ~A!StampsPresence(c)
      <4>1. polling' = polling
        BY <2>2, <3>3 DEF A!Stamped
      <4>2. \A n \in Box : ~Counts(request[k], n)
        BY <3>1, <3>2, <3>3
      <4> QED
        BY <1>1, <4>1, <4>2
    <3>4. CASE on \in Box /\ A!StampsPresence(c)
      <4>1. polling' = [polling EXCEPT ![on] = polling[on] + (-1)]
        BY <2>2, <3>1, <3>4 DEF A!Stamped
      <4> HIDE DEF c, on
      <4>2. polling' \in [Box -> Int] /\ \A n \in Box : polling'[n] = IF n = on THEN polling[n] - 1 ELSE polling[n]
        BY <1>1, <3>4, <4>1
      <4> QED
        BY <3>2, <3>4, <4>2
    <3> QED
      BY <3>1, <3>3, <3>4
  <2> QED
    BY <2>1, <2>2
<1>4. \A n \in Box : polling'[n] = polling[n] + (IF Counts(A!Gone, n) THEN 1 ELSE 0)
                                               - (IF Counts(request[k], n) THEN 1 ELSE 0)
  BY <1>1, <1>3, GoneIs
<1>5. A!Gone.at \notin A!InHold
  BY GoneIs DEF A!InHold
<1> QED
  BY <1>2, <1>3, <1>4, <1>5, GoneIs, AccessStepTo

\* A request that goes on to `at`, with what it found out.
LEMMA AccessGoOn ==
  ASSUME A!AccessAssumption, A!IInv, NEW k \in Client, NEW q \in Req,
         request' = [request EXCEPT ![k] = q], Fit(q), UNCHANGED <<conf, banned, levered, reported>>,
         q.caller = request[k].caller, q.on = request[k].on, q.route = request[k].route,
         \/ q.at = "act" /\ request[k].at = "check" /\ polling' = polling
         \/ /\ q.at = "started" /\ request[k].at = "check"
            /\ polling' = A!Stamped(request[k].caller, request[k].on, 1)
         \/ /\ q.at \in A!InHold /\ request[k].at \in A!InHold \cup {"started"} /\ polling' = polling
            /\ request[k].at \in A!InHold \/ Cardinality(A!HeldBy(request[k].caller)) < MaxHolds
  PROVE  A!IInv'
<1>1. /\ request \in [Client -> Req] /\ polling \in [Box -> Nat] /\ Fit(request[k]) /\ request[k] \in Req
      /\ conf' \in ApiConf /\ banned' \subseteq Owned /\ levered' \subseteq Site /\ reported' \subseteq Box
  BY AccessKnown
<1>2. /\ polling' \in [Box -> Int]
      /\ \A n \in Box : polling'[n] = polling[n] + (IF Counts(q, n) THEN 1 ELSE 0)
                                                  - (IF Counts(request[k], n) THEN 1 ELSE 0)
  <2>1. CASE q.at = "act" /\ request[k].at = "check" /\ polling' = polling
    <3>1. \A n \in Box : ~Counts(q, n) /\ ~Counts(request[k], n)
      BY <2>1 DEF Counts, A!InHold
    <3> QED
      BY <1>1, <2>1, <3>1
  <2>2. CASE /\ q.at \in A!InHold /\ request[k].at \in A!InHold \cup {"started"} /\ polling' = polling
    <3>1. \A n \in Box : Counts(q, n) <=> Counts(request[k], n)
      BY <2>2 DEF Counts, A!InHold
    <3> QED
      BY <1>1, <2>2, <3>1
  <2>3. CASE /\ q.at = "started" /\ request[k].at = "check"
             /\ polling' = A!Stamped(request[k].caller, request[k].on, 1)
    <3> DEFINE c == request[k].caller
               on == request[k].on
    <3>1. /\ q.route = "poll" /\ on \in Box \cup {None} /\ A!NodeActor(c, on) /\ c \in A!Callers
          /\ None \notin Box
      BY <2>3 DEF Fit, A!InHold, A!AccessAssumption
    <3>2. \A n \in Box : Counts(q, n) <=> on = n /\ A!StampsPresence(c)
      BY <2>3, <3>1, CallersNamed DEF Counts, A!NodeActor, A!StampsPresence
    <3>3. \A n \in Box : ~Counts(request[k], n)
      BY <2>3 DEF Counts, A!InHold
    <3>4. CASE on = None \/ ~A!StampsPresence(c)
      <4>1. polling' = polling
        BY <2>3, <3>4 DEF A!Stamped
      <4>2. \A n \in Box : ~Counts(q, n)
        BY <3>1, <3>2, <3>4
      <4> QED
        BY <1>1, <3>3, <4>1, <4>2
    <3>5. CASE on \in Box /\ A!StampsPresence(c)
      <4>1. polling' = [polling EXCEPT ![on] = polling[on] + 1]
        BY <2>3, <3>1, <3>5 DEF A!Stamped
      <4> HIDE DEF c, on
      <4>2. polling' \in [Box -> Int] /\ \A n \in Box : polling'[n] = IF n = on THEN polling[n] + 1 ELSE polling[n]
        BY <1>1, <3>5, <4>1
      <4> QED
        BY <1>1, <3>2, <3>3, <3>5, <4>2
    <3> QED
      BY <3>1, <3>4, <3>5
  <2> QED
    BY <2>1, <2>2, <2>3
<1>3. q.at \in A!InHold =>
        \/ request[k].at \in A!InHold /\ q.caller = request[k].caller
        \/ Cardinality(A!HeldBy(q.caller)) < MaxHolds
  BY DEF A!InHold
<1> QED
  BY <1>1, <1>2, <1>3, AccessStepTo

\* A request whose target is checked is still its caller's, or has been turned away.
LEMMA AccessCheckTarget ==
  ASSUME A!AccessAssumption, A!IInv, NEW k \in Client, A!CheckTarget(k)
  PROVE  A!IInv'
<1> DEFINE r == request[k]
           q == [r EXCEPT !.at = "act", !.found = conf.owner[r.on]]
<1>1. /\ r \in Req /\ Fit(r) /\ conf \in ApiConf /\ banned \subseteq Owned /\ levered \subseteq Site
      /\ reported \subseteq Box /\ request \in [Client -> Req]
  BY AccessKnown
<1>2. r.at = "check" /\ r.route \in A!Mutations /\ UNCHANGED <<conf, banned, levered, polling, reported>>
  BY DEF A!CheckTarget
<1>3. CASE A!Leave(k)
  BY <1>1, <1>2, <1>3, AccessLeave
<1>4. CASE A!Visible(r.caller, r.on) /\ request' = [request EXCEPT ![k] = q]
  <2>1. r.on \in A!Target
    BY <1>1, <1>2 DEF Fit, A!Mutations, A!Target
  <2>2. conf.owner[r.on] \in Founds /\ "act" \in Ats
    BY <1>1, <2>1 DEF Founds, A!Owners, Ats
  <2>3. /\ q \in Req /\ q.at = "act" /\ q.route = r.route /\ q.on = r.on
        /\ q.caller = r.caller /\ q.found = conf.owner[r.on]
    BY <1>1, <2>2 DEF Req
  <2> HIDE DEF q
  <2>4. Fit(q)
    BY <1>1, <1>2, <1>4, <2>3 DEF Fit, A!Mutations, A!Visible, A!Permitted, A!InHold
  <2> QED
    BY <1>2, <1>4, <2>3, <2>4, AccessGoOn
<1> QED
  BY <1>3, <1>4 DEF A!CheckTarget, A!Become

\* A poll that starts takes a hold only below the cap.
LEMMA AccessPoll ==
  ASSUME A!AccessAssumption, A!IInv, NEW k \in Client, A!StartPoll(k)
  PROVE  A!IInv'
<1> DEFINE r == request[k]
           q == [r EXCEPT !.at = "started"]
<1>1. /\ r \in Req /\ Fit(r) /\ conf \in ApiConf /\ banned \subseteq Owned /\ levered \subseteq Site
      /\ reported \subseteq Box /\ request \in [Client -> Req]
  BY AccessKnown
<1>2. r.at = "check" /\ r.route = "poll" /\ UNCHANGED <<conf, banned, levered, reported>>
  BY DEF A!StartPoll
<1>3. CASE A!Leave(k) /\ UNCHANGED polling
  BY <1>1, <1>2, <1>3, AccessLeave
<1>4. CASE /\ A!NodeActor(r.caller, r.on) /\ request' = [request EXCEPT ![k] = q]
           /\ polling' = A!Stamped(r.caller, r.on, 1)
  <2>1. "started" \in Ats /\ r.found \in Founds
    BY <1>1 DEF Ats, Req
  <2>2. /\ q \in Req /\ q.at = "started" /\ q.route = r.route /\ q.on = r.on
        /\ q.caller = r.caller /\ q.found = r.found
    BY <1>1, <2>1, Moved
  <2> HIDE DEF q
  <2>3. Fit(q)
    BY <1>1, <1>2, <1>4, <2>2 DEF Fit, A!InHold
  <2> QED
    BY <1>2, <1>4, <2>2, <2>3, AccessGoOn
<1> QED
  BY <1>3, <1>4 DEF A!StartPoll, A!Goto

\* A poll that is held is still its node's.
LEMMA AccessHold ==
  ASSUME A!AccessAssumption, A!IInv, NEW k \in Client, A!Hold(k)
  PROVE  A!IInv'
<1> DEFINE r == request[k]
           q == [r EXCEPT !.at = "parked"]
<1>1. /\ r \in Req /\ Fit(r) /\ conf \in ApiConf /\ banned \subseteq Owned /\ levered \subseteq Site
      /\ reported \subseteq Box /\ request \in [Client -> Req]
  BY AccessKnown
<1>2. r.at = "started" /\ UNCHANGED <<conf, banned, levered, reported>>
  BY DEF A!Hold
<1>3. CASE A!EndPoll(k)
  BY <1>1, <1>2, <1>3, AccessLeave DEF A!EndPoll
<1>4. CASE /\ Cardinality(A!HeldBy(r.caller)) < MaxHolds
           /\ request' = [request EXCEPT ![k] = q] /\ UNCHANGED polling
  <2>1. "parked" \in Ats /\ r.found \in Founds /\ "parked" \in A!InHold
    BY <1>1 DEF Ats, Req, A!InHold
  <2>2. /\ q \in Req /\ q.at = "parked" /\ q.route = r.route /\ q.on = r.on
        /\ q.caller = r.caller /\ q.found = r.found
    BY <1>1, <2>1, Moved
  <2> HIDE DEF q
  <2>3. Fit(q)
    BY <1>1, <1>2, <2>2 DEF Fit, A!InHold, A!AccessAssumption
  <2> QED
    BY <1>2, <1>4, <2>1, <2>2, <2>3, AccessGoOn
<1> QED
  BY <1>3, <1>4, AccessCounted DEF A!Hold, A!Goto

\* A held poll that looks again finds itself known, or leaves.
LEMMA AccessLook ==
  ASSUME A!AccessAssumption, A!IInv, NEW k \in Client, NEW last \in BOOLEAN, A!Look(k, last)
  PROVE  A!IInv'
<1> DEFINE r == request[k]
           x == IF last THEN "answer" ELSE "ending"
           f == A!Standing(r.caller, r.on)
           q == [r EXCEPT !.at = x, !.found = f]
<1>1. /\ r \in Req /\ Fit(r) /\ conf \in ApiConf /\ banned \subseteq Owned /\ levered \subseteq Site
      /\ reported \subseteq Box /\ request \in [Client -> Req]
  BY AccessKnown
<1>2. r.at = "parked" /\ r.at \in A!InHold /\ UNCHANGED <<conf, banned, levered, reported>>
  BY DEF A!Look, A!InHold
<1>3. CASE A!EndPoll(k)
  BY <1>1, <1>2, <1>3, AccessLeave DEF A!EndPoll
<1>4. CASE A!HoldStillValid(r.caller, r.on) /\ request' = [request EXCEPT ![k] = q] /\ UNCHANGED polling
  <2>1. x \in Ats /\ x \in A!InHold /\ x \notin {"away", "check", "act", "started"} /\ f \in Founds
    BY DEF Ats, A!InHold, A!Standing, Founds
  <2>2. f # "gone" /\ (f = "unknown" => r.caller.token = None)
    BY <1>4 DEF A!Standing, A!HoldStillValid, A!NamedStill, A!NodeActor
  <2> HIDE DEF x, f
  <2>3. /\ q \in Req /\ q.at = x /\ q.route = r.route /\ q.on = r.on
        /\ q.caller = r.caller /\ q.found = f
    BY <1>1, <2>1 DEF Req
  <2> HIDE DEF q
  <2>4. Fit(q)
    BY <1>1, <1>2, <2>1, <2>2, <2>3 DEF Fit
  <2> QED
    BY <1>2, <1>4, <2>1, <2>3, <2>4, AccessGoOn
<1> QED
  BY <1>3, <1>4 DEF A!Look, A!Become

\* A poll is answered as what its token is by then.
LEMMA AccessAnswer ==
  ASSUME A!AccessAssumption, A!IInv, NEW k \in Client, A!Answer(k)
  PROVE  A!IInv'
<1> DEFINE r == request[k]
           q == [r EXCEPT !.at = "parked"]
<1>1. /\ r \in Req /\ Fit(r) /\ conf \in ApiConf /\ banned \subseteq Owned /\ levered \subseteq Site
      /\ reported \subseteq Box /\ request \in [Client -> Req]
  BY AccessKnown
<1>2. r.at \in {"answer", "ending"} /\ r.at \in A!InHold /\ UNCHANGED <<conf, banned, levered, reported>>
  BY DEF A!Answer, A!InHold
<1>3. CASE A!EndPoll(k)
  BY <1>1, <1>2, <1>3, AccessLeave DEF A!EndPoll
<1>4. CASE request' = [request EXCEPT ![k] = q] /\ UNCHANGED polling
  <2>1. "parked" \in Ats /\ r.found \in Founds /\ "parked" \in A!InHold
    BY <1>1 DEF Ats, Req, A!InHold
  <2>2. /\ q \in Req /\ q.at = "parked" /\ q.route = r.route /\ q.on = r.on
        /\ q.caller = r.caller /\ q.found = r.found
    BY <1>1, <2>1, Moved
  <2> HIDE DEF q
  <2>3. Fit(q)
    BY <1>1, <1>2, <2>1, <2>2 DEF Fit
  <2> QED
    BY <1>2, <1>4, <2>1, <2>2, <2>3, AccessGoOn
<1> QED
  BY <1>3, <1>4 DEF A!Answer, A!Goto

\* Acting, reloading and reporting end the request.
LEMMA AccessActs ==
  ASSUME A!AccessAssumption, A!IInv, NEW k \in Client,
         \/ \E no \in BOOLEAN : A!Act(k, no)
         \/ \E new \in ApiConf : A!Reload(k, new)
         \/ A!Report(k)
         \/ A!Disconnect(k)
  PROVE  A!IInv'
<1>1. /\ request[k] \in Req /\ Fit(request[k]) /\ conf \in ApiConf /\ banned \subseteq Owned
      /\ levered \subseteq Site /\ reported \subseteq Box
  BY AccessKnown
<1>2. ASSUME NEW no \in BOOLEAN, A!Act(k, no)  PROVE A!IInv'
  <2>1. /\ request[k].at = "act" /\ A!Leave(k) /\ UNCHANGED <<conf, polling, reported>>
        /\ request[k].route \in {"ban", "unban"} => request[k].on \in Owned
        /\ request[k].route \in {"set", "clear"} => request[k].on \in Site
    BY <1>1, <1>2 DEF A!Act, Fit
  <2>2. banned' \subseteq Owned /\ levered' \subseteq Site
    BY <1>1, <1>2, <2>1 DEF A!Act
  <2> QED
    BY <1>1, <2>1, <2>2, AccessLeave
<1>3. ASSUME NEW new \in ApiConf, A!Reload(k, new)  PROVE A!IInv'
  <2>1. /\ request[k].at = "check" /\ A!Leave(k) /\ UNCHANGED <<banned, levered, polling, reported>>
        /\ conf' \in ApiConf
    BY <1>1, <1>3 DEF A!Reload
  <2> QED
    BY <1>1, <2>1, AccessLeave
<1>4. CASE A!Report(k)
  <2>1. /\ request[k].at = "check" /\ A!Leave(k) /\ UNCHANGED <<conf, banned, levered, polling>>
    BY <1>4 DEF A!Report
  <2>2. request[k].on \in Box
    BY <1>1, <1>4 DEF A!Report, Fit
  <2>3. reported' \subseteq Box
    <3>1. reported' = reported \/ (reported' = reported \cup {request[k].on} /\ request[k].on \in conf.nodes)
      BY <1>4 DEF A!Report
    <3> QED
      BY <1>1, <2>2, <3>1
  <2> QED
    BY <1>1, <2>1, <2>3, AccessLeave
<1>5. CASE A!Disconnect(k)
  <2>1. request[k].at \in A!InHold /\ A!EndPoll(k) /\ UNCHANGED <<conf, banned, levered, reported>>
    BY <1>5 DEF A!Disconnect, A!InHold
  <2> QED
    BY <1>1, <2>1, AccessLeave DEF A!EndPoll
<1> QED
  BY <1>2, <1>3, <1>4, <1>5

\* A signal wakes held polls and nothing more.
LEMMA AccessSignal ==
  ASSUME A!AccessAssumption, A!IInv, conf' \in ApiConf,
         UNCHANGED <<request, banned, levered, polling, reported>>
  PROVE  A!IInv'
  BY DEF A!IInv, A!Typed, A!TypeOK, A!OnItsWay, A!ActsForOwner, A!PresenceHonest, A!HoldsRevalidated, A!HeldBy

\* Every step keeps the invariant: reloads, and each handler's steps between its two looks.
LEMMA AccessStep ==
  ASSUME A!AccessAssumption, A!IInv, [A!Next]_A!vars
  PROVE  A!IInv'
<1>1. CASE UNCHANGED A!vars
  <2>1. conf' \in ApiConf
    BY <1>1, AccessKnown DEF A!vars
  <2> QED
    BY <1>1, <2>1, AccessSignal DEF A!vars
<1>2. ASSUME NEW new \in ApiConf, A!Signal(new)  PROVE A!IInv'
  BY <1>2, AccessSignal DEF A!Signal
<1>3. ASSUME NEW k \in Client, NEW s \in Bears[k], A!Arrivals(k, s)  PROVE A!IInv'
  <2> USE DEF A!Routes, A!Mutations, A!Target
  <2>1. ASSUME NEW h \in Owned, A!Arrive(k, s, "ban", h) \/ A!Arrive(k, s, "unban", h)  PROVE A!IInv'
    BY <2>1, AccessArrive
  <2>2. ASSUME NEW z \in Site, A!Arrive(k, s, "set", z) \/ A!Arrive(k, s, "clear", z)  PROVE A!IInv'
    BY <2>2, AccessArrive
  <2>3. CASE A!Arrive(k, s, "reload", None)
    BY <2>3, AccessArrive
  <2>4. ASSUME NEW n \in Box, A!Arrive(k, s, "report", n) \/ A!Arrive(k, s, "poll", n)  PROVE A!IInv'
    BY <2>4, AccessArrive
  <2>5. CASE A!Arrive(k, s, "poll", None)
    BY <2>5, AccessArrive
  <2> QED
    BY <1>3, <2>1, <2>2, <2>3, <2>4, <2>5 DEF A!Arrivals
<1> QED
  BY <1>1, <1>2, <1>3, AccessCheckTarget, AccessActs, AccessPoll, AccessHold, AccessLook, AccessAnswer DEF A!Next

\* The invariant is what the API promises.
LEMMA AccessHeld ==
  ASSUME A!IInv
  PROVE  A!AccessHonest
  BY DEF A!IInv, A!AccessHonest, A!Typed

---------------------------------------------------------------------------
(* The log of the nodes.                                                   *)

\* Nothing is reported, and nothing told, at the start.
LEMMA HistoryInit ==
  ASSUME H!HistoryAssumption, H!Init
  PROVE  H!IInv
<1>1. H!Typed
  BY DEF H!HistoryAssumption, H!Init, H!Typed, H!TypeOK, H!Cert, H!NothingTold
<1>2. H!NoFalseAlarm /\ H!WrittenOnce
  BY DEF H!Init, H!NoFalseAlarm, H!WrittenOnce
<1>3. ASSUME NEW n \in Edge  PROVE H!Dated(n) /\ H!Logged(n)
  BY DEF H!HistoryAssumption, H!Init, H!Dated, H!Logged, H!Diffed
<1> QED
  BY <1>1, <1>2, <1>3 DEF H!IInv

\* What is not after something not after a third is not after that.
LEMMA EarlierTwice ==
  ASSUME NEW a \in H!Cert, NEW b \in H!Cert, NEW c \in H!Cert, H!Earlier(a, b), H!Earlier(b, c)
  PROVE  H!Earlier(a, c)
<1>1. a.count \in Nat /\ b.count \in Nat /\ c.count \in Nat
  BY DEF H!Cert
<1>2. CASE a.count = c.count
  <2>1. a.count = b.count /\ b.count = c.count
    BY <1>1, <1>2 DEF H!Earlier
  <2> QED
    BY <1>1, <2>1 DEF H!Earlier
<1> QED
  BY <1>1, <1>2 DEF H!Earlier

\* What a node does leaves the reports alone, and takes nothing back.
LEMMA HistoryNodes ==
  ASSUME H!HistoryAssumption, H!IInv, NEW n \in Edge, NEW z \in Domain,
         \/ \E b \in BOOLEAN : H!CertChanges(n, z, b)
         \/ H!ChallengeChanges(n, z) \/ H!KeepWindow(n, z)
  PROVE  H!IInv'
<1>0. H!Typed /\ \A m \in Edge : H!Dated(m) /\ H!Logged(m)
  BY DEF H!IInv
<1> DEFINE Effect ==
      /\ UNCHANGED <<placing, doc, report, unread, lastAt, told, gap, alarms, written, twice>>
      /\ changes' \in 0..Changes
      /\ cert' \in [Edge -> [Domain -> H!Cert]] /\ chal' \in [Edge -> [Domain -> Nat]]
      /\ win' \in [Edge -> [Domain -> Nat]]
      /\ \A m \in Edge, y \in Domain : H!Earlier(cert[m][y], cert'[m][y]) /\ win[m][y] <= win'[m][y]
                                       /\ win'[m][y] \in 0..Closes[y]
<1>1. Effect
  <2>0. /\ cert \in [Edge -> [Domain -> H!Cert]] /\ chal \in [Edge -> [Domain -> Nat]]
        /\ win \in [Edge -> [Domain -> Nat]] /\ changes \in 0..Changes /\ Changes \in Nat
        /\ \A m \in Edge, y \in Domain : win[m][y] \in 0..Closes[y] /\ H!Earlier(cert[m][y], cert[m][y])
        /\ Closes \in [Domain -> Nat]
    BY <1>0 DEF H!HistoryAssumption, H!Typed, H!TypeOK, H!Cert, H!Earlier
  <2>1. ASSUME NEW b \in BOOLEAN, H!CertChanges(n, z, b)  PROVE Effect
    <3> DEFINE c == [held |-> b, count |-> cert[n][z].count + 1]
    <3>1. c \in H!Cert /\ H!Earlier(cert[n][z], c)
      BY <2>0 DEF H!Cert, H!Earlier
    <3>2. cert' = [cert EXCEPT ![n] = [cert[n] EXCEPT ![z] = c]]
      BY <2>1 DEF H!CertChanges
    <3> HIDE DEF c
    <3>3. /\ cert' \in [Edge -> [Domain -> H!Cert]]
          /\ \A m \in Edge, y \in Domain : cert'[m][y] = IF m = n /\ y = z THEN c ELSE cert[m][y]
      BY <2>0, <3>1, <3>2
    <3> QED
      BY <2>0, <2>1, <3>1, <3>3 DEF H!CertChanges, H!Change, H!reportVars, H!ghosts
  <2>2. CASE H!ChallengeChanges(n, z)
    BY <2>0, <2>2 DEF H!ChallengeChanges, H!Change, H!reportVars, H!ghosts
  <2>3. CASE H!KeepWindow(n, z)
    <3>1. win' = [win EXCEPT ![n] = [win[n] EXCEPT ![z] = win[n][z] + 1]]
      BY <2>3 DEF H!KeepWindow
    <3>2. /\ win' \in [Edge -> [Domain -> Nat]]
          /\ \A m \in Edge, y \in Domain : win'[m][y] = IF m = n /\ y = z THEN win[n][z] + 1 ELSE win[m][y]
      BY <2>0, <3>1
    <3>3. win[n][z] < Closes[z] /\ Closes[z] \in Nat
      BY <2>0, <2>3 DEF H!KeepWindow
    <3> QED
      BY <2>0, <2>3, <3>2, <3>3 DEF H!KeepWindow, H!reportVars, H!ghosts
  <2> QED
    BY <2>1, <2>2, <2>3
<1>2. H!Typed'
  BY <1>0, <1>1 DEF H!Typed, H!TypeOK
<1>3. ASSUME NEW m \in Edge  PROVE H!Dated(m)' /\ H!Logged(m)'
  <2>1. /\ report[m] \in H!Reports \cup {NoReport} /\ unread[m] \in H!Unread \cup {NoReport}
        /\ \A y \in Domain : /\ cert[m][y] \in H!Cert /\ cert'[m][y] \in H!Cert
                             /\ win[m][y] \in Nat /\ win'[m][y] \in Nat /\ lastAt[m][y] \in Nat
    BY <1>0, <1>1 DEF H!Typed
  <2>2. report[m] # NoReport => \A y \in Domain : report[m].cert[y] \in H!Cert
    BY <2>1 DEF H!Reports
  <2>3. unread[m] # NoReport => \A y \in Domain : unread[m].rep.win[y] \in Nat
    BY <2>1 DEF H!Reports, H!Unread
  <2>4. ASSUME report[m] # NoReport, NEW y \in Domain  PROVE H!Earlier(report[m].cert[y], cert'[m][y])
    <3>1. H!Earlier(report[m].cert[y], cert[m][y]) /\ H!Earlier(cert[m][y], cert'[m][y])
      BY <1>0, <1>1, <2>4 DEF H!Dated
    <3> QED
      BY <2>1, <2>2, <2>4, <3>1, EarlierTwice
  <2>5. H!Dated(m)'
    <3>1. H!Dated(m)
      BY <1>0
    <3>2. ASSUME unread[m] # NoReport, NEW y \in Domain
          PROVE  lastAt[m][y] <= unread[m].rep.win[y] /\ unread[m].rep.win[y] <= win'[m][y]
      BY <1>1, <2>1, <2>3, <3>1, <3>2 DEF H!Dated
    <3>3. ASSUME NEW y \in Domain  PROVE lastAt[m][y] <= win'[m][y]
      BY <1>1, <2>1, <3>1 DEF H!Dated
    <3> QED
      BY <1>1, <2>4, <3>1, <3>2, <3>3 DEF H!Dated, H!Exact
  <2>6. H!Logged(m)'
    BY <1>0, <1>1 DEF H!Logged, H!Diffed
  <2> QED
    BY <2>5, <2>6
<1> QED
  BY <1>1, <1>2, <1>3 DEF H!IInv, H!NoFalseAlarm, H!WrittenOnce

\* A report is stored as the node is, with the one before beside it to diff.
LEMMA HistoryPut ==
  ASSUME H!HistoryAssumption, H!IInv, NEW n \in Edge, NEW certs \in SUBSET Domain, NEW zones \in SUBSET Domain,
         NEW quiet \in BOOLEAN, H!Put(n, certs, zones, quiet)
  PROVE  H!IInv'
<1> DEFINE r == H!Report(n, certs, zones, quiet)
           u == [base |-> report[n], rep |-> r]
<1>0. H!Typed /\ \A m \in Edge : H!Dated(m) /\ H!Logged(m)
  BY DEF H!IInv
<1>1. /\ unread[n] = NoReport /\ certs \subseteq H!Held(n)
      /\ report' = [report EXCEPT ![n] = r] /\ unread' = [unread EXCEPT ![n] = u]
      /\ UNCHANGED <<placing, doc, cert, chal, win, changes, lastAt, told, gap, alarms, written, twice>>
  BY DEF H!Put, H!Cut, H!nodeVars, H!ghosts
<1>2. /\ cert[n] \in [Domain -> H!Cert] /\ chal[n] \in [Domain -> Nat] /\ win[n] \in [Domain -> Nat]
      /\ report[n] \in H!Reports \cup {NoReport}
  BY <1>0 DEF H!Typed
<1>3. r \in H!Reports /\ r.cert = cert[n] /\ r.win = win[n] /\ H!Exact(r)
  BY <1>1, <1>2 DEF H!Report, H!Reports, H!Exact, H!Held
<1> HIDE DEF r
<1>4. u \in H!Unread /\ u.base = report[n] /\ u.rep = r /\ u # NoReport /\ r # NoReport
  BY <1>2, <1>3 DEF H!Unread, H!HistoryAssumption
<1> HIDE DEF u
<1>5. /\ report' \in [Edge -> H!Reports \cup {NoReport}] /\ unread' \in [Edge -> H!Unread \cup {NoReport}]
      /\ report'[n] = r /\ unread'[n] = u
      /\ \A m \in Edge : m # n => report'[m] = report[m] /\ unread'[m] = unread[m]
  BY <1>0, <1>1, <1>3, <1>4 DEF H!Typed
<1>6. H!Typed'
  BY <1>0, <1>1, <1>5 DEF H!Typed, H!TypeOK
<1>7. H!Dated(n)'
  <2>1. \A z \in Domain : H!Earlier(cert[n][z], cert[n][z]) /\ win[n][z] <= win[n][z] /\ lastAt[n][z] <= win[n][z]
    BY <1>0, <1>2 DEF H!Dated, H!Earlier, H!Cert
  <2>2. report[n] # NoReport =>
          H!Exact(report[n]) /\ \A z \in Domain : H!Earlier(report[n].cert[z], cert[n][z])
    BY <1>0 DEF H!Dated
  <2> QED
    BY <1>1, <1>3, <1>4, <1>5, <2>1, <2>2 DEF H!Dated, H!Exact
<1>8. H!Logged(n)'
  <2>1. H!Diffed(n)' = H!Diffed(n)
    BY <1>1, <1>4, <1>5 DEF H!Diffed
  <2> QED
    BY <1>0, <1>1, <2>1 DEF H!Logged
<1>9. ASSUME NEW m \in Edge, m # n  PROVE H!Dated(m)' /\ H!Logged(m)'
  BY <1>0, <1>1, <1>5, <1>9 DEF H!Dated, H!Exact, H!Logged, H!Diffed
<1>10. H!NoFalseAlarm' /\ H!WrittenOnce'
  BY <1>1 DEF H!IInv, H!NoFalseAlarm, H!WrittenOnce
<1> QED
  BY <1>6, <1>7, <1>8, <1>9, <1>10 DEF H!IInv

\* A poll, a reload and a restart.
LEMMA HistoryOthers ==
  ASSUME H!HistoryAssumption, H!IInv, H!Reload \/ H!Restart \/ \E n \in Edge : H!Fetch(n)
  PROVE  H!IInv'
<1>0. H!Typed /\ \A m \in Edge : H!Dated(m) /\ H!Logged(m)
  BY DEF H!IInv
<1>1. CASE H!Reload
  <2>1. H!Typed'
    BY <1>0, <1>1 DEF H!Typed, H!TypeOK, H!Reload, H!nodeVars, H!reportVars, H!ghosts
  <2> QED
    BY <1>0, <1>1, <2>1 DEF H!Reload, H!nodeVars, H!reportVars, H!ghosts, H!IInv, H!Dated, H!Exact, H!Logged, H!Diffed,
       H!NoFalseAlarm, H!WrittenOnce
<1>2. CASE H!Restart
  <2>1. H!Typed'
    BY <1>0, <1>2 DEF H!Typed, H!TypeOK, H!Restart, H!nodeVars, H!NothingTold, H!Cert
  <2>2. ASSUME NEW m \in Edge  PROVE H!Dated(m)' /\ H!Logged(m)'
    <3>1. \A z \in Domain : win[m][z] \in Nat
      BY <1>0 DEF H!Typed
    <3> QED
      BY <1>2, <3>1 DEF H!Restart, H!nodeVars, H!Dated, H!Logged, H!Diffed
  <2> QED
    BY <1>2, <2>1, <2>2 DEF H!Restart, H!IInv, H!NoFalseAlarm, H!WrittenOnce
<1>3. ASSUME NEW n \in Edge, H!Fetch(n)  PROVE H!IInv'
  <2>1. doc' = [doc EXCEPT ![n] = placing.serves[n] \cap placing.file]
        /\ UNCHANGED <<placing, cert, chal, win, changes, report, unread, lastAt, told, gap, alarms, written, twice>>
    BY <1>3 DEF H!Fetch, H!reportVars, H!ghosts
  <2>2. placing.serves[n] \cap placing.file \subseteq Domain
    BY <1>0 DEF H!Typed, H!TypeOK, H!HistoryAssumption
  <2>3. H!Typed'
    BY <1>0, <2>1, <2>2 DEF H!Typed, H!TypeOK
  <2> QED
    BY <1>0, <2>1, <2>3 DEF H!IInv, H!Dated, H!Exact, H!Logged, H!Diffed, H!NoFalseAlarm, H!WrittenOnce
<1> QED
  BY <1>1, <1>2, <1>3

\* Of a certificate that is not told to have changed, what is said stays as old as it was;
\* of one that is, it was older.
LEMMA HistoryDiffs ==
  ASSUME H!HistoryAssumption, H!IInv, NEW n \in Edge, unread[n] # NoReport, unread[n].base # NoReport,
         NEW z \in H!Events(n, unread[n].base, unread[n].rep).cert
  PROVE  /\ z \in Domain /\ told[n][z].cert.count < unread[n].rep.cert[z].count
<1> DEFINE prior == unread[n].base
           rep == unread[n].rep
<1>1. H!Dated(n) /\ H!Logged(n) /\ prior \in H!Reports /\ rep \in H!Reports /\ told[n] \in [Domain -> [cert : H!Cert, chal : Nat]]
  BY DEF H!IInv, H!Typed, H!Unread
<1>2. /\ H!Exact(prior) /\ H!Exact(rep) /\ \A y \in Domain : H!Earlier(prior.cert[y], rep.cert[y])
      /\ \A y \in Domain : told[n][y].cert.count <= prior.cert[y].count
  BY <1>1 DEF H!Dated, H!Logged, H!Diffed, H!HistoryAssumption
<1>3. /\ prior.certs \subseteq Domain /\ rep.certs \subseteq Domain
      /\ prior.cert \in [Domain -> H!Cert] /\ rep.cert \in [Domain -> H!Cert]
  BY <1>1 DEF H!Reports
<1>4. z \in H!Issued(n, prior, rep) \cup H!Renewed(n, prior, rep) \cup H!GoneCerts(n, prior, rep)
  BY DEF H!Events
<1> HIDE DEF prior, rep
<1>5. z \in Domain /\ prior.cert[z] # rep.cert[z]
  <2>1. CASE z \in H!Issued(n, prior, rep)
    BY <1>2, <1>3, <2>1 DEF H!Issued, H!Exact
  <2>2. CASE z \in H!Renewed(n, prior, rep)
    BY <1>3, <2>2 DEF H!Renewed
  <2>3. CASE z \in H!GoneCerts(n, prior, rep)
    BY <1>2, <1>3, <2>3 DEF H!GoneCerts, H!Exact
  <2> QED
    BY <1>4, <2>1, <2>2, <2>3
<1>6. prior.cert[z] \in H!Cert /\ rep.cert[z] \in H!Cert /\ told[n][z].cert \in H!Cert
  BY <1>1, <1>3, <1>5
<1>7. prior.cert[z].count < rep.cert[z].count
  BY <1>2, <1>5, <1>6 DEF H!Earlier, H!Cert
<1> QED
  BY <1>2, <1>5, <1>6, <1>7 DEF H!Cert, rep

\* Without a gap what the log says of a zone is what the report just diffed says.
LEMMA HistoryCurrent ==
  ASSUME H!HistoryAssumption, H!IInv, NEW n \in Edge, NEW z \in Domain, NEW c \in H!Cert, NEW w \in Nat,
         unread[n] # NoReport, unread[n].base # NoReport, ~gap[n],
         H!Served(n, z), ~unread[n].rep.certsCut, ~unread[n].rep.zonesCut, unread[n].rep.zones = Domain,
         c = IF z \in H!Events(n, unread[n].base, unread[n].rep).cert THEN unread[n].rep.cert[z] ELSE told[n][z].cert,
         w = IF z \in H!Events(n, unread[n].base, unread[n].rep).chal THEN unread[n].rep.chal[z] ELSE told[n][z].chal
  PROVE  /\ c.held = unread[n].rep.cert[z].held
         /\ c.held => c.count = unread[n].rep.cert[z].count
         /\ H!On(w) = H!On(unread[n].rep.chal[z])
<1> DEFINE prior == unread[n].base
           rep == unread[n].rep
<1>1. H!Dated(n) /\ H!Logged(n) /\ prior \in H!Reports /\ rep \in H!Reports
      /\ told[n] \in [Domain -> [cert : H!Cert, chal : Nat]]
  BY DEF H!IInv, H!Typed, H!Unread
<1>2. /\ H!Exact(prior) /\ H!Exact(rep) /\ ~prior.certsCut /\ prior.zones = Domain
      /\ told[n][z].cert.held = prior.cert[z].held
      /\ told[n][z].cert.held => told[n][z].cert.count = prior.cert[z].count
      /\ H!On(told[n][z].chal) = H!On(prior.chal[z])
  BY <1>1 DEF H!Dated, H!Logged, H!Diffed, H!HistoryAssumption
<1>3. /\ prior.cert[z] \in H!Cert /\ rep.cert[z] \in H!Cert /\ told[n][z].cert \in H!Cert
      /\ z \in rep.certs <=> rep.cert[z].held
      /\ z \in prior.certs <=> prior.cert[z].held
  BY <1>1, <1>2 DEF H!Reports, H!Exact
<1>4. /\ ~rep.certsCut /\ ~rep.zonesCut /\ rep.zones = Domain
      /\ c = IF z \in H!Events(n, prior, rep).cert THEN rep.cert[z] ELSE told[n][z].cert
      /\ w = IF z \in H!Events(n, prior, rep).chal THEN rep.chal[z] ELSE told[n][z].chal
  OBVIOUS
<1> HIDE DEF prior, rep
<1>5. ASSUME z \in H!Events(n, prior, rep).cert
      PROVE  c.held = rep.cert[z].held /\ (c.held => c.count = rep.cert[z].count)
  BY <1>4, <1>5
<1>6. ASSUME z \notin H!Events(n, prior, rep).cert
      PROVE  c.held = rep.cert[z].held /\ (c.held => c.count = rep.cert[z].count)
  <2>1. /\ ~(z \in rep.certs /\ z \notin prior.certs) /\ ~(z \in prior.certs /\ z \notin rep.certs)
        /\ z \in rep.certs /\ z \in prior.certs => rep.cert[z].count = prior.cert[z].count
    BY <1>2, <1>4, <1>6 DEF H!Events, H!Issued, H!Renewed, H!GoneCerts
  <2>2. c = told[n][z].cert /\ rep.cert[z].held \in BOOLEAN /\ prior.cert[z].held \in BOOLEAN
    BY <1>3, <1>4, <1>6 DEF H!Cert
  <2>3. rep.cert[z].held <=> prior.cert[z].held
    BY <1>3, <2>1
  <2>4. rep.cert[z].held = prior.cert[z].held
    BY <2>2, <2>3
  <2>5. rep.cert[z].held => rep.cert[z].count = prior.cert[z].count
    BY <1>3, <2>1, <2>3
  <2>6. c.held = prior.cert[z].held /\ (c.held => c.count = prior.cert[z].count)
    BY <1>2, <2>2
  <2> QED
    BY <2>4, <2>5, <2>6
<1>7. H!On(w) = H!On(rep.chal[z])
  <2>1. CASE z \in H!Events(n, prior, rep).chal
    BY <1>4, <2>1
  <2>2. CASE z \notin H!Events(n, prior, rep).chal
    <3>1. H!On(rep.chal[z]) \in BOOLEAN /\ H!On(prior.chal[z]) \in BOOLEAN
      BY DEF H!On
    <3>2. (z \in H!Active(rep) <=> H!On(rep.chal[z])) /\ (z \in H!Active(prior) <=> H!On(prior.chal[z]))
      BY <1>2, <1>4 DEF H!Active
    <3>3. z \in H!Active(rep) <=> z \in H!Active(prior)
      BY <1>4, <2>2 DEF H!Events, H!Started, H!Ended
    <3> QED
      BY <1>2, <1>4, <2>2, <3>1, <3>2, <3>3
  <2> QED
    BY <2>1, <2>2
<1> QED
  BY <1>5, <1>6, <1>7 DEF rep

\* A report is diffed: what changed is told, the last windows are written once, and the
\* first report of all sets the baseline.
LEMMA HistoryObserve ==
  ASSUME H!HistoryAssumption, H!IInv, NEW n \in Edge, H!Observe(n)
  PROVE  H!IInv'
<1> DEFINE prior == unread[n].base
           rep == unread[n].rep
           new == H!NewWindows(n, rep)
           ev == IF prior = NoReport THEN [cert |-> {}, chal |-> {}] ELSE H!Events(n, prior, rep)
           last == [z \in Domain |-> IF z \in new THEN rep.win[z] ELSE lastAt[n][z]]
           says == [z \in Domain |->
                      [ cert |-> IF prior = NoReport \/ z \in ev.cert THEN rep.cert[z] ELSE told[n][z].cert,
                        chal |-> IF prior = NoReport \/ z \in ev.chal THEN rep.chal[z] ELSE told[n][z].chal ]]
           gaps == gap[n] \/ rep.certsCut \/ rep.zonesCut \/ \E z \in Domain : ~H!Served(n, z) \/ z \notin rep.zones
           rows == written[n] \cup {<<z, rep.win[z]>> : z \in new}
<1>0. H!Typed /\ (\A m \in Edge : H!Dated(m) /\ H!Logged(m)) /\ H!NoFalseAlarm /\ H!WrittenOnce
  BY DEF H!IInv
<1>1. /\ unread[n] # NoReport
      /\ unread' = [unread EXCEPT ![n] = NoReport] /\ lastAt' = [lastAt EXCEPT ![n] = last]
      /\ told' = [told EXCEPT ![n] = says]
      /\ gap' = [gap EXCEPT ![n] = gaps] /\ written' = [written EXCEPT ![n] = rows]
      /\ twice' = (twice \/ \E z \in new : <<z, rep.win[z]>> \in written[n])
      /\ UNCHANGED <<placing, doc, cert, chal, win, changes, report>>
  BY DEF H!Observe, H!nodeVars
<1>2. alarms' = alarms
          \cup {<<"cert", z>> : z \in {y \in ev.cert : rep.cert[y].count = told[n][y].cert.count}}
          \cup {<<"chal", z>> : z \in {y \in ev.chal : rep.chal[y] = told[n][y].chal}}
  BY DEF H!Observe
<1>3. /\ H!Dated(n) /\ H!Logged(n) /\ prior \in H!Reports \cup {NoReport} /\ rep \in H!Reports
      /\ told[n] \in [Domain -> [cert : H!Cert, chal : Nat]] /\ lastAt[n] \in [Domain -> Nat]
      /\ gap[n] \in BOOLEAN /\ written[n] \in SUBSET (Domain \X Nat) /\ win[n] \in [Domain -> Nat]
      /\ rep.cert \in [Domain -> H!Cert] /\ rep.chal \in [Domain -> Nat] /\ rep.win \in [Domain -> Nat]
      /\ rep.windows \subseteq Domain /\ rep = report[n]
  BY <1>0, <1>1 DEF H!Typed, H!Unread, H!Reports, H!Dated
<1>4. prior # NoReport =>
        /\ \A z \in ev.cert : z \in Domain /\ told[n][z].cert.count < rep.cert[z].count
        /\ \A z \in Domain : told[n][z].cert.count <= prior.cert[z].count
        /\ \A z \in Domain : H!Earlier(prior.cert[z], rep.cert[z])
  BY <1>1, <1>3, HistoryDiffs DEF H!Dated, H!Logged, H!Diffed
<1>5. \A z \in Domain : lastAt[n][z] <= rep.win[z] /\ rep.win[z] <= win[n][z]
  BY <1>1, <1>3 DEF H!Dated
<1>6. new \subseteq Domain /\ \A z \in new : lastAt[n][z] # rep.win[z]
  BY <1>3 DEF H!NewWindows
<1>7. ~gaps => /\ ~gap[n] /\ ~rep.certsCut /\ ~rep.zonesCut
               /\ \A z \in Domain : H!Served(n, z) /\ z \in rep.zones
  OBVIOUS
<1>8. gaps \in BOOLEAN
  BY <1>3 DEF H!Reports
<1>9. /\ last \in [Domain -> Nat] /\ \A z \in Domain : last[z] = IF z \in new THEN rep.win[z] ELSE lastAt[n][z]
  BY <1>3
<1>10. /\ says \in [Domain -> [cert : H!Cert, chal : Nat]]
       /\ \A z \in Domain :
            /\ says[z].cert = IF prior = NoReport \/ z \in ev.cert THEN rep.cert[z] ELSE told[n][z].cert
            /\ says[z].chal = IF prior = NoReport \/ z \in ev.chal THEN rep.chal[z] ELSE told[n][z].chal
  BY <1>3
<1>11. /\ rows \in SUBSET (Domain \X Nat)
       /\ \A c \in rows : c \in written[n] \/ \E z \in new : c = <<z, rep.win[z]>>
  BY <1>3, <1>6
<1>12. prior # NoReport => ev = H!Events(n, prior, rep)
  OBVIOUS
<1>13. prior = NoReport => ev.cert = {}
  OBVIOUS
<1>14. unread[n].base = prior /\ unread[n].rep = rep
  OBVIOUS
<1> HIDE DEF prior, rep, new, ev, last, says, gaps, rows
<1>15. /\ unread' \in [Edge -> H!Unread \cup {NoReport}] /\ lastAt' \in [Edge -> [Domain -> Nat]]
       /\ told' \in [Edge -> [Domain -> [cert : H!Cert, chal : Nat]]] /\ gap' \in [Edge -> BOOLEAN]
       /\ written' \in [Edge -> SUBSET (Domain \X Nat)]
       /\ unread'[n] = NoReport /\ lastAt'[n] = last /\ told'[n] = says /\ gap'[n] = gaps /\ written'[n] = rows
       /\ \A m \in Edge : m # n => /\ unread'[m] = unread[m] /\ lastAt'[m] = lastAt[m] /\ told'[m] = told[m]
                                   /\ gap'[m] = gap[m] /\ written'[m] = written[m]
  BY <1>0, <1>1, <1>8, <1>9, <1>10, <1>11 DEF H!Typed
<1>16. H!Typed'
  BY <1>0, <1>1, <1>15 DEF H!Typed, H!TypeOK
<1>17. H!NoFalseAlarm'
  <2>1. ASSUME NEW z \in ev.cert  PROVE rep.cert[z].count # told[n][z].cert.count
    <3>1. z \in Domain /\ told[n][z].cert.count < rep.cert[z].count
      BY <1>4, <1>13, <2>1
    <3>2. told[n][z].cert.count \in Nat /\ rep.cert[z].count \in Nat
      BY <1>3, <3>1 DEF H!Cert
    <3> QED
      BY <3>1, <3>2
  <2>2. \A a \in alarms' : a \in alarms \/ a[1] = "chal"
    BY <1>2, <2>1
  <2> QED
    BY <1>0, <2>2 DEF H!NoFalseAlarm
<1>18. H!WrittenOnce'
  <2>1. ASSUME NEW z \in new  PROVE <<z, rep.win[z]>> \notin written[n]
    <3>0. z \in Domain /\ lastAt[n][z] \in Nat /\ rep.win[z] \in Nat
      BY <1>3, <1>6
    <3>1. lastAt[n][z] < rep.win[z] /\ z \in Domain
      <4>1. lastAt[n][z] <= rep.win[z] /\ lastAt[n][z] # rep.win[z]
        BY <1>5, <1>6, <3>0
      <4> QED
        BY <3>0, <4>1
    <3>2. \A c \in written[n] : c[2] <= lastAt[n][c[1]]
      BY <1>3 DEF H!Logged
    <3>3. lastAt[n][z] \in Nat /\ rep.win[z] \in Nat
      BY <1>3, <3>1
    <3> QED
      BY <3>1, <3>2, <3>3
  <2> QED
    BY <1>0, <1>1, <2>1 DEF H!WrittenOnce
<1>19. ASSUME NEW z \in Domain  PROVE lastAt[n][z] <= last[z] /\ last[z] <= win[n][z]
  BY <1>3, <1>5, <1>9
<1>20. H!Dated(n)'
  BY <1>1, <1>3, <1>15, <1>19 DEF H!Dated, H!Exact
<1>21. H!Logged(n)'
  <2>1. ASSUME NEW c \in rows  PROVE c[2] <= last[c[1]]
    <3>1. CASE c \in written[n]
      <4>1. c[2] <= lastAt[n][c[1]] /\ c[1] \in Domain /\ c[2] \in Nat
        BY <1>3, <3>1 DEF H!Logged
      <4>2. lastAt[n][c[1]] <= last[c[1]] /\ lastAt[n][c[1]] \in Nat /\ last[c[1]] \in Nat
        BY <1>3, <1>9, <1>19, <4>1
      <4> QED
        BY <4>1, <4>2
    <3>2. ASSUME NEW z \in new, c = <<z, rep.win[z]>>  PROVE c[2] <= last[c[1]]
      BY <1>3, <1>6, <1>9, <3>2
    <3> QED
      BY <1>11, <3>1, <3>2
  <2>2. ASSUME NEW z \in Domain  PROVE says[z].cert.count <= rep.cert[z].count
    <3>1. rep.cert[z] \in H!Cert /\ told[n][z].cert \in H!Cert
      BY <1>3
    <3>2. CASE prior = NoReport \/ z \in ev.cert
      BY <1>10, <3>1, <3>2 DEF H!Cert
    <3>3. CASE ~(prior = NoReport \/ z \in ev.cert)
      <4>1. told[n][z].cert.count <= prior.cert[z].count /\ prior.cert[z].count <= rep.cert[z].count
        BY <1>4, <3>3 DEF H!Earlier
      <4>2. prior.cert[z] \in H!Cert
        BY <1>3, <3>3 DEF H!Reports
      <4> QED
        BY <1>10, <3>1, <3>3, <4>1, <4>2 DEF H!Cert
    <3> QED
      BY <3>2, <3>3
  <2>3. ASSUME ~gaps, NEW z \in Domain
        PROVE  /\ says[z].cert.held = rep.cert[z].held
               /\ says[z].cert.held => says[z].cert.count = rep.cert[z].count
               /\ H!On(says[z].chal) = H!On(rep.chal[z])
    <3>1. CASE prior = NoReport
      BY <1>10, <3>1
    <3>2. CASE prior # NoReport
      <4>1. says[z].cert \in H!Cert /\ says[z].chal \in Nat
        BY <1>10
      <4>2. rep.zones = Domain
        BY <1>3, <1>7, <2>3 DEF H!Reports
      <4> QED
        BY <1>1, <1>7, <1>10, <1>12, <1>14, <2>3, <3>2, <4>1, <4>2, HistoryCurrent
    <3> QED
      BY <3>1, <3>2
  <2>4. ~gaps => ~rep.certsCut /\ rep.zones = Domain
    BY <1>3, <1>7 DEF H!Reports
  <2>5. H!Diffed(n)' = rep
    BY <1>1, <1>3, <1>15 DEF H!Diffed
  <2> QED
    BY <1>15, <2>1, <2>2, <2>3, <2>4, <2>5 DEF H!Logged
<1>22. ASSUME NEW m \in Edge, m # n  PROVE H!Dated(m)' /\ H!Logged(m)'
  BY <1>0, <1>1, <1>15, <1>22 DEF H!Dated, H!Exact, H!Logged, H!Diffed
<1> QED
  BY <1>16, <1>17, <1>18, <1>20, <1>21, <1>22 DEF H!IInv

\* Every step of the log keeps its invariant.
LEMMA HistoryStep ==
  ASSUME H!HistoryAssumption, H!IInv, [H!Next]_H!vars
  PROVE  H!IInv'
<1>1. ASSUME UNCHANGED H!vars  PROVE H!IInv'
  BY <1>1 DEF H!vars, H!nodeVars, H!reportVars, H!ghosts, H!IInv, H!Typed, H!TypeOK, H!Dated, H!Exact, H!Logged,
     H!Diffed, H!NoFalseAlarm, H!WrittenOnce
<1> QED
  BY <1>1, HistoryNodes, HistoryPut, HistoryOthers, HistoryObserve DEF H!Next

\* The invariant is what the log promises.
LEMMA HistoryHeld ==
  ASSUME H!IInv
  PROVE  H!TypeOK /\ H!HistoryHonest
<1>1. H!TypeOK /\ H!NoFalseAlarm /\ H!WrittenOnce
  BY DEF H!IInv, H!Typed
<1>2. H!LogIsCurrent
  BY DEF H!IInv, H!Logged, H!Diffed, H!LogIsCurrent
<1>3. H!UnservedSilent
  BY DEF H!UnservedSilent, H!Unserved, H!Reporting, H!Holders, H!Claims, H!Placed
<1> QED
  BY <1>1, <1>2, <1>3 DEF H!HistoryHonest

---------------------------------------------------------------------------
(* Which nodes are there.                                                  *)

\* Nobody is there at the start, and nothing is told.
LEMMA PresenceInit ==
  ASSUME E!PresenceAssumption, E!Init
  PROVE  E!IInv
<1> USE DEF E!PresenceAssumption, E!Init, E!Never, E!Noticed, E!Heard
<1>1. E!Typed
  BY DEF E!Typed
<1>2. E!Sighted
  BY DEF E!Sighted
<1>3. E!SilentLongEnough
  BY DEF E!SilentLongEnough
<1>4. E!PresenceTold
  BY DEF E!PresenceTold, E!NoBurst, E!LossNoticed
<1> QED
  BY <1>1, <1>2, <1>3, <1>4 DEF E!IInv

\* A poll that starts or ends is a sighting; the ticker tells no more than was silent; a tick
\* finds the silences; a restart forgets all.
LEMMA PresenceStep ==
  ASSUME E!PresenceAssumption, E!IInv, [E!Next]_E!vars
  PROVE  E!IInv'
<1> USE DEF E!PresenceAssumption, E!Never, E!Noticed, E!Heard
<1>0. E!Typed /\ E!Sighted /\ E!SilentLongEnough /\ E!NoBurst /\ E!LossNoticed
  BY DEF E!IInv, E!PresenceTold
<1>1. ASSUME NEW n \in Edge, E!PollStarted(n) \/ E!PollEnded(n)  PROVE E!IInv'
  <2>1. E!Typed'
    BY <1>0, <1>1 DEF E!Typed, E!PollStarted, E!PollEnded
  <2>2. E!Sighted'
    BY <1>0, <1>1 DEF E!Typed, E!Sighted, E!PollStarted, E!PollEnded
  <2>3. E!SilentLongEnough'
    BY <1>0, <1>1 DEF E!Typed, E!SilentLongEnough, E!PollStarted, E!PollEnded
  <2>4. E!PresenceTold'
    BY <1>0, <1>1 DEF E!Typed, E!PresenceTold, E!NoBurst, E!LossNoticed, E!PollStarted, E!PollEnded
  <2> QED
    BY <2>1, <2>2, <2>3, <2>4 DEF E!IInv
<1>2. CASE E!PresenceTick
  <2> DEFINE Seen(n) == IF E!TooEarly(n) THEN mark[n] ELSE IF E!Alive(n) THEN "alive" ELSE "lost"
             Flips(n) == mark[n] # "unknown" /\ mark'[n] # mark[n]
  <2>1. /\ due = 0 /\ due' = Period /\ UNCHANGED <<holding, age, uptime>>
        /\ mark' = [n \in Edge |-> Seen(n)]
        /\ log' = [n \in Edge |-> IF Flips(n) THEN mark'[n] ELSE log[n]]
        /\ false' = (false \/ \E n \in Edge : Flips(n) /\ n \notin silent)
        /\ silent' = {n \in silent : mark'[n] # "alive"}
    <3>1. /\ log' = [n \in Edge |-> IF n \in {x \in Edge : Flips(x)} THEN mark'[n] ELSE log[n]]
          /\ false' = (false \/ \E n \in {x \in Edge : Flips(x)} : n \notin silent)
      BY <1>2 DEF E!PresenceTick
    <3> HIDE DEF Flips
    <3>2. log' = [n \in Edge |-> IF Flips(n) THEN mark'[n] ELSE log[n]]
      BY <3>1
    <3>3. (\E n \in {x \in Edge : Flips(x)} : n \notin silent) <=> \E n \in Edge : Flips(n) /\ n \notin silent
      OBVIOUS
    <3>4. false' = (false \/ \E n \in Edge : Flips(n) /\ n \notin silent)
      BY <3>1, <3>3, Zenon
    <3> QED
      BY <1>2, <3>2, <3>4 DEF E!PresenceTick
  <2>2. /\ holding \in [Edge -> 0..Polls] /\ age \in [Edge -> 0..(Stale + Period + 2)] /\ silent \subseteq Edge
        /\ mark \in [Edge -> {"unknown", "alive", "lost"}] /\ log \in [Edge -> {"unknown", "alive", "lost"}]
        /\ uptime \in 0..Stale
    BY <1>0 DEF E!Typed
  <2>3. ASSUME NEW n \in Edge
        PROVE  /\ Seen(n) \in {"unknown", "alive", "lost"}
               /\ Seen(n) = "unknown" => mark[n] = "unknown"
               /\ Seen(n) = "alive" => holding[n] > 0 \/ age[n] <= Stale
               /\ Seen(n) = "lost" => n \in silent
    <3>1. /\ holding[n] > 0 => age[n] = 0
          /\ mark[n] = "alive" => holding[n] > 0 \/ age[n] <= Stale + (Period - due)
          /\ mark[n] = "lost" => n \in silent
          /\ holding[n] = 0 /\ E!Heard(n) /\ age[n] > Stale => n \in silent
          /\ ~E!Heard(n) /\ uptime = Stale => n \in silent
      BY <1>0 DEF E!Sighted, E!SilentLongEnough
    <3>2. holding[n] \in 0..Polls /\ age[n] \in 0..(Stale + Period + 2) /\ mark[n] \in {"unknown", "alive", "lost"}
      BY <2>2
    <3>3. CASE E!TooEarly(n)
      BY <3>3 DEF E!TooEarly
    <3>4. CASE ~E!TooEarly(n) /\ E!Alive(n)
      BY <3>4 DEF E!Alive
    <3>5. CASE ~E!TooEarly(n) /\ ~E!Alive(n)
      <4>1. holding[n] = 0 /\ age[n] > Stale
        BY <3>2, <3>5 DEF E!Alive
      <4>2. n \in silent
        <5>1. CASE E!Heard(n)
          BY <3>1, <4>1, <5>1
        <5>2. CASE ~E!Heard(n)
          BY <2>1, <2>2, <3>1, <3>2, <3>5, <4>1, <5>2 DEF E!TooEarly
        <5> QED
          BY <5>1, <5>2
      <4> QED
        BY <3>5, <4>2
    <3> QED
      BY <3>3, <3>4, <3>5
  <2> HIDE DEF Seen
  <2>4. \A n \in Edge : mark'[n] = Seen(n)
    BY <2>1
  <2>5. E!Typed'
    BY <2>1, <2>2, <2>3, <2>4 DEF E!Typed
  <2>6. E!Sighted'
    BY <1>0, <2>1, <2>3, <2>4 DEF E!Sighted
  <2>7. E!SilentLongEnough'
    <3>1. ASSUME NEW n \in Edge, n \in silent, holding[n] = 0, age[n] > Stale  PROVE n \in silent'
      BY <2>1, <2>2, <2>3, <2>4, <3>1
    <3>2. ASSUME NEW n \in Edge, mark'[n] = "lost"  PROVE n \in silent'
      BY <2>1, <2>3, <2>4, <3>2
    <3> QED
      BY <1>0, <2>1, <2>2, <3>1, <3>2 DEF E!SilentLongEnough, E!Sighted
  <2>8. E!NoBurst'
    <3>1. \A n \in Edge : ~(Flips(n) /\ n \notin silent)
      BY <1>0, <2>2, <2>3, <2>4 DEF E!SilentLongEnough
    <3> HIDE DEF Flips
    <3> QED
      BY <1>0, <2>1, <3>1 DEF E!NoBurst
  <2>9. E!LossNoticed'
    BY <1>0, <2>1, <2>2, <2>3, <2>4 DEF E!LossNoticed
  <2> QED
    BY <2>5, <2>6, <2>7, <2>8, <2>9 DEF E!IInv, E!PresenceTold
<1>3. CASE E!Tick
  <2>1. E!Typed'
    BY <1>0, <1>3 DEF E!Typed, E!Tick
  <2>2. E!Sighted'
    BY <1>0, <1>3 DEF E!Typed, E!Sighted, E!Tick
  <2>3. E!SilentLongEnough'
    BY <1>0, <1>3 DEF E!Typed, E!Sighted, E!SilentLongEnough, E!Tick
  <2>4. E!PresenceTold'
    BY <1>0, <1>3, <2>1, <2>2 DEF E!Typed, E!PresenceTold, E!Sighted, E!NoBurst, E!LossNoticed, E!Tick
  <2> QED
    BY <2>1, <2>2, <2>3, <2>4 DEF E!IInv
<1>4. CASE E!Restart
  <2>1. E!Typed'
    BY <1>0, <1>4 DEF E!Typed, E!Restart
  <2>2. E!Sighted'
    BY <1>4 DEF E!Sighted, E!Restart
  <2>3. E!SilentLongEnough'
    BY <1>4 DEF E!SilentLongEnough, E!Restart
  <2>4. E!PresenceTold'
    BY <1>0, <1>4 DEF E!PresenceTold, E!NoBurst, E!LossNoticed, E!Restart
  <2> QED
    BY <2>1, <2>2, <2>3, <2>4 DEF E!IInv
<1>5. CASE UNCHANGED E!vars
  BY <1>5 DEF E!vars, E!IInv, E!Typed, E!Sighted, E!SilentLongEnough, E!PresenceTold, E!NoBurst, E!LossNoticed
<1> QED
  BY <1>1, <1>2, <1>3, <1>4, <1>5 DEF E!Next

\* The invariant is what the log promises.
LEMMA PresenceHeld ==
  ASSUME E!PresenceAssumption, E!IInv
  PROVE  E!TypeOK /\ E!PresenceTold
  BY DEF E!IInv, E!Typed, E!TypeOK

---------------------------------------------------------------------------
(* The configuration.                                                      *)

\* The cardinalities of the configuration are the library's.
LEMMA SettingsCounted ==
  \A X : C!Cardinality(X) = Cardinality(X)
  BY DEF C!Cardinality, Cardinality

\* What is assumed of a file that may be written.
LEMMA FileTyped ==
  ASSUME C!SettingsAssumption, NEW f \in Files
  PROVE  /\ f.networks \subseteq SUBSET Protected
         /\ Len(f.escalation) \in Nat /\ f.escalation \in [1..Len(f.escalation) -> C!Rung]
         /\ Len(f.groups) \in Nat /\ DOMAIN f.groups = 1..Len(f.groups)
         /\ \A i \in DOMAIN f.groups :
              /\ f.groups[i].networks \subseteq SUBSET Protected
              /\ f.groups[i].escalation # None =>
                   /\ Len(f.groups[i].escalation) \in Nat
                   /\ f.groups[i].escalation \in [1..Len(f.groups[i].escalation) -> C!Rung]
<1>1. /\ f.networks \subseteq SUBSET Protected /\ f.escalation \in Seq(C!Rung)
      /\ Len(f.groups) \in Nat /\ DOMAIN f.groups = 1..Len(f.groups)
      /\ \A i \in DOMAIN f.groups :
           /\ f.groups[i].networks \subseteq SUBSET Protected
           /\ f.groups[i].escalation = None \/ f.groups[i].escalation \in Seq(C!Rung)
  BY Zenon DEF C!SettingsAssumption
<1>2. \A s \in Seq(C!Rung) : Len(s) \in Nat /\ s \in [1..Len(s) -> C!Rung]
  BY LenProperties
<1> QED
  BY <1>1, <1>2, Zenon

\* The severities, in order.
LEMMA Severities ==
  /\ C!ToSet(C!Actions) = {"none", "dataplane", "flowspec", "divert", "blackhole"}
  /\ C!Severity("none") = 1 /\ C!Severity("dataplane") = 2 /\ C!Severity("flowspec") = 3
  /\ C!Severity("divert") = 4 /\ C!Severity("blackhole") = 5
<1>1. /\ DOMAIN C!Actions = 1..5
      /\ C!Actions[1] = "none" /\ C!Actions[2] = "dataplane" /\ C!Actions[3] = "flowspec"
      /\ C!Actions[4] = "divert" /\ C!Actions[5] = "blackhole"
  BY DEF C!Actions
<1>2. 1..5 = {1, 2, 3, 4, 5}
  OBVIOUS
<1>3. C!ToSet(C!Actions) = {"none", "dataplane", "flowspec", "divert", "blackhole"}
  BY <1>1, <1>2 DEF C!ToSet
<1>4. ASSUME NEW i \in 1..5  PROVE C!Severity(C!Actions[i]) = i
  <2>1. \A j \in 1..5 : C!Actions[j] = C!Actions[i] => j = i
    BY <1>1, <1>2
  <2> QED
    BY <1>1, <2>1 DEF C!Severity
<1> QED
  BY <1>1, <1>2, <1>3, <1>4

\* A ladder climbs when its neighbouring rungs do.
Climbs(l) ==
  \A j, k \in DOMAIN l : j < k =>
    l[j].after < l[k].after /\ C!Severity(l[j].action) <= C!Severity(l[k].action)

\* A ladder whose every rung is above the one before it climbs.
LEMMA ClimbsByStep ==
  ASSUME NEW n \in Nat, NEW l \in [1..n -> C!Rung], \A i \in 1..n : l[i].action \in C!ToSet(C!Actions),
         \A i \in 1..n : i > 1 => /\ l[i].after > l[i - 1].after
                                  /\ C!Severity(l[i].action) >= C!Severity(l[i - 1].action)
  PROVE  Climbs(l)
<1>1. ASSUME NEW i \in 1..n  PROVE l[i].after \in Nat /\ C!Severity(l[i].action) \in Nat
  <2>1. l[i] \in C!Rung
    OBVIOUS
  <2>2. l[i].action \in {"none", "dataplane", "flowspec", "divert", "blackhole"}
    BY Severities
  <2> QED
    BY <2>1, <2>2, Severities DEF C!Rung
<1> DEFINE Up(j, k) == l[j].after < l[k].after /\ C!Severity(l[j].action) <= C!Severity(l[k].action)
<1>2. SUFFICES ASSUME NEW j \in 1..n, NEW m \in 1..n, j < m, ~Up(j, m)  PROVE FALSE
  BY DEF Climbs
<1>3. PICK k \in {x \in 1..n : j < x /\ ~Up(j, x)} : \A y \in {x \in 1..n : j < x /\ ~Up(j, x)} : k <= y
  <2> DEFINE X == {x \in 1..n : j < x /\ ~Up(j, x)}
  <2>1. X \in SUBSET Nat /\ m \in X
    <3> HIDE DEF Up
    <3> QED
      BY <1>2
  <2> HIDE DEF X
  <2>2. \E x \in X : \A y \in X : x <= y
    BY <2>1, LeastNatural
  <2> QED
    BY <2>2 DEF X
<1>4. k \in 1..n /\ k - 1 \in 1..n /\ j <= k - 1 /\ k > 1 /\ ~Up(j, k)
  BY <1>3
<1>5. k - 1 = j \/ Up(j, k - 1)
  BY <1>3, <1>4
<1>6. l[k].after > l[k - 1].after /\ C!Severity(l[k].action) >= C!Severity(l[k - 1].action)
  BY <1>4
<1>7. Up(j, k)
  <2> DEFINE a == l[j].after
             b == l[k - 1].after
             c == l[k].after
             d == C!Severity(l[j].action)
             e == C!Severity(l[k - 1].action)
             g == C!Severity(l[k].action)
  <2>1. a \in Nat /\ b \in Nat /\ c \in Nat /\ d \in Nat /\ e \in Nat /\ g \in Nat
    BY <1>1, <1>4
  <2>2. (a = b /\ d = e) \/ (a < b /\ d <= e)
    BY <1>5
  <2>3. b < c /\ e <= g
    BY <1>6, <2>1
  <2> HIDE DEF a, b, c, d, e, g
  <2>4. a < c /\ d <= g
    BY <2>1, <2>2, <2>3
  <2> QED
    BY <2>4 DEF a, c, d, g
<1> QED
  BY <1>4, <1>7

\* So does one that is checked, one of a single rung, and one that is degraded.
LEMMA CheckedClimbs ==
  ASSUME NEW l, Len(l) \in Nat, l \in [1..Len(l) -> C!Rung], C!LadderOK(l)
  PROVE  Climbs(l) /\ \A i \in DOMAIN l : l[i].action \in C!ToSet(C!Actions)
<1>1. DOMAIN l = 1..Len(l)
  OBVIOUS
<1>2. \A i \in 1..Len(l) : /\ l[i].action \in C!ToSet(C!Actions)
                           /\ i > 1 => /\ l[i].after > l[i - 1].after
                                       /\ C!Severity(l[i].action) >= C!Severity(l[i - 1].action)
  BY <1>1 DEF C!LadderOK
<1> QED
  BY <1>1, <1>2, ClimbsByStep

\* The one rung that stands for a method climbs.
LEMMA LadderClimbs ==
  ASSUME NEW l, Climbs(l), \A i \in DOMAIN l : l[i].action \in C!ToSet(C!Actions), NEW m
  PROVE  Climbs(C!Ladder(l, m)) /\ (l # <<>> => C!Ladder(l, m) = l)
<1>1. DOMAIN <<[after |-> 0, action |-> m]>> = {1}
  OBVIOUS
<1> QED
  BY <1>1 DEF C!Ladder, Climbs

\* A ladder still climbs when its flow rules and diversions become blackholes.
LEMMA DegradedClimbs ==
  ASSUME NEW l, Climbs(l), \A i \in DOMAIN l : l[i].action \in C!ToSet(C!Actions)
  PROVE  Climbs(C!Degraded(l))
<1> DEFINE d == C!Degraded(l)
<1>1. DOMAIN d = DOMAIN l
  BY DEF C!Degraded
<1>2. ASSUME NEW i \in DOMAIN l
      PROVE  d[i].after = l[i].after /\ d[i].action = IF l[i].action \in {"flowspec", "divert"} THEN "blackhole" ELSE l[i].action
  BY DEF C!Degraded
<1> QED
  BY <1>1, <1>2, Severities DEF Climbs

\* The groups: the global one, and one for each block of the file.
LEMMA GroupsAre ==
  ASSUME C!SettingsAssumption, NEW f \in Files
  PROVE  /\ DOMAIN C!Groups(f) = 1..(Len(f.groups) + 1) /\ C!Groups(f)[1] = C!GlobalGroup(f)
         /\ \A i \in DOMAIN f.groups : C!Groups(f)[i + 1] = C!GroupOf(f.groups[i], f)
<1> DEFINE n == Len(f.groups)
           s == <<C!GlobalGroup(f)>>
           t == [i \in 1..n |-> C!GroupOf(f.groups[i], f)]
           Any == {C!GlobalGroup(f)} \cup {C!GroupOf(f.groups[i], f) : i \in 1..n}
<1>1. n \in Nat /\ DOMAIN f.groups = 1..n
  BY FileTyped
<1>2. s \in Seq(Any) /\ Len(s) = 1 /\ s[1] = C!GlobalGroup(f)
  OBVIOUS
<1>3. t \in Seq(Any)
  <2>1. t \in [1..n -> Any]
    OBVIOUS
  <2> HIDE DEF t, Any
  <2> QED
    BY <1>1, <2>1, IsASeq
<1>4. DOMAIN t = 1..n /\ \A i \in 1..n : t[i] = C!GroupOf(f.groups[i], f)
  OBVIOUS
<1>5. Len(t) = n
  <2> HIDE DEF t, Any, n
  <2> QED
    BY <1>1, <1>3, <1>4, LenProperties
<1>6. C!Groups(f) = s \o t
  BY <1>1 DEF C!Groups
<1>7. /\ DOMAIN (s \o t) = 1..(Len(s) + Len(t)) 
      /\ (s \o t)[1] = s[1] /\ \A i \in 1..n : (s \o t)[i + 1] = t[i]
  <2> HIDE DEF s, t, Any, n
  <2>1. /\ Len(s \o t) = Len(s) + Len(t) /\ s \o t \in Seq(Any)
        /\ \A i \in 1..(Len(s) + Len(t)) : (s \o t)[i] = IF i <= Len(s) THEN s[i] ELSE t[i - Len(s)]
    BY <1>2, <1>3, ConcatProperties
  <2>2. DOMAIN (s \o t) = 1..(Len(s) + Len(t))
    BY <2>1, LenProperties
  <2>3. ASSUME NEW i \in 1..n  PROVE (s \o t)[i + 1] = t[i]
    <3>1. i + 1 \in 1..(Len(s) + Len(t)) /\ ~(i + 1 <= Len(s)) /\ (i + 1) - Len(s) = i
      BY <1>1, <1>2, <1>5
    <3> QED
      BY <2>1, <3>1
  <2>4. (s \o t)[1] = s[1]
    <3>1. 1 \in 1..(Len(s) + Len(t)) /\ 1 <= Len(s)
      BY <1>1, <1>2, <1>5
    <3> QED
      BY <2>1, <3>1
  <2> QED
    BY <2>2, <2>3, <2>4
<1> HIDE DEF s, t
<1>8. 1 + n = n + 1
  BY <1>1
<1> QED
  BY <1>1, <1>2, <1>4, <1>5, <1>6, <1>7, <1>8

\* An address is of the global group, or of one whose prefix it is in.
LEMMA GroupForIs ==
  ASSUME C!SettingsAssumption, NEW f \in Files, NEW h \in Protected
  PROVE  \/ C!GroupFor(h, f) = C!GlobalGroup(f)
         \/ \E i \in DOMAIN f.groups : h \in UNION f.groups[i].networks /\ C!GroupFor(h, f) = C!GroupOf(f.groups[i], f)
<1> DEFINE claims == {c \in (DOMAIN f.groups) \X SUBSET Protected : c[2] \in f.groups[c[1]].networks /\ h \in c[2]}
           Best(c) == \A d \in claims : C!Cardinality(c[2]) <= C!Cardinality(d[2])
<1>1. CASE claims = {}
  BY <1>1, GroupsAre DEF C!GroupFor
<1>2. CASE claims # {}
  <2>1. \E c \in claims : Best(c)
    <3> DEFINE sizes == {Cardinality(c[2]) : c \in claims}
    <3>1. \A c \in claims : Cardinality(c[2]) \in Nat
      <4>1. IsFiniteSet(Protected)
        BY DEF C!SettingsAssumption, C!IsFiniteSet, IsFiniteSet
      <4>2. \A c \in claims : c[2] \in SUBSET Protected
        OBVIOUS
      <4> QED
        BY <4>1, <4>2, FS_Subset, FS_CardinalityType
    <3>2. sizes \in SUBSET Nat /\ sizes # {}
      BY <1>2, <3>1
    <3>3. \E x \in sizes : \A y \in sizes : x <= y
      <4> HIDE DEF sizes
      <4> QED
        BY <3>2, LeastNatural
    <3>4. PICK c \in claims : \A d \in claims : Cardinality(c[2]) <= Cardinality(d[2])
      BY <3>3
    <3> QED
      BY <3>4, SettingsCounted
  <2> DEFINE c == CHOOSE x \in claims : Best(x)
  <2>2. c \in claims
    <3> HIDE DEF claims, Best
    <3> QED
      BY <2>1
  <2>3. C!GroupFor(h, f) = C!Groups(f)[1 + c[1]]
    BY <1>2 DEF C!GroupFor
  <2>4. c[1] \in DOMAIN f.groups /\ h \in UNION f.groups[c[1]].networks
    <3> HIDE DEF c
    <3> QED
      BY <2>2
  <2> HIDE DEF c
  <2>5. 1 + c[1] = c[1] + 1
    BY <2>4, FileTyped
  <2> QED
    BY <2>3, <2>4, <2>5, GroupsAre
<1> QED
  BY <1>1, <1>2

\* What a rung of a checked group asks for, of a host with or without the second family,
\* there is.
LEMMA RungDelivered ==
  ASSUME NEW g, NEW six, NEW f, NEW h, NEW method, NEW own, NEW i \in DOMAIN g.ladder,
         C!GroupOK(g, six, f), h \in V6 => six, g.action = C!ActionFor(method, g.ladder, own, f)
  PROVE  /\ g.ladder[i].action = "dataplane" => C!Settled(f.dataplane) # None /\ g.action # ""
         /\ g.ladder[i].action = "flowspec" => g.action # ""
         /\ g.ladder[i].action = "divert" =>
              C!Target(h, g, f) /\ (f.scrub.nodes # <<>> \/ f.scrub.lost = "flowspec" => g.action # "")
<1>1. \A p : C!PolicyAction(p) # ""
  BY DEF C!PolicyAction
<1>2. C!NeedsRules(g.ladder, f) => g.action # ""
  BY <1>1 DEF C!ActionFor
<1>3. ASSUME g.ladder[i].action = "divert"  PROVE C!Target(h, g, f)
  <2>1. C!DivertTargetOK(g, six, f)
    BY <1>3 DEF C!GroupOK, C!Uses
  <2>2. CASE h \in V6
    <3>1. g.hop6 \/ C!HasNodeTargetFor(g.name, TRUE, f)
      BY <2>1, <2>2 DEF C!DivertTargetOK
    <3> QED
      BY <2>2, <3>1 DEF C!HasNodeTargetFor, C!Target
  <2>3. CASE h \notin V6
    BY <2>1, <2>3 DEF C!DivertTargetOK, C!HasNodeTargetFor, C!Target
  <2> QED
    BY <2>2, <2>3
<1> QED
  BY <1>2, <1>3 DEF C!GroupOK, C!Uses, C!NeedsRules, C!DivertGeneratesRules

\* Every rung of every host of an accepted file can be carried out.
LEMMA FileDelivers ==
  ASSUME C!SettingsAssumption, NEW f \in Files, C!Parsed(f), NEW h \in UNION f.networks,
         NEW i \in DOMAIN C!GroupFor(h, f).ladder
  PROVE  LET g == C!GroupFor(h, f)
         IN  /\ g.ladder[i].action = "dataplane" => C!Settled(f.dataplane) # None /\ g.action # ""
             /\ g.ladder[i].action = "flowspec" => g.action # ""
             /\ g.ladder[i].action = "divert" =>
                  C!Target(h, g, f) /\ (f.scrub.nodes # <<>> \/ f.scrub.lost = "flowspec" => g.action # "")
<1>1. h \in Protected
  BY FileTyped
<1>2. C!HostgroupsOK(f)
  BY DEF C!Parsed
<1>3. CASE C!GroupFor(h, f) = C!GlobalGroup(f)
  <2> DEFINE g == C!GlobalGroup(f)
             six == (UNION f.networks) \cap V6 # {}
             method == C!MethodFor(f.method, "blackhole")
  <2>1. C!GroupOK(g, six, f)
    BY <1>2 DEF C!HostgroupsOK
  <2>4. h \in V6 => six
    OBVIOUS
  <2>2. g.action = C!ActionFor(method, g.ladder, None, f)
    BY DEF C!GlobalGroup
  <2>3. i \in DOMAIN g.ladder
    BY <1>3
  <2> HIDE DEF g, six, method
  <2> QED
    BY <1>3, <2>1, <2>2, <2>3, <2>4, RungDelivered DEF g
<1>4. ASSUME NEW k \in DOMAIN f.groups, h \in UNION f.groups[k].networks, C!GroupFor(h, f) = C!GroupOf(f.groups[k], f)
      PROVE  LET g == C!GroupFor(h, f)
             IN  /\ g.ladder[i].action = "dataplane" => C!Settled(f.dataplane) # None /\ g.action # ""
                 /\ g.ladder[i].action = "flowspec" => g.action # ""
                 /\ g.ladder[i].action = "divert" =>
                      C!Target(h, g, f) /\ (f.scrub.nodes # <<>> \/ f.scrub.lost = "flowspec" => g.action # "")
  <2> DEFINE g == C!GroupOf(f.groups[k], f)
             six == (UNION f.groups[k].networks) \cap V6 # {}
             method == C!MethodOf(f.groups[k], f)
             own == f.groups[k].flow
  <2>1. C!GroupOK(g, six, f)
    BY <1>2, <1>4 DEF C!HostgroupsOK, C!HostgroupOK
  <2>4. h \in V6 => six
    BY <1>4
  <2>2. g.action = C!ActionFor(method, g.ladder, own, f)
    BY DEF C!GroupOf
  <2>3. i \in DOMAIN g.ladder
    BY <1>4
  <2> HIDE DEF g, six, method, own
  <2> QED
    BY <1>4, <2>1, <2>2, <2>3, <2>4, RungDelivered DEF g
<1> QED
  BY <1>1, <1>3, <1>4, GroupForIs

\* Every ladder of an accepted file climbs.
LEMMA FileClimbs ==
  ASSUME C!SettingsAssumption, NEW f \in Files, C!Parsed(f), NEW k \in DOMAIN C!Groups(f)
  PROVE  Climbs(C!Groups(f)[k].ladder)
<1> DEFINE Sound(l) == Climbs(l) /\ \A i \in DOMAIN l : l[i].action \in C!ToSet(C!Actions)
<1>1. C!HostgroupsOK(f)
  BY DEF C!Parsed
<1>2. Sound(f.escalation)
  <2>1. C!LadderOK(f.escalation)
    BY <1>1 DEF C!HostgroupsOK
  <2> QED
    BY <2>1, FileTyped, CheckedClimbs
<1>3. \A m : Climbs(C!Ladder(f.escalation, m))
  BY <1>2, LadderClimbs
<1>4. C!GlobalGroup(f).ladder = C!Ladder(f.escalation, C!MethodFor(f.method, "blackhole"))
  BY DEF C!GlobalGroup
<1>5. ASSUME NEW i \in DOMAIN f.groups  PROVE Climbs(C!GroupOf(f.groups[i], f).ladder)
  <2> DEFINE g == f.groups[i]
             l == IF g.escalation = None THEN f.escalation ELSE g.escalation
             m == C!MethodOf(g, f)
  <2>1. Sound(l)
    <3>1. g.escalation # None => C!LadderOK(g.escalation)
      BY <1>1 DEF C!HostgroupsOK, C!HostgroupOK
    <3>2. g.escalation # None => Sound(g.escalation)
      BY <3>1, FileTyped, CheckedClimbs
    <3> QED
      BY <1>2, <3>2
  <2>2. C!WholeLadder(g, f) = C!Ladder(l, m)
    BY DEF C!WholeLadder
  <2>3. C!GroupOf(g, f).ladder = IF g.total THEN C!Degraded(C!WholeLadder(g, f)) ELSE C!WholeLadder(g, f)
    BY DEF C!GroupOf
  <2> HIDE DEF l, g
  <2>4. Climbs(C!Ladder(l, m)) /\ (l # <<>> => C!Ladder(l, m) = l)
    BY <2>1, LadderClimbs
  <2>5. Climbs(C!Degraded(C!Ladder(l, m)))
    <3>1. CASE l # <<>>
      BY <2>1, <2>4, <3>1, DegradedClimbs
    <3>2. CASE l = <<>>
      <4>1. C!Ladder(l, m) = <<[after |-> 0, action |-> m]>>
        BY <3>2 DEF C!Ladder
      <4>2. DOMAIN C!Degraded(C!Ladder(l, m)) = {1}
        BY <4>1 DEF C!Degraded
      <4> QED
        BY <4>2 DEF Climbs
    <3> QED
      BY <3>1, <3>2
  <2> QED
    BY <2>2, <2>3, <2>4, <2>5 DEF g
<1>6. CASE k = 1
  BY <1>3, <1>4, <1>6, GroupsAre
<1>7. CASE k # 1
  <2>1. k \in 1..(Len(f.groups) + 1) /\ Len(f.groups) \in Nat /\ DOMAIN f.groups = 1..Len(f.groups)
    BY GroupsAre, FileTyped
  <2>2. k - 1 \in DOMAIN f.groups /\ (k - 1) + 1 = k
    BY <1>7, <2>1
  <2>3. C!Groups(f)[k] = C!GroupOf(f.groups[k - 1], f)
    BY <2>2, GroupsAre
  <2> QED
    BY <1>5, <2>2, <2>3
<1> QED
  BY <1>6, <1>7

\* Of a list whose names are distinct, a name is of one place.
LEMMA NamedOnce ==
  ASSUME NEW s, Len(s) \in Nat, DOMAIN s = 1..Len(s), C!Distinct(s),
         NEW i \in DOMAIN s, NEW j \in DOMAIN s, s[i].name = s[j].name
  PROVE  i = j
<1> DEFINE n == Len(s)
           f == [x \in 1..n |-> s[x].name]
<1>1. f \in Surjection(1..n, C!Names(s))
  BY DEF Surjection, C!Names
<1>2. IsFiniteSet(1..n) /\ Cardinality(1..n) = n
  <2>1. 1 \in Int /\ n \in Int /\ (IF 1 > n THEN 0 ELSE n - 1 + 1) = n
    OBVIOUS
  <2> HIDE DEF n
  <2> QED
    BY <2>1, FS_Interval
<1>3. Cardinality(C!Names(s)) = n
  BY SettingsCounted DEF C!Distinct
<1> HIDE DEF f
<1>4. f \in Injection(1..n, C!Names(s))
  BY <1>1, <1>2, <1>3, FS_Surjection
<1>5. f[i] = f[j]
  BY DEF f
<1> QED
  BY <1>4, <1>5 DEF Injection, IsInjective

\* Of an accepted pair of files, no zone is in another tenant's group, and no token has a
\* scope or a tenant that is not there.
LEMMA FilePlaces ==
  ASSUME C!SettingsAssumption, C!LiveAccepted, live.file \in Files
  PROVE  C!PlacementKept
<1> DEFINE f == live.file
<1>1. PICK zs \in ZoneFiles : C!Accepted(f, zs) /\ live = C!Loaded(f, zs)
  BY DEF C!LiveAccepted
<1>2. /\ C!Parsed(f) /\ live.zones = IF f.edge = None THEN C!NoZones ELSE zs
      /\ f.edge # None => C!BindZones(f, zs)
  BY <1>1 DEF C!Accepted, C!Loaded
<1>3. /\ C!HostgroupsOK(f) /\ C!EdgeScopeOK(f) /\ C!TokensOK(f)
      /\ Len(f.groups) \in Nat /\ DOMAIN f.groups = 1..Len(f.groups)
  BY <1>2, FileTyped DEF C!Parsed
<1>4. f.edge = None => live.zones.zones = {}
  BY <1>2 DEF C!NoZones
<1>5. /\ C!Global \in C!Names(C!Groups(f))
      /\ \A i \in DOMAIN f.groups : f.groups[i].name \in C!Names(C!Groups(f))
  <2>1. C!GlobalGroup(f).name = C!Global /\ 1 \in DOMAIN C!Groups(f)
    <3>1. 1 \in 1..(Len(f.groups) + 1)
      BY <1>3
    <3> QED
      BY <3>1, GroupsAre DEF C!GlobalGroup
  <2>2. ASSUME NEW i \in DOMAIN f.groups  PROVE f.groups[i].name \in C!Names(C!Groups(f))
    <3>1. i + 1 \in DOMAIN C!Groups(f) /\ C!Groups(f)[i + 1] = C!GroupOf(f.groups[i], f)
      BY <1>3, GroupsAre
    <3>2. C!GroupOf(f.groups[i], f).name = f.groups[i].name
      BY DEF C!GroupOf
    <3> QED
      BY <3>1, <3>2 DEF C!Names
  <2> QED
    BY <2>1, <2>2, GroupsAre DEF C!Names
<1>6. \A i \in DOMAIN f.groups : f.groups[i].name # C!Global
  BY <1>3 DEF C!HostgroupsOK, C!HostgroupOK
<1>7. ASSUME NEW z \in live.zones.zones, C!Placed(z) # C!Global
      PROVE  \E i \in DOMAIN f.groups :
               /\ f.groups[i].name = C!Placed(z)
               /\ f.groups[i].tenant = "" \/ z.tenant = "" \/ f.groups[i].tenant = z.tenant
  <2>1. C!BindZones(f, zs) /\ z \in zs.zones
    BY <1>2, <1>4, <1>7
  <2>2. C!Placed(z) = z.hostgroup
    BY <1>7 DEF C!Placed
  <2> QED
    BY <1>7, <2>1, <2>2 DEF C!BindZones
<1>8. ASSUME NEW z \in live.zones.zones, NEW i \in DOMAIN f.groups, C!Placed(z) = f.groups[i].name
      PROVE  z.tenant = "" \/ f.groups[i].tenant \in {"", z.tenant}
  <2>1. C!Placed(z) # C!Global
    BY <1>6, <1>8
  <2>2. PICK j \in DOMAIN f.groups :
          /\ f.groups[j].name = C!Placed(z)
          /\ f.groups[j].tenant = "" \/ z.tenant = "" \/ f.groups[j].tenant = z.tenant
    BY <1>7, <2>1
  <2>3. i = j
    <3>1. C!Distinct(f.groups)
      BY <1>3 DEF C!HostgroupsOK
    <3> QED
      BY <1>3, <1>8, <2>2, <3>1, NamedOnce
  <2> QED
    BY <2>2, <2>3
<1>9. \A z \in live.zones.zones : C!Placed(z) \in C!Names(C!Groups(f))
  BY <1>5, <1>7
<1>10. ASSUME f.edge # None, \E i \in DOMAIN f.edge.nodes : f.edge.nodes[i].groups # {},
              NEW i \in DOMAIN f.tokens, f.tokens[i].role = "agent"
       PROVE  f.tokens[i].node \in C!EdgeNames(f) \cup C!Names(f.scrub.nodes)
  <2>1. f.tokens[i].node # None
    BY <1>3, <1>10 DEF C!EdgeScopeOK
  <2> HIDE DEF f
  <2>2. (f.tokens[i].node \in C!EdgeNames(f)) # (f.tokens[i].node \in C!Names(f.scrub.nodes))
    BY <1>3, <2>1 DEF C!TokensOK
  <2> QED
    BY <2>2
<1>11. ASSUME NEW i \in DOMAIN f.tokens, f.tokens[i].tenant # ""
       PROVE  \/ \E g \in DOMAIN C!Groups(f) : C!Groups(f)[g].tenant = f.tokens[i].tenant
              \/ \E z \in live.zones.zones : z.tenant = f.tokens[i].tenant
  <2>1. CASE f.edge = None
    <3>1. f.tokens[i].tenant \in C!TenantsInUse(f)
      BY <1>3, <1>11, <2>1 DEF C!TokensOK
    <3> QED
      BY <3>1 DEF C!TenantsInUse
  <2>2. CASE f.edge # None
    <3>1. f.tokens[i].tenant \in C!TenantsInUse(f) \cup {z.tenant : z \in live.zones.zones}
      BY <1>2, <1>11, <2>2 DEF C!BindZones
    <3> QED
      BY <3>1 DEF C!TenantsInUse
  <2> QED
    BY <2>1, <2>2
<1> HIDE DEF f
<1> QED
  BY <1>8, <1>9, <1>10, <1>11 DEF C!PlacementKept, f

\* The process starts with a pair of files it accepts.
LEMMA SettingsInit ==
  ASSUME C!SettingsAssumption, C!Init
  PROVE  C!IInv
<1>1. PICK b \in C!Bootable : disk = b[1] /\ zoneDisk = b[2]
  BY DEF C!Init
<1>2. disk \in Files /\ zoneDisk \in ZoneFiles /\ C!Accepted(disk, zoneDisk)
  BY <1>1 DEF C!Bootable
<1>3. /\ edits = 0 /\ live = C!Loaded(disk, zoneDisk) /\ boot = disk /\ kernel = disk
      /\ step = [r \in Reloader |-> C!Idle] /\ mixed = FALSE /\ stuck = FALSE
  BY DEF C!Init
<1>4. live.file = disk
  BY <1>3 DEF C!Loaded
<1>a. Edits \in Nat
  BY Zenon DEF C!SettingsAssumption
<1>b. edits \in 0..Edits
  BY <1>a, <1>3
<1>c. \A r \in Reloader : step[r] = C!Idle
  BY <1>3
<1>5. C!Typed
  BY <1>2, <1>3, <1>4, <1>b, <1>c DEF C!Typed, C!Idle
<1>6. C!LiveAccepted /\ C!FixedStays
  BY <1>2, <1>3, <1>4 DEF C!LiveAccepted, C!FixedStays
<1>7. C!StepChecked /\ C!OneAtATime /\ C!KernelWritten
  BY <1>3, <1>4 DEF C!StepChecked, C!OneAtATime, C!KernelWritten, C!Idle
<1> QED
  BY <1>5, <1>6, <1>7 DEF C!IInv

\* What a reload on its way is, whose file is f and whose zones are zs.
Way == [at : {"idle", "zones", "swap", "apply"}, file : Files \cup {None}, zones : ZoneFiles \cup {None}]

Checked(s, lv, mx) ==
  /\ s.at = "idle" => s = C!Idle
  /\ s.at # "idle" => s.file \in Files
  /\ s.at = "zones" => C!Parsed(s.file)
  /\ s.at = "swap" => s.zones \in ZoneFiles /\ C!Accepted(s.file, s.zones)
  /\ s.at = "apply" => /\ C!Settled(s.file.dataplane) = C!Settled(boot.dataplane)
                       /\ ~mx => s.file = lv.file

\* What remains to be shown of a step of one reload that leaves the others where they are.
LEMMA ReloadStep ==
  ASSUME C!SettingsAssumption, C!IInv, NEW r \in Reloader, NEW s \in Way,
         step' = [step EXCEPT ![r] = s], UNCHANGED <<disk, zoneDisk, edits, boot>>,
         live'.file \in Files, kernel' \in Files, mixed' \in BOOLEAN, stuck' \in BOOLEAN,
         C!LiveAccepted', C!FixedStays', mixed => mixed', Checked(s, live', mixed'),
         ~mixed' /\ s.at # "idle" => \A o \in Reloader \ {r} : step[o].at = "idle",
         ~mixed' /\ live' # live => step[r].at # "idle",
         ~mixed' /\ ~stuck' /\ s.at # "apply" /\ (\A o \in Reloader \ {r} : step[o].at # "apply")
            /\ C!Settled(boot.dataplane) # None => kernel' = live'.file
  PROVE  C!IInv'
<1>1. /\ step \in [Reloader -> Way] /\ C!OneAtATime
      /\ \A o \in Reloader : Checked(step[o], live, mixed)
  BY DEF C!IInv, C!Typed, C!StepChecked, Checked, Way
<1>2. /\ step' \in [Reloader -> Way] /\ step'[r] = s
      /\ \A o \in Reloader : o # r => step'[o] = step[o]
  <2>1. \A o \in Reloader : step'[o] = IF o = r THEN s ELSE step[o]
    BY <1>1
  <2> QED
    BY <1>1, <2>1
<1>3. C!Typed'
  BY <1>2 DEF C!IInv, C!Typed, Way
<1>4. ASSUME NEW o \in Reloader  PROVE Checked(step'[o], live', mixed')
  <2>1. CASE o = r
    BY <1>2, <2>1
  <2>2. CASE o # r
    <3>1. Checked(step[o], live, mixed) /\ step'[o] = step[o]
      BY <1>1, <1>2, <2>2
    <3>2. step[o].at = "apply" /\ ~mixed' => live' = live
      BY <1>1, <2>2 DEF C!OneAtATime
    <3> QED
      BY <3>1, <3>2 DEF Checked
  <2> QED
    BY <2>1, <2>2
<1>5. C!StepChecked'
  BY <1>4 DEF C!StepChecked, Checked
<1>6. C!OneAtATime'
  BY <1>1, <1>2 DEF C!OneAtATime
<1>7. C!KernelWritten'
  BY <1>2 DEF C!KernelWritten
<1> QED
  BY <1>3, <1>5, <1>6, <1>7 DEF C!IInv

\* Each step of a reload: read, check, swap and write.
LEMMA SettingsReload ==
  ASSUME C!SettingsAssumption, C!IInv, NEW r \in Reloader,
         C!Begin(r) \/ C!ReadZones(r) \/ C!Swap(r) \/ \E ok \in BOOLEAN : C!Apply(r, ok)
  PROVE  C!IInv'
<1>1. /\ step \in [Reloader -> Way] /\ C!OneAtATime /\ C!KernelWritten /\ C!LiveAccepted /\ C!FixedStays
      /\ \A o \in Reloader : Checked(step[o], live, mixed)
      /\ disk \in Files /\ zoneDisk \in ZoneFiles /\ live.file \in Files /\ kernel \in Files
      /\ mixed \in BOOLEAN /\ stuck \in BOOLEAN
  BY DEF C!IInv, C!Typed, C!StepChecked, Checked, Way
<1>2. C!Idle \in Way /\ C!Idle.at = "idle" /\ \A l, m : Checked(C!Idle, l, m)
  BY DEF C!Idle, Way, Checked
<1>3. CASE C!Begin(r)
  <2> DEFINE s == IF C!Parsed(disk) THEN [C!Idle EXCEPT !.at = "zones", !.file = disk] ELSE C!Idle
  <2>1. /\ step[r] = C!Idle /\ mixed' = (mixed \/ \E o \in Reloader \ {r} : step[o] # C!Idle)
        /\ UNCHANGED <<disk, zoneDisk, edits, boot, live, kernel, stuck>>
        /\ step' = [step EXCEPT ![r] = s]
    <3>1. step = [step EXCEPT ![r] = step[r]]
      BY <1>1
    <3> QED
      BY <1>3, <3>1 DEF C!Begin
  <2>2. s \in Way /\ s.at \in {"idle", "zones"} /\ Checked(s, live', mixed')
    BY <1>1, <1>2 DEF Way, Checked, C!Idle
  <2>3. mixed' \in BOOLEAN /\ (mixed => mixed')
    BY <1>1, <2>1
  <2>4. ~mixed' => \A o \in Reloader \ {r} : step[o].at = "idle"
    BY <1>2, <2>1
  <2>5. C!LiveAccepted' /\ C!FixedStays'
    BY <1>1, <2>1 DEF C!LiveAccepted, C!FixedStays
  <2>6. ~mixed' /\ ~stuck' /\ (\A o \in Reloader \ {r} : step[o].at # "apply") /\ C!Settled(boot.dataplane) # None
          => kernel' = live'.file
    <3>1. step[r].at # "apply"
      BY <1>2, <2>1
    <3> QED
      BY <1>1, <2>1, <2>3, <3>1 DEF C!KernelWritten
  <2> HIDE DEF s
  <2> QED
    BY <1>1, <2>1, <2>2, <2>3, <2>4, <2>5, <2>6, ReloadStep
<1>4. CASE C!ReadZones(r)
  <2> DEFINE s == IF C!Accepted(step[r].file, zoneDisk) THEN [step[r] EXCEPT !.at = "swap", !.zones = zoneDisk] ELSE C!Idle
  <2>1. /\ step[r].at = "zones" /\ step' = [step EXCEPT ![r] = s]
        /\ UNCHANGED <<disk, zoneDisk, edits, boot, live, kernel, mixed, stuck>>
    BY <1>4 DEF C!ReadZones
  <2>2. step[r] \in Way /\ step[r].file \in Files
    BY <1>1, <2>1 DEF Checked
  <2>3. s \in Way /\ s.at \in {"idle", "swap"} /\ Checked(s, live', mixed')
    BY <1>1, <1>2, <2>2 DEF Way, Checked
  <2>4. ~mixed' => \A o \in Reloader \ {r} : step[o].at = "idle"
    BY <1>1, <2>1 DEF C!OneAtATime
  <2>5. C!LiveAccepted' /\ C!FixedStays'
    BY <1>1, <2>1 DEF C!LiveAccepted, C!FixedStays
  <2>6. ~mixed' /\ ~stuck' /\ (\A o \in Reloader \ {r} : step[o].at # "apply") /\ C!Settled(boot.dataplane) # None
          => kernel' = live'.file
    BY <1>1, <2>1 DEF C!KernelWritten
  <2> HIDE DEF s
  <2> QED
    BY <1>1, <2>1, <2>3, <2>4, <2>5, <2>6, ReloadStep
<1>5. CASE C!Swap(r)
  <2>1. /\ step[r].at = "swap" /\ UNCHANGED <<disk, zoneDisk, edits, boot, kernel, mixed, stuck>>
        /\ step[r] \in Way /\ step[r].file \in Files /\ step[r].zones \in ZoneFiles
        /\ C!Accepted(step[r].file, step[r].zones)
    BY <1>1, <1>5 DEF C!Swap, Checked
  <2>2. ~mixed => \A o \in Reloader \ {r} : step[o].at = "idle"
    BY <1>1, <2>1 DEF C!OneAtATime
  <2>3. CASE C!MaySwap(step[r].file)
    <3> DEFINE s == [step[r] EXCEPT !.at = "apply"]
    <3>1. live' = C!Loaded(step[r].file, step[r].zones) /\ step' = [step EXCEPT ![r] = s]
      BY <1>5, <2>3 DEF C!Swap
    <3>2. live'.file = step[r].file
      BY <3>1 DEF C!Loaded
    <3>3. C!FixedStays'
      BY <1>1, <2>1, <2>3, <3>2 DEF C!FixedStays, C!MaySwap
    <3>4. s \in Way /\ s.at = "apply" /\ s.file = step[r].file
      BY <2>1 DEF Way
    <3>5. Checked(s, live', mixed')
      BY <1>1, <2>1, <2>3, <3>2, <3>4 DEF Checked, C!MaySwap, C!FixedStays
    <3>6. C!LiveAccepted'
      BY <2>1, <3>1, <3>2 DEF C!LiveAccepted
    <3> HIDE DEF s
    <3> QED
      BY <1>1, <2>1, <2>2, <3>1, <3>2, <3>3, <3>4, <3>5, <3>6, ReloadStep
  <2>4. CASE ~C!MaySwap(step[r].file)
    <3>1. live' = live /\ step' = [step EXCEPT ![r] = C!Idle]
      BY <1>5, <2>4 DEF C!Swap
    <3>2. C!LiveAccepted' /\ C!FixedStays'
      BY <1>1, <2>1, <3>1 DEF C!LiveAccepted, C!FixedStays
    <3>3. ~mixed' /\ ~stuck' /\ (\A o \in Reloader \ {r} : step[o].at # "apply") /\ C!Settled(boot.dataplane) # None
            => kernel' = live'.file
      BY <1>1, <2>1, <3>1 DEF C!KernelWritten
    <3> QED
      BY <1>1, <1>2, <2>1, <2>2, <3>1, <3>2, <3>3, ReloadStep
  <2> QED
    BY <2>3, <2>4
<1>6. ASSUME NEW ok \in BOOLEAN, C!Apply(r, ok)  PROVE C!IInv'
  <2>1. /\ step[r].at = "apply" /\ step' = [step EXCEPT ![r] = C!Idle]
        /\ UNCHANGED <<disk, zoneDisk, edits, boot, live, mixed>>
        /\ IF C!Settled(step[r].file.dataplane) = None THEN UNCHANGED <<kernel, stuck>>
           ELSE kernel' = (IF ok THEN step[r].file ELSE kernel) /\ stuck' = ~ok
    BY <1>6 DEF C!Apply
  <2>2. /\ step[r].file \in Files /\ C!Settled(step[r].file.dataplane) = C!Settled(boot.dataplane)
        /\ ~mixed => step[r].file = live.file
    BY <1>1, <2>1 DEF Checked
  <2>3. kernel' \in Files /\ stuck' \in BOOLEAN
    BY <1>1, <2>1, <2>2
  <2>4. C!LiveAccepted' /\ C!FixedStays'
    BY <1>1, <2>1 DEF C!LiveAccepted, C!FixedStays
  <2>5. ~mixed' /\ ~stuck' /\ C!Settled(boot.dataplane) # None => kernel' = live'.file
    BY <2>1, <2>2
  <2> QED
    BY <1>1, <1>2, <2>1, <2>3, <2>4, <2>5, ReloadStep
<1> QED
  BY <1>3, <1>4, <1>5, <1>6

\* An edit changes the files on disk, and every step keeps the invariant.
LEMMA SettingsStep ==
  ASSUME C!SettingsAssumption, C!IInv, [C!Next]_C!vars
  PROVE  C!IInv'
<1>1. CASE C!Edit
  <2>1. /\ disk' \in Files /\ zoneDisk' \in ZoneFiles /\ edits' \in 0..Edits
        /\ UNCHANGED <<boot, live, step, kernel, mixed, stuck>>
    BY <1>1 DEF C!Edit, C!IInv, C!Typed, C!SettingsAssumption
  <2> QED
    BY <2>1 DEF C!IInv, C!Typed, C!LiveAccepted, C!FixedStays, C!StepChecked, C!OneAtATime, C!KernelWritten
<1>2. CASE UNCHANGED C!vars
  BY <1>2 DEF C!vars, C!IInv, C!Typed, C!LiveAccepted, C!FixedStays, C!StepChecked, C!OneAtATime, C!KernelWritten
<1> QED
  BY <1>1, <1>2, SettingsReload DEF C!Next

\* The invariant, and what is checked of a file, are what every component trusts.
LEMMA SettingsHeld ==
  ASSUME C!SettingsAssumption, C!IInv
  PROVE  C!TypeOK /\ C!LiveIsSound
<1> DEFINE f == live.file
<1>1. PICK zs \in ZoneFiles : C!Accepted(f, zs) /\ live = C!Loaded(f, zs)
  BY DEF C!IInv, C!LiveAccepted
<1>2. C!Typed /\ C!FixedStays /\ C!LiveAccepted /\ f \in Files /\ C!Parsed(f)
  BY <1>1 DEF C!IInv, C!Typed, C!Accepted
<1>3. C!TypeOK
  <2>1. live = [file |-> f, zones |-> IF f.edge = None THEN C!NoZones ELSE zs]
    BY <1>1 DEF C!Loaded
  <2>2. \E z \in ZoneFiles \cup {C!NoZones} : live = [file |-> f, zones |-> z]
    BY <2>1
  <2> QED
    BY <1>2, <2>2 DEF C!Typed, C!TypeOK
<1>4. C!RungsDeliverable
  <2>1. C!Settled(f.dataplane) = C!Settled(boot.dataplane)
    BY <1>2 DEF C!FixedStays
  <2>2. ASSUME NEW h \in UNION f.networks, NEW i \in DOMAIN C!GroupFor(h, f).ladder
        PROVE  LET g == C!GroupFor(h, f)
               IN  /\ g.ladder[i].action = "dataplane" => C!Settled(boot.dataplane) # None /\ g.action # ""
                   /\ g.ladder[i].action = "flowspec" => g.action # ""
                   /\ g.ladder[i].action = "divert" =>
                        C!Target(h, g, f) /\ (f.scrub.nodes # <<>> \/ f.scrub.lost = "flowspec" => g.action # "")
    BY <1>2, <2>1, FileDelivers
  <2> QED
    BY <2>2 DEF C!RungsDeliverable
<1>5. C!LaddersClimb
  BY <1>2, FileClimbs DEF C!LaddersClimb, Climbs
<1>6. C!PlacementKept
  BY <1>2, FilePlaces
<1>7. C!KernelFollows
  <2>1. (\A r \in Reloader : step[r] = C!Idle) => \A r \in Reloader : step[r].at # "apply"
    BY DEF C!Idle
  <2> QED
    BY <2>1 DEF C!IInv, C!KernelWritten, C!KernelFollows
<1> QED
  BY <1>2, <1>3, <1>4, <1>5, <1>6, <1>7 DEF C!LiveIsSound

---------------------------------------------------------------------------
(* The brain.                                                              *)

\* The invariant of the brain: those of its parts.
BrainInv ==
  P!IInv /\ S!IInv /\ D!IInv /\ W!IInv /\ T!IInv /\ C!IInv /\ A!IInv /\ H!IInv /\ E!IInv

\* Every part starts in its invariant.
LEMMA BrainInit ==
  ASSUME Init
  PROVE  BrainInv
<1>1. P!Init /\ S!Init /\ D!Init /\ W!Init /\ T!Init /\ C!Init /\ A!Init /\ H!Init /\ E!Init
  BY DEF Init
<1> QED
  BY <1>1, BrainAssumption, PersistInit, SourcesInit, DataplaneInit, WindowsInit, SinksInit, SettingsInit,
     AccessInit, HistoryInit, PresenceInit DEF BrainAssumption, BrainInv

\* A step of the brain is, for each part, a step of that part or none.
LEMMA BrainMoves ==
  ASSUME [Next]_vars
  PROVE  /\ [P!Next]_P!vars /\ [S!Next]_S!vars /\ [D!Next]_D!vars /\ [W!Next]_W!vars /\ [T!Next]_T!vars
         /\ [C!Next]_C!vars /\ [A!Next]_A!vars /\ [H!Next]_H!vars /\ [E!Next]_E!vars
<1>1. UNCHANGED banVars => UNCHANGED P!vars
  BY DEF banVars, P!vars, P!mitVars, P!fileVars
<1>2. UNCHANGED sourceVars => UNCHANGED S!vars
  BY DEF sourceVars, S!vars
<1>3. UNCHANGED mapVars => UNCHANGED D!vars
  BY DEF mapVars, D!vars, D!maps, D!memory
<1>4. UNCHANGED windowVars => UNCHANGED W!vars
  BY DEF windowVars, W!vars
<1>5. UNCHANGED sinkVars => UNCHANGED T!vars
  BY DEF sinkVars, T!vars, T!table, T!writer, T!reader
<1>6. UNCHANGED settingVars => UNCHANGED C!vars
  BY DEF settingVars, C!vars
<1>7. UNCHANGED accessVars => UNCHANGED A!vars
  BY DEF accessVars, A!vars
<1>8. UNCHANGED logVars => UNCHANGED H!vars
  BY DEF logVars, H!vars, H!nodeVars, H!reportVars, H!ghosts
<1>9. UNCHANGED presenceVars => UNCHANGED E!vars
  BY DEF presenceVars, E!vars
<1>10. CASE Bans
  BY <1>2, <1>3, <1>4, <1>5, <1>6, <1>7, <1>8, <1>9, <1>10 DEF Bans, edgeVars
<1>11. CASE SourceBlocks
  BY <1>1, <1>3, <1>4, <1>5, <1>6, <1>7, <1>8, <1>9, <1>11 DEF SourceBlocks, edgeVars
<1>12. CASE PolicyMaps
  BY <1>1, <1>2, <1>4, <1>5, <1>6, <1>7, <1>8, <1>9, <1>12 DEF PolicyMaps, edgeVars
<1>13. CASE Measurement
  BY <1>1, <1>2, <1>3, <1>5, <1>6, <1>7, <1>8, <1>9, <1>13 DEF Measurement, edgeVars
<1>14. CASE Telling
  BY <1>1, <1>2, <1>3, <1>4, <1>6, <1>7, <1>8, <1>9, <1>14 DEF Telling, edgeVars
<1>15. CASE Configuring
  BY <1>1, <1>2, <1>3, <1>4, <1>5, <1>7, <1>8, <1>9, <1>15 DEF Configuring, edgeVars
<1>16. CASE Asking
  BY <1>1, <1>2, <1>3, <1>4, <1>5, <1>6, <1>8, <1>9, <1>16 DEF Asking, edgeVars
<1>17. CASE Noting
  BY <1>1, <1>2, <1>3, <1>4, <1>5, <1>6, <1>7, <1>9, <1>17 DEF Noting, edgeVars
<1>18. CASE Watching
  BY <1>1, <1>2, <1>3, <1>4, <1>5, <1>6, <1>7, <1>8, <1>18 DEF Watching, edgeVars
<1>19. CASE UNCHANGED vars
  <2>1. UNCHANGED <<banVars, sourceVars, mapVars, windowVars, sinkVars, settingVars, accessVars, logVars, presenceVars>>
    BY <1>19 DEF vars, edgeVars
  <2> QED
    BY <1>1, <1>2, <1>3, <1>4, <1>5, <1>6, <1>7, <1>8, <1>9, <2>1
<1> QED
  BY <1>10, <1>11, <1>12, <1>13, <1>14, <1>15, <1>16, <1>17, <1>18, <1>19 DEF Next

\* Every step of the brain keeps the invariant of every part.
LEMMA BrainStep ==
  ASSUME BrainInv, [Next]_vars
  PROVE  BrainInv'
  BY BrainAssumption, BrainMoves, PersistStep, SourcesStep, DataplaneStep, WindowsStep, SinksStep, SettingsStep,
     AccessStep, HistoryStep, PresenceStep DEF BrainAssumption, BrainInv

\* The invariant holds of every behaviour of the brain.
THEOREM BrainInvariant == Spec => []BrainInv
<1>1. Init => BrainInv
  BY BrainInit
<1>2. BrainInv /\ [Next]_vars => BrainInv'
  BY BrainStep
<1> QED
  BY <1>1, <1>2, PTL DEF Spec

\* Whenever a change has been written and no write is due, the file says of every ban what
\* the table says, whatever failed, crashed or was restarted before; and a ban that has the
\* clock of the heartbeats' writes to itself is on file with half a ttl to spare at least.
THEOREM FileKept == Spec => []FileCurrent
<1>1. BrainInv => FileCurrent
  BY BrainAssumption, PersistHeld DEF BrainAssumption, BrainInv, FileCurrent
<1> QED
  BY <1>1, BrainInvariant, PTL

\* In a running process nothing is up that no active, real ban is on, through crashes, stale
\* files and restarts that flip dry_run.
THEOREM NothingStranded == Spec => []RestartStrandsNothing
<1>1. BrainInv => RestartStrandsNothing
  BY BrainAssumption, PersistHeld DEF BrainAssumption, BrainInv, RestartStrandsNothing
<1> QED
  BY <1>1, BrainInvariant, PTL

\* The live maps are whole: the dynamic rules of the manager's memory are in the generation
\* the gate runs, with its options, each by a ceiling of its own, whichever write of a
\* reload or an install failed.
THEOREM MapsWhole == Spec => []LiveMapsWhole
<1>1. BrainInv => LiveMapsWhole
  BY BrainAssumption, DataplaneHeld DEF BrainAssumption, BrainInv, LiveMapsWhole
<1> QED
  BY <1>1, BrainInvariant, PTL

\* The table of source blocks and the kernel agree, pair by pair and second by second,
\* whichever installs and withdrawals failed (fingerprint and operator blocks in one table).
THEOREM SourcesAgree == Spec => []TableIsKernel
<1>1. BrainInv => TableIsKernel
  BY DEF BrainInv, TableIsKernel, S!IInv
<1> QED
  BY <1>1, BrainInvariant, PTL

\* The fingerprint plane never takes more than its half of the anchors, so an operator's
\* block always finds one.
THEOREM ReserveKept == Spec => []OperatorReserve
<1>1. BrainInv => OperatorReserve
  BY DEF BrainInv, OperatorReserve, S!IInv
<1> QED
  BY <1>1, BrainInvariant, PTL

\* What a token may do is decided by what it is when it is done, through reloads between
\* a request's checks, and no node holds more polls than its cap.
THEOREM AccessKept == Spec => []AccessHonest
<1>1. BrainInv => AccessHonest
  BY BrainAssumption, AccessHeld DEF BrainAssumption, BrainInv, AccessHonest
<1> QED
  BY <1>1, BrainInvariant, PTL

\* A node is told lost when it is, within the ticker's period, and not because the brain
\* started.
THEOREM LossTold == Spec => []PresenceTold
<1>1. BrainInv => PresenceTold
  BY BrainAssumption, PresenceHeld DEF BrainAssumption, BrainInv, PresenceTold
<1> QED
  BY <1>1, BrainInvariant, PTL

\* The log of the nodes tells no change of a certificate that did not happen, writes a window
\* once in a run of the brain, and ends with what the node last reported.
THEOREM HistoryTold == Spec => []HistoryHonest
<1>1. BrainInv => HistoryHonest
  BY BrainAssumption, HistoryHeld DEF BrainAssumption, BrainInv, HistoryHonest
<1> QED
  BY <1>1, BrainInvariant, PTL

\* The configuration in force is one the loader accepts, whatever was edited between the
\* reads of a reload.
THEOREM ConfigurationSound == Spec => []LiveIsSound
<1>1. BrainInv => LiveIsSound
  BY BrainAssumption, SettingsHeld DEF BrainAssumption, BrainInv, LiveIsSound
<1> QED
  BY <1>1, BrainInvariant, PTL

\* The engine measures what was counted in the window, no more and no less, whatever was
\* counted late, overwritten or forgotten; learns no attack as normal; and judges each host
\* or group once, by the policy in force.
THEOREM Measured == Spec => []MeasurementHonest
<1>1. BrainInv => MeasurementHonest
  BY WindowsHeld DEF BrainInv, MeasurementHonest
<1> QED
  BY <1>1, BrainInvariant, PTL

\* What is told of an attack is told once and is true: each row is in one place, through
\* full queues, a database that refuses and a shutdown that flushes last.
THEOREM ToldTruly == Spec => []ToldOnce
<1>1. BrainInv => ToldOnce
  BY DEF BrainInv, ToldOnce, T!IInv
<1> QED
  BY <1>1, BrainInvariant, PTL
=============================================================================
