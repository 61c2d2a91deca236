------------------------------ MODULE Sources -------------------------------
(***************************************************************************)
(* Source blocks (mitigate/sources.go): source -> victim drop pairs that    *)
(* share one policy block per source in the kernel, blocked by the operator *)
(* through the API or by the fingerprint plane (fpplane/fpplane.go).        *)
(*                                                                         *)
(* Deadlines are distances from now.  Every kernel call may fail: an        *)
(* install that was rolled back has wiped whatever the source had there,    *)
(* one refused before it reached the maps (dataplane/installer_linux.go: no *)
(* free policy, no profile, no clock) has left it, and so has a withdraw    *)
(* that failed; what is left lapses by itself.                              *)
(***************************************************************************)
EXTENDS Integers, FiniteSets

CONSTANTS
  Pair,        \* the source -> victim pairs that may be named: <<s, v>>
  Ttl,         \* the longest ttl a caller asks for
  PerSource,   \* maxRulesPerAttack: rules of one policy block
  Budget,      \* sourceAnchorBudget: policy slots bans cannot claim
  Policies,    \* the configurations a reload may install
  Free         \* no such pair

Source == {p[1] : p \in Pair}
FpBudget == Budget \div 2

SourcesAssumption ==
  /\ Ttl \in Nat \ {0} /\ PerSource \in Nat \ {0} /\ Budget \in Nat
  /\ IsFiniteSet(Pair) /\ Free \notin [left : -1..Ttl, dry : BOOLEAN, auto : BOOLEAN]
  /\ \A p \in Policies : p.dryRun \in BOOLEAN

VARIABLES
  pol,         \* dry_run, and the pairs sourceBlockPolicy refuses
  pairs,       \* pairs[p]: the entry of m.sourceBlocks
  fpAnchors,   \* sources whose anchor the fingerprint plane claimed
  installed,   \* m.sourceInstalled
  drop,        \* drop[p]: time the kernel's rule for p has left
  leaked       \* sources with rules a failed call, or a restart, left behind

vars == <<pol, pairs, fpAnchors, installed, drop, leaked>>

Entry == [left : -1..Ttl, dry : BOOLEAN, auto : BOOLEAN]
Of(s) == {p \in Pair : p[1] = s}
Live(t, s) == {p \in Of(s) : t[p] # Free}
Anchors(t) == {s \in Source : Live(t, s) # {}}

---------------------------------------------------------------------------
(* reinstallSourceLocked.                                                  *)

Enforced(t, s) == {p \in Live(t, s) : ~t[p].dry /\ t[p].left > 0}

Without(t, s) == [p \in Pair |-> IF p[1] = s THEN Free ELSE t[p]]

\* Wrong variant: a failed install keeps the table as it was.
DroppedKept(t, s) == t

\* dropSourceLocked: a failed install costs the source its pairs.
Dropped(t, s) == Without(t, s)

\* table, fp attribution and kernel after the source's block was rebuilt.
Result(t, fp, d, i, l) == [pairs |-> t, fp |-> fp, drop |-> d, inst |-> i, leaked |-> l]

Cleaned(s, d) == [p \in Pair |-> IF p[1] = s THEN 0 ELSE d[p]]

Reinstall(t, fp, d, s) ==
  IF Enforced(t, s) # {}
  THEN {Result(t, fp, [p \in Pair |-> IF p \in Enforced(t, s) THEN t[p].left
                                      ELSE IF p[1] = s THEN 0 ELSE d[p]],
               installed \cup {s}, leaked \ {s}),
        Result(Dropped(t, s), fp \ {s}, Cleaned(s, d), installed \ {s}, leaked \ {s}),
        Result(Dropped(t, s), fp \ {s}, d, installed \ {s}, leaked \cup {s})}
  ELSE IF s \notin installed THEN {Result(t, fp, d, installed, leaked)}
  ELSE {Result(t, fp, Cleaned(s, d), installed \ {s}, leaked \ {s}),
        Result(t, fp, d, installed \ {s}, leaked \cup {s})}

Becomes(r) ==
  /\ pairs' = r.pairs /\ fpAnchors' = r.fp /\ drop' = r.drop
  /\ installed' = r.inst /\ leaked' = r.leaked

---------------------------------------------------------------------------
(* Calls.                                                                  *)

\* Wrong variant: an fp block is checked against the whole pool only.
HasSlotShared(p, auto) ==
  Live(pairs, p[1]) # {} \/ Cardinality(Anchors(pairs)) < Budget

\* A new anchor needs a slot no ban can claim; the fingerprint plane gets half.
HasSlot(p, auto) ==
  \/ Live(pairs, p[1]) # {}
  \/ /\ Cardinality(Anchors(pairs)) < Budget
     /\ auto => Cardinality(fpAnchors) < FpBudget

Accepts(p, auto) ==
  /\ p \notin pol.refused
  /\ pairs[p] # Free \/ Cardinality(Live(pairs, p[1])) < PerSource
  /\ HasSlot(p, auto)

Block(p, ttl, auto) ==
  LET t == [pairs EXCEPT ![p] = [left |-> ttl, dry |-> pol.dryRun, auto |-> auto]]
      fp == IF auto /\ Live(pairs, p[1]) = {} THEN fpAnchors \cup {p[1]} ELSE fpAnchors
  IN /\ Accepts(p, auto)
     /\ \E r \in Reinstall(t, fp, drop, p[1]) : Becomes(r)

BlockSource(p) ==
  /\ \E ttl \in 1..Ttl : Block(p, ttl, FALSE)
  /\ UNCHANGED pol

\* The reader acts on a match unless it acted on the pair a moment ago: it may
\* act on any match here.
Classify(p) == Block(p, Ttl, TRUE) /\ UNCHANGED pol

\* Wrong variant: the anchor's attribution outlives its last pair.
AttributedStill(t, s) == fpAnchors

Attributed(t, s) == IF Live(t, s) = {} THEN fpAnchors \ {s} ELSE fpAnchors

UnblockSource(p) ==
  LET t == [pairs EXCEPT ![p] = Free]
  IN /\ pairs[p] # Free
     /\ \E r \in Reinstall(t, Attributed(t, p[1]), drop, p[1]) : Becomes(r)
     /\ UNCHANGED pol

\* Expired pairs, and pairs a reload has forbidden.
Retired(s) == {p \in Live(pairs, s) : pairs[p].left < 0 \/ p \in pol.refused}

\* The sweep takes one source after the other under the mutex; sources share
\* nothing, so that one source's share is an action of its own.
SweepSource(s) ==
  LET t == [p \in Pair |-> IF p \in Retired(s) THEN Free ELSE pairs[p]]
  IN /\ Retired(s) # {}
     /\ \E r \in Reinstall(t, Attributed(t, s), drop, s) : Becomes(r)
     /\ UNCHANGED pol

Reload ==
  /\ pol' \in Policies \ {pol}
  /\ UNCHANGED <<pairs, fpAnchors, installed, drop, leaked>>

---------------------------------------------------------------------------
(* Restart: the pinned maps stay, the table comes back from the file.      *)

\* Pairs the file holds that the live configuration still allows.
Kept == {p \in Pair : pairs[p] # Free /\ pairs[p].left >= 0 /\ p \notin pol.refused}

Rehydrated(K) == [p \in Pair |-> IF p \in K THEN [pairs[p] EXCEPT !.dry = pol.dryRun] ELSE Free]

\* A source is an fp anchor if its first restored pair is one; an fp anchor
\* over the budget is dropped.
FirstAuto(K) ==
  {s \in Source : \E p \in K : p[1] = s /\ pairs[p].auto}

\* Each source is then installed once; a failed install drops it, and wipes what the
\* previous process installed unless it was refused at once.
Restart ==
  \E K \in SUBSET Kept, fp \in SUBSET Source, failed \in SUBSET Source :
   \E wiped \in SUBSET failed :
    LET t == [p \in Pair |-> IF p[1] \in failed THEN Free ELSE Rehydrated(K)[p]]
        up == {s \in Source : Enforced(t, s) # {}}
    IN /\ \A p \in Kept \ K : pairs[p].auto /\ Cardinality(fp) >= FpBudget
       /\ failed \subseteq {s \in Source : Enforced(Rehydrated(K), s) # {}}
       /\ fp \subseteq FirstAuto(K) /\ Cardinality(fp) <= FpBudget
       /\ \A s \in Source : Live(Rehydrated(K), s) # {}
            /\ (\A p \in Live(Rehydrated(K), s) : pairs[p].auto) => s \in fp
       /\ pairs' = t
       /\ fpAnchors' = fp \ failed
       /\ installed' = up
       /\ drop' = [p \in Pair |-> IF p \in Enforced(t, p[1]) THEN t[p].left
                                  ELSE IF p[1] \in up \cup wiped THEN 0 ELSE drop[p]]
       /\ leaked' = {s \in Source \ (up \cup wiped) : \E p \in Of(s) : drop[p] > 0}
       /\ UNCHANGED pol

Tick ==
  LET d == [p \in Pair |-> IF drop[p] > 0 THEN drop[p] - 1 ELSE 0]
  IN /\ pairs' = [p \in Pair |->
                    IF pairs[p] # Free /\ pairs[p].left > -1
                    THEN [pairs[p] EXCEPT !.left = @ - 1] ELSE pairs[p]]
     /\ drop' = d
     /\ leaked' = {s \in leaked : \E p \in Of(s) : d[p] > 0}
     /\ UNCHANGED <<pol, fpAnchors, installed>>

Init ==
  /\ pol \in Policies
  /\ pairs = [p \in Pair |-> Free] /\ fpAnchors = {} /\ installed = {}
  /\ drop = [p \in Pair |-> 0] /\ leaked = {}

Next ==
  \/ \E p \in Pair : BlockSource(p)
  \/ \E p \in Pair : Classify(p)
  \/ \E p \in Pair : UnblockSource(p)
  \/ \E s \in Source : SweepSource(s)
  \/ Reload
  \/ Restart
  \/ Tick

Spec == Init /\ [][Next]_vars

---------------------------------------------------------------------------
(* Properties.                                                             *)

TypeOK ==
  /\ pol \in Policies
  /\ pairs \in [Pair -> Entry \cup {Free}]
  /\ fpAnchors \subseteq Source /\ installed \subseteq Source /\ leaked \subseteq Source
  /\ drop \in [Pair -> 0..Ttl]

\* "After it returns, the table and the kernel agree about this source": a pair
\* reported as blocked is dropped by the kernel until the pair's own deadline,
\* and nothing else is, whichever installs failed (reinstallSourceLocked).  The code
\* keeps the first half.  Of the second it leaves to their own deadlines, and nobody
\* reports, the rules of a withdraw that failed, of an install refused before it
\* reached the maps, and of what a restart did not restore.
TableIsKernel ==
  \A p \in Pair :
    LET real == pairs[p] # Free /\ ~pairs[p].dry /\ pairs[p].left > 0
    IN /\ real => drop[p] = pairs[p].left
       /\ drop[p] > 0 => real \/ p[1] \in leaked

\* However blocks, unblocks, expiries, failures and restarts follow each other,
\* the fingerprint plane's share never passes half the pool, and a slot it gave
\* up is not charged to it for ever (fpAnchors).
OperatorReserve ==
  /\ fpAnchors \subseteq Anchors(pairs)
  /\ Cardinality(fpAnchors) <= FpBudget

\* What makes it inductive: a source whose block the kernel has is one the manager
\* installed.
InstalledSources ==
  \A p \in Pair : pairs[p] # Free /\ ~pairs[p].dry /\ pairs[p].left > 0 => p[1] \in installed

IInv == TypeOK /\ TableIsKernel /\ OperatorReserve /\ InstalledSources
=============================================================================
