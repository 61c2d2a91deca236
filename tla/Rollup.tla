-------------------------------- MODULE Rollup --------------------------------
(***************************************************************************)
(* How a node counts its access log (edge/rollup/window.go, listener.go,     *)
(* record.go, node/report_zones.go): a record is checked against the         *)
(* document's zones, told to the decider, and folded into its zone's window. *)
(* The window is closed by whoever finds it over, the next record or the     *)
(* ticker, and handed on outside the lock: whole to the rules, cut to its    *)
(* top sources to the report.                                               *)
(*                                                                         *)
(* A record the listener drops, or cannot parse, is one that was never       *)
(* written; a count is kept by what the node answered the request.           *)
(***************************************************************************)
EXTENDS Integers, FiniteSets, FiniteSetsExt, Functions

CONSTANTS
  Zone, Source,   \* sources are numbers, in their order
  Kind,           \* of the records that come
  MaxPairs, TopSources,
  Records,        \* that are folded (bound)
  Length,         \* of a window; what a stalled reader adds is divided out of its rates
  None

RollupAssumption ==
  /\ MaxPairs \in Nat \ {0} /\ TopSources \in Nat \ {0} /\ Source \subseteq Nat
  /\ Length \in Nat \ {0} /\ Records \in Nat /\ Zone # {} /\ Source # {}
  /\ IsFiniteSet(Zone) /\ IsFiniteSet(Source) /\ IsFiniteSet(Kind)

VARIABLES
  known,   \* the zones of the document, Zone until there is one
  age,     \* of the window
  open,    \* of each zone: its window
  checked, \* the record that is known, and not folded yet
  handing, \* of each closer: windows it has closed and not handed on
  kept,    \* of each zone: the window the report has
  truth,   \* of each zone: what its window is to say (ghost)
  folded, handed \* records (ghosts)

vars == <<known, age, open, checked, handing, kept, truth, folded, handed>>

Closer == {"log", "ticker"}
Refusals == {"rate", "table"}
Previews == {"would deny", "would challenge"}
Answered == {"allowed", "challenged"} \cup Refusals \cup Previews   \* else undecided, or not asked

Counts == [Kind -> Nat]
Nothing == [k \in Kind |-> 0]
Of(c, kinds) == SumFunctionOnSet(c, kinds \cap Kind)
Total(c) == Of(c, Kind)

Empty == [all |-> Nothing, of |-> [s \in Source |-> Nothing], overflow |-> FALSE]
Named(w) == {s \in Source : Total(w.of[s]) > 0}

\* WouldBe, Telling: a refusal by the table, or a challenge, outranks a preview.
Acted(c) == Of(c, {"table", "challenged"}) > 0
WouldBe(c) == Of(c, Previews) > 0 /\ ~Acted(c)

\* sourceState, in the report.
State(c) ==
  IF Of(c, {"table"}) > 0 THEN "denied"
  ELSE IF Of(c, {"challenged"}) > 0 THEN "challenged"
  ELSE IF Of(c, {"would deny"}) > 0 THEN "would deny"
  ELSE IF Of(c, {"would challenge"}) > 0 THEN "would challenge" ELSE "allowed"

\* Wrong variant: the busiest first, whatever was done to them.
RankByLoad(c) == 0

Rank(c) == IF WouldBe(c) THEN 0 ELSE IF Acted(c) THEN 1 ELSE 2

Before(w, s, t) ==
  LET a == w.of[s]
      b == w.of[t]
  IN \/ Rank(a) < Rank(b)
     \/ Rank(a) = Rank(b) /\ Total(a) > Total(b)
     \/ Rank(a) = Rank(b) /\ Total(a) = Total(b) /\ s < t

Top(w) == {s \in Named(w) : Cardinality({t \in Named(w) : Before(w, t, s)}) < TopSources}

\* What the node let through, and would have: the load the rung can act on.
Admitted(w) == Max({Of(w.all, Answered) - Of(w.all, Refusals \cup {"would deny"}), 0})

\* rollIfDue's statistics: those of all sources, and the bounded view of them.
Stats(z) ==
  LET w == open[z]
  IN [ zone |-> z, all |-> w.all, of |-> w.of, admitted |-> Admitted(w),
       named |-> Top(w), cut |-> Cardinality({s \in Named(w) \ Top(w) : WouldBe(w.of[s])}),
       overflow |-> w.overflow, truth |-> truth[z] ]

Busy == {z \in Zone : Total(open[z].all) > 0}

---------------------------------------------------------------------------
(* Actions.                                                                *)

\* Observe, up to its first unlock: the zone is one of the document's.
Check(z, s, k) ==
  /\ checked = None /\ handing["log"] = {} /\ folded < Records
  /\ z \in known
  /\ checked' = [zone |-> z, src |-> s, kind |-> k]
  /\ UNCHANGED <<known, age, open, handing, kept, truth, folded, handed>>

\* A source past the cap is counted in its zone alone.
Refused(w, s) == s \notin Named(w) /\ Cardinality(Named(w)) >= MaxPairs

Plus(c, k) == [c EXCEPT ![k] = @ + 1]

Counted(w, s, k) ==
  [ all |-> Plus(w.all, k), overflow |-> w.overflow \/ Refused(w, s),
    of |-> IF Refused(w, s) THEN w.of ELSE [w.of EXCEPT ![s] = Plus(@, k)] ]

\* Observe, the rest.  The window it finds over is closed before the record is folded:
\* it looked at the clock before, so that it may find one over late, or not yet.
Fold(closes) ==
  LET r == checked
      base == IF closes THEN [z \in Zone |-> Empty] ELSE open
      was == IF closes THEN [z \in Zone |-> Empty.of] ELSE truth
  IN /\ checked # None
     /\ closes => age = Length
     /\ handing' = IF closes THEN [handing EXCEPT !["log"] = {Stats(z) : z \in Busy}] ELSE handing
     /\ age' = IF closes THEN 0 ELSE age
     /\ open' = [base EXCEPT ![r.zone] = Counted(@, r.src, r.kind)]
     /\ truth' = [was EXCEPT ![r.zone][r.src] = Plus(@, r.kind)]
     /\ checked' = None /\ folded' = folded + 1
     /\ UNCHANGED <<known, kept, handed>>

\* Aggregator.Tick.
Close ==
  /\ age = Length /\ handing["ticker"] = {}
  /\ handing' = [handing EXCEPT !["ticker"] = {Stats(z) : z \in Busy}]
  /\ age' = 0
  /\ open' = [z \in Zone |-> Empty] /\ truth' = [z \in Zone |-> Empty.of]
  /\ UNCHANGED <<known, checked, kept, folded, handed>>

\* emit, and keepWindow: the report keeps a zone's last.
Emit(c) ==
  \E st \in handing[c] :
    /\ handing' = [handing EXCEPT ![c] = @ \ {st}]
    /\ kept' = [kept EXCEPT ![st.zone] = st]
    /\ handed' = handed + Total(st.all)
    /\ UNCHANGED <<known, age, open, checked, truth, folded>>

\* acceptDocument: zones that are gone are counted no more, and their windows forgotten
\* (pruneWindows); the window that is open stays open.
SetZones(names) ==
  /\ names # known /\ known' = names
  /\ kept' = [z \in Zone |-> IF z \in names THEN kept[z] ELSE None]
  /\ UNCHANGED <<age, open, checked, handing, truth, folded, handed>>

Pass ==
  /\ age < Length /\ age' = age + 1
  /\ UNCHANGED <<known, open, checked, handing, kept, truth, folded, handed>>

Init ==
  /\ known = Zone /\ age = 0
  /\ open = [z \in Zone |-> Empty] /\ checked = None
  /\ handing = [c \in Closer |-> {}] /\ kept = [z \in Zone |-> None]
  /\ truth = [z \in Zone |-> Empty.of] /\ folded = 0 /\ handed = 0

Next ==
  \/ \E z \in Zone, s \in Source, k \in Kind : Check(z, s, k)
  \/ \E closes \in BOOLEAN : Fold(closes)
  \/ Close \/ \E c \in Closer : Emit(c)
  \/ \E names \in SUBSET Zone : SetZones(names)
  \/ Pass

Spec == Init /\ [][Next]_vars

---------------------------------------------------------------------------
(* Properties.                                                             *)

ClosedWindow ==
  [ zone : Zone, all : Counts, of : [Source -> Counts], admitted : Nat, named : SUBSET Source,
    cut : Nat, overflow : BOOLEAN, truth : [Source -> Counts] ]

TypeOK ==
  /\ known \subseteq Zone /\ age \in 0..Length /\ folded \in 0..Records /\ handed \in Nat
  /\ open \in [Zone -> [all : Counts, of : [Source -> Counts], overflow : BOOLEAN]]
  /\ truth \in [Zone -> [Source -> Counts]]
  /\ checked \in [zone : Zone, src : Source, kind : Kind] \cup {None}
  /\ handing \in [Closer -> SUBSET ClosedWindow] /\ kept \in [Zone -> ClosedWindow \cup {None}]
  /\ \A z \in Zone : Cardinality(Named(open[z])) <= MaxPairs

\* The windows that are closed, and have yet to be handed on or are the report's.
Closings == (UNION {handing[c] : c \in Closer}) \cup ({kept[z] : z \in Zone} \ {None})

\* A record is counted in one window, whoever closes it, and whatever document comes
\* while it is open (rollIfDue, emit).
RecordsOf(S) == SumFunctionOnSet([st \in S |-> Total(st.all)], S)
CountedOnce ==
  folded = handed + RecordsOf(handing["log"]) + RecordsOf(handing["ticker"])
                  + SumFunctionOnSet([z \in Zone |-> Total(open[z].all)], Zone)

\* A source that is measured is measured from the window's first record, and only the
\* zone's own sources leave one out; so the load the rung acts on is what was let
\* through, by whatever source, watching or enforcing (Observe, AdmittedRPS).
LetThrough == {"allowed", "challenged", "would challenge"}
Measured(st) ==
  /\ \A s \in Source : st.of[s] # st.truth[s] => st.of[s] = Nothing /\ st.overflow
  /\ st.overflow => Cardinality({s \in Source : Total(st.truth[s]) > 0}) > MaxPairs
  /\ st.admitted = SumFunctionOnSet([s \in Source |-> Of(st.truth[s], LetThrough)], Source)
MeasuredWhole == \A st \in Closings : Measured(st)

\* A preview's list of who would be refused is complete unless it says that it is not,
\* loses nobody to a busier bystander, and the report's word of each is the same
\* (rank, WouldBeTruncated, sourceState).
Previewed(st) ==
  LET would == {s \in Source : WouldBe(st.truth[s])}
      listed == {s \in st.named : State(st.of[s]) \in Previews}
  IN /\ listed \subseteq would
     /\ ~st.overflow => Cardinality(would \ listed) = st.cut
     /\ st.cut > 0 => Cardinality(listed) = TopSources
PreviewComplete == \A st \in Closings : Previewed(st)

LogCounted == TypeOK /\ CountedOnce /\ MeasuredWhole /\ PreviewComplete

---------------------------------------------------------------------------
(* What makes them inductive.                                              *)

\* A record is folded by the closer that has handed on what it closed before.
HandedFirst == /\ checked # None => handing["log"] = {} /\ folded < Records
               /\ \A c \in Closer : IsFiniteSet(handing[c])

\* A source is counted as it came or not at all; the cap has been met once one is not.
CountedOrNot ==
  \A z \in Zone :
    /\ \A s \in Source : open[z].of[s] # truth[z][s] => open[z].of[s] = Nothing /\ open[z].overflow
    /\ open[z].overflow => /\ Cardinality(Named(open[z])) >= MaxPairs
                           /\ Cardinality({s \in Source : Total(truth[z][s]) > 0}) > MaxPairs

\* The zone's counts are those of all its sources.
AllCounted ==
  \A z \in Zone : \A kinds \in SUBSET Kind :
    Of(open[z].all, kinds) = SumFunctionOnSet([s \in Source |-> Of(truth[z][s], kinds)], Source)

IInv == LogCounted /\ HandedFirst /\ CountedOrNot /\ AllCounted
=============================================================================
