-------------------------------- MODULE Acme --------------------------------
(***************************************************************************)
(* The certificates of one zone: each edge node runs its own ACME orders    *)
(* (edge/acme Manager), keeps the certificate on disk (store) and answers    *)
(* HTTP-01 challenges; the brain grants one node at a time a slot and fans   *)
(* out its challenge (api/edge_acme, in memory).  Both are advisory: a node  *)
(* that waits too long, or cannot reach the brain, orders anyway.            *)
(*                                                                         *)
(* One unit of time is an order's budget (issueTimeout); a slot's lease and  *)
(* a challenge live for two, and a node waits for the slot for three.        *)
(* Lifetimes and backoffs, days and hours, are not on this clock.            *)
(***************************************************************************)
EXTENDS Integers, FiniteSets

CONSTANTS
  Holder,         \* the edge nodes
  NoHolder,
  Lease,          \* issuanceSlotTTL, edgeChallengeTTL
  SlotWait,       \* slotWait
  FallbackAfter,  \* failures that turn the next attempt to the fallback
  Upsets          \* kills, restarts, outages and their ends (a bound)

AcmeAssumption ==
  /\ NoHolder \notin Holder /\ Lease \in Nat /\ Lease > 1
  /\ SlotWait \in Nat /\ FallbackAfter \in Nat \ {0}
  /\ Upsets \in Nat

CA == {"primary", "fallback"}

VARIABLES
  slot,    \* the brain's grant: [node, left]
  fanned,  \* what is left of each node's published challenge
  order,   \* each node's attempt: [step, ca, slot, shared, clock]
  fails,   \* consecutive failures, and whether the last was the fallback's
  cert,    \* what each node holds in memory: "none" | "due" | "fresh"
  store,   \* on disk: the set `current` names, and the sets that are whole
  good,    \* the CAs that complete an order just now
  reach,   \* the brain is reachable
  upset

vars == <<slot, fanned, order, fails, cert, store, good, reach, upset>>

NoSlot == [node |-> NoHolder, left |-> 0]
NoOrder == [step |-> "idle", ca |-> "primary", slot |-> "no", shared |-> "no", clock |-> 0]
NoFails == [count |-> 0, fallback |-> FALSE]

Ordering(n) == order[n].step \in {"order", "validate", "save", "switch"}

\* Wrong variant: once on the fallback, always on the fallback.
DirectoryStuck(n) == IF fails[n].count < FallbackAfter THEN "primary" ELSE "fallback"

\* The CA of the next attempt: the primary, or the two in turn.
DirectoryFor(n) ==
  IF fails[n].count < FallbackAfter \/ fails[n].fallback THEN "primary" ELSE "fallback"

\* Ensure: a due zone, one order at a time.  (The wait after a failure only
\* delays this step.)
Start(n) ==
  /\ order[n] = NoOrder /\ cert[n] # "fresh"
  /\ order' = [order EXCEPT ![n] = [NoOrder EXCEPT !.step = "slot", !.ca = DirectoryFor(n)]]
  /\ UNCHANGED <<slot, fanned, fails, cert, store, good, reach, upset>>

Free(n) == slot.node \in {NoHolder, n}

\* Granted (again to the holder: its lease starts anew); refused, to be asked
\* again; or no answer, or the wait is over: the node goes on without it.
AcquireSlot(n) ==
  /\ order[n].step = "slot"
  /\ \/ /\ reach /\ Free(n)
        /\ slot' = [node |-> n, left |-> Lease]
        /\ order' = [order EXCEPT ![n] = [@ EXCEPT !.step = "order", !.slot = "yes", !.clock = 0]]
     \/ /\ ~reach \/ (~Free(n) /\ order[n].clock >= SlotWait)
        /\ order' = [order EXCEPT ![n] = [@ EXCEPT !.step = "order", !.clock = 0]]
        /\ UNCHANGED slot
  /\ UNCHANGED <<fanned, fails, cert, store, good, reach, upset>>

\* A challenge is fanned out for the slot's holder only.
Publish(n) ==
  /\ order[n].step = "order" /\ order[n].ca \in good
  /\ LET ok == reach /\ slot.node = n
     IN /\ order' = [order EXCEPT ![n] = [@ EXCEPT !.step = "validate",
                                                   !.shared = IF ok THEN "yes" ELSE "no"]]
        /\ fanned' = IF ok THEN [fanned EXCEPT ![n] = Lease] ELSE fanned
  /\ UNCHANGED <<slot, fails, cert, store, good, reach, upset>>

Validated(n) ==
  /\ order[n].step = "validate" /\ order[n].ca \in good
  /\ order' = [order EXCEPT ![n].step = "save"]
  /\ UNCHANGED <<slot, fanned, fails, cert, store, good, reach, upset>>

\* Wrong variant: the brain frees the zone, whoever holds it.
ReleasedAny(n) == NoSlot

Released(n) == IF slot.node = n THEN NoSlot ELSE slot

\* The slot goes back when the attempt is over, if it was granted and the brain
\* answers; otherwise the lease runs out.
GiveBack(n) == slot' = IF order[n].slot # "no" /\ reach THEN Released(n) ELSE slot

\* A failure only this node's answering could have caused is not the CA's.
Counted(n) ==
  IF order[n].step = "validate" /\ order[n].shared = "no" THEN fails[n]
  ELSE [count |-> IF fails[n].count < FallbackAfter THEN fails[n].count + 1 ELSE FallbackAfter,
        fallback |-> order[n].ca = "fallback"]

\* The CA refuses, or does not answer within the budget, or reaches a node that
\* does not know the challenge.
OrderFails(n) ==
  /\ order[n].step \in {"order", "validate"}
  /\ order[n].ca \notin good \/ (order[n].step = "validate" /\ order[n].shared # "yes")
  /\ fails' = [fails EXCEPT ![n] = Counted(n)]
  /\ GiveBack(n) /\ order' = [order EXCEPT ![n] = NoOrder]
  /\ UNCHANGED <<fanned, cert, store, good, reach, upset>>

\* Wrong variant: the link first, then the files.
SaveNextLinkFirst(s, step) ==
  IF step = "save" THEN [s EXCEPT !.current = "new"] ELSE [s EXCEPT !.whole = {"new"}]

\* A whole new set, then the link that names it (and the sets before the
\* previous one go).
SaveNext(s, step) ==
  IF step = "save" THEN [s EXCEPT !.whole = @ \cup {"new"}] ELSE [s EXCEPT !.current = "new"]

Save(n) ==
  /\ order[n].step = "save"
  /\ store' = [store EXCEPT ![n] = SaveNext(@, "save")]
  /\ order' = [order EXCEPT ![n].step = "switch"]
  /\ UNCHANGED <<slot, fanned, fails, cert, good, reach, upset>>

\* The switched certificate is in force: the failures are forgotten, the
\* configuration is rendered anew (OnCertificate).
Switch(n) ==
  /\ order[n].step = "switch"
  /\ store' = [store EXCEPT ![n] = SaveNext(@, "switch")]
  /\ cert' = [cert EXCEPT ![n] = "fresh"]
  /\ fails' = [fails EXCEPT ![n] = NoFails]
  /\ GiveBack(n) /\ order' = [order EXCEPT ![n] = NoOrder]
  /\ UNCHANGED <<fanned, good, reach, upset>>

---------------------------------------------------------------------------
(* Kills, restarts of the brain, and time.                                  *)

\* A killed node starts from the set on disk that `current` names.
Killed(n) ==
  /\ upset < Upsets /\ upset' = upset + 1
  /\ order' = [order EXCEPT ![n] = NoOrder]
  /\ fails' = [fails EXCEPT ![n] = NoFails]
  /\ cert' = [cert EXCEPT ![n] =
       CASE store[n].current \notin store[n].whole -> "none"
         [] store[n].current = "old" -> "due"
         [] store[n].current = "new" -> "fresh"]
  /\ UNCHANGED <<slot, fanned, store, good, reach>>

Lost(x) == IF x = "yes" THEN "lost" ELSE x

\* The brain forgets every slot and challenge; the node that had one does not know.
BrainRestarts ==
  /\ upset < Upsets /\ upset' = upset + 1
  /\ slot' = NoSlot /\ fanned' = [n \in Holder |-> 0]
  /\ order' = [n \in Holder |-> [order[n] EXCEPT !.slot = Lost(@), !.shared = Lost(@)]]
  /\ UNCHANGED <<fails, cert, store, good, reach>>

Weather ==
  /\ upset < Upsets /\ upset' = upset + 1
  /\ \/ good' \in SUBSET CA \ {good} /\ UNCHANGED reach
     \/ reach' = ~reach /\ UNCHANGED good
  /\ UNCHANGED <<slot, fanned, order, fails, cert, store>>

Less(x) == IF x = 0 THEN 0 ELSE x - 1

\* No order outlives its budget; the sweep takes what has lapsed.
Tick ==
  /\ \A n \in Holder : Ordering(n) => order[n].clock = 0
  /\ slot' = IF slot.left <= 1 THEN NoSlot ELSE [slot EXCEPT !.left = @ - 1]
  /\ fanned' = [n \in Holder |-> Less(fanned[n])]
  /\ order' = [n \in Holder |->
       IF Ordering(n) \/ (order[n].step = "slot" /\ order[n].clock < SlotWait)
       THEN [order[n] EXCEPT !.clock = @ + 1] ELSE order[n]]
  /\ order' # order \/ slot' # slot \/ fanned' # fanned
  /\ UNCHANGED <<fails, cert, store, good, reach, upset>>

Init ==
  /\ slot = NoSlot /\ fanned = [n \in Holder |-> 0]
  /\ order = [n \in Holder |-> NoOrder] /\ fails = [n \in Holder |-> NoFails]
  /\ \E c \in {"none", "due"} : cert = [n \in Holder |-> c]
  /\ store = [n \in Holder |-> IF cert[n] = "due" THEN [current |-> "old", whole |-> {"old"}]
                                ELSE [current |-> "none", whole |-> {}]]
  /\ good = CA /\ reach = TRUE /\ upset = 0

Attempt(n) ==
  \/ Start(n)
  \/ AcquireSlot(n)
  \/ Publish(n)
  \/ Validated(n)
  \/ OrderFails(n)
  \/ Save(n)
  \/ Switch(n)

Next ==
  \/ \E n \in Holder : Attempt(n) \/ Killed(n)
  \/ BrainRestarts
  \/ Weather
  \/ Tick

\* A manager's pass goes on (hourly, and on Wake), and the clock runs.
Fairness == (\A n \in Holder : WF_vars(Attempt(n))) /\ WF_vars(Tick)

Spec == Init /\ [][Next]_vars /\ Fairness

---------------------------------------------------------------------------
(* Properties.                                                             *)

\* A wait for the slot is at most SlotWait long, an order at most one unit.
Clock == 0..(IF SlotWait > 1 THEN SlotWait ELSE 1)

Orders == [step : {"idle", "slot", "order", "validate", "save", "switch"}, ca : CA,
           slot : {"no", "yes", "lost"}, shared : {"no", "yes", "lost"}, clock : Clock]

TypeOK ==
  /\ slot \in [node : Holder \cup {NoHolder}, left : 0..Lease]
  /\ fanned \in [Holder -> 0..Lease]
  /\ order \in [Holder -> Orders]
  /\ fails \in [Holder -> [count : 0..FallbackAfter, fallback : BOOLEAN]]
  /\ cert \in [Holder -> {"none", "due", "fresh"}]
  /\ good \subseteq CA /\ reach \in BOOLEAN

\* A slot serialises: of two nodes the brain has granted the zone to, at most one
\* is ordering, its lease outlives its order whatever a late release or a lapsed
\* lease does, and while the CA validates, its challenge is in every document.
\* (Nodes that went on without the slot, or after a restart of the brain, are
\* the documented exception.)
OneGrantedOrder ==
  \A n \in Holder :
    /\ Ordering(n) /\ order[n].slot = "yes" => slot.node = n
    /\ order[n].step = "validate" /\ order[n].shared = "yes" => fanned[n] > 0

\* `current` always names a whole set, and a node's own view of its certificate
\* is what a restart would find (store.save, load): a kill at any step loses at
\* most the new certificate.
CertificateWhole ==
  \A n \in Holder :
    /\ store[n].current = "none" \/ store[n].current \in store[n].whole
    /\ cert[n] = "fresh" <=> store[n].current = "new"

\* As long as one CA works and the brain answers, every node gets its certificate
\* and every renewal comes through, whichever CA that is (directoryFor).
RenewedInTheEnd ==
  (\E c \in CA : <>[](c \in good)) /\ <>[]reach
    => \A n \in Holder : <>[](cert[n] = "fresh")

\* What makes the above inductive: a granted order and the challenge it published
\* have at least what is left of the order's budget; the slot is granted to an order
\* that starts without it; and the new set is whole before the link is switched.
GrantOutlivesOrder ==
  \A n \in Holder :
    /\ Ordering(n) => order[n].clock \in {0, 1}
    /\ order[n].slot = "yes" => Ordering(n) /\ slot.node = n /\ slot.left + order[n].clock > 1
    /\ order[n].step = "validate" /\ order[n].shared = "yes" => fanned[n] + order[n].clock > 1

StoreTyped ==
  /\ store \in [Holder -> [current : {"none", "old", "new"}, whole : SUBSET {"old", "new"}]]
  /\ \A n \in Holder : order[n].step = "switch" => "new" \in store[n].whole

IInv == TypeOK /\ CertificateWhole /\ GrantOutlivesOrder /\ StoreTyped
=============================================================================
