------------------------------ MODULE ZoneHold ------------------------------
(***************************************************************************)
(* How the zone document reaches the edge nodes: the long-poll of           *)
(* api/edge.go, its holds, and the operator's lever on a zone's challenge   *)
(* (api/edge_lever.go), whose overrides lapse with nobody there to say so.  *)
(*                                                                         *)
(* One zone.  A document is what its hash stands for: whether the zone is in *)
(* it, and the override's fixed end, as a distance from now.                *)
(***************************************************************************)
EXTENDS Integers, FiniteSets

CONSTANTS
  Node,      \* the edge nodes
  ConfSet,   \* configurations: the nodes they have, those the zone is placed on
  Ttl,       \* the longest override
  NoDoc      \* a node that has polled nothing

ZoneHoldAssumption ==
  /\ Ttl \in Nat \ {0}
  /\ \A c \in ConfSet : c.nodes \subseteq Node /\ c.placed \subseteq Node

VARIABLES
  config,   \* the store's snapshot
  lever,    \* the override's time left; Lapsed until a snapshot forgets it
  request,  \* request[n]: where the handler of n's poll is, and its timer
  holds,    \* holds[n]: the document n holds, whose ETag it polls with
  alerted   \* alerted[n]: a channel n's handler subscribed to was closed

vars == <<config, lever, request, holds, alerted>>

None == -1
Lapsed == 0
Never == -1
Away == [at |-> "away", timer |-> Never]

Docs == [zone : BOOLEAN, lever : None..Ttl]
NoZones == [zone |-> FALSE, lever |-> None]

---------------------------------------------------------------------------
(* The document.                                                           *)

\* A lapsed override is forgotten by whichever snapshot comes first, and nobody
\* is told.
Forgotten == IF lever = Lapsed THEN None ELSE lever

\* Wrong variant: an unknown name gets the file like an operator's bare GET.
ServedWhole(n) == n \in config.placed \/ n \notin config.nodes

\* A node the configuration does not have serves nothing.
Served(n) == n \in config.nodes \cap config.placed

DocFor(n) == IF Served(n) THEN [zone |-> TRUE, lever |-> Forgotten] ELSE NoZones

---------------------------------------------------------------------------
(* What changes it.                                                        *)

\* Wrong variant: the channels are taken only once the handler waits.
SubscribedLate(n) == request[n].at = "wait"

Subscribed(n) == request[n].at \notin {"away", "subscribe"}

\* Every handler that has subscribed is woken.
Notify == alerted' = [n \in Node |-> alerted[n] \/ Subscribed(n)]

Reload ==
  /\ config' \in ConfSet \ {config}
  /\ Notify /\ UNCHANGED <<lever, request, holds>>

\* handleEdgeChallengeLever: set needs the zone in the file.
SetLever ==
  /\ config.placed # {}
  /\ lever' \in 1..Ttl
  /\ Notify /\ UNCHANGED <<config, request, holds>>

ClearLever ==
  /\ lever # None
  /\ lever' = None
  /\ Notify /\ UNCHANGED <<config, request, holds>>

---------------------------------------------------------------------------
(* handleEdgeZones.                                                        *)

Goto(n, at) == request' = [request EXCEPT ![n].at = at] /\ UNCHANGED holds
Leave(n) == request' = [request EXCEPT ![n] = Away]
Refuse(n) == Leave(n) /\ UNCHANGED holds
Answer(n) == Leave(n) /\ holds' = [holds EXCEPT ![n] = DocFor(n)]

\* Taking a snapshot: answered if it is news, otherwise on to the next step.
Snapshot(n, otherwise) ==
  /\ lever' = Forgotten
  /\ \/ holds[n] # DocFor(n) /\ Answer(n)
     \/ holds[n] = DocFor(n) /\ otherwise

\* A first poll: only a configured name, then the document or a hold; all hold
\* slots may be taken.
Poll(n) ==
  /\ request[n] = Away /\ n \in config.nodes
  /\ Snapshot(n, Goto(n, "subscribe") \/ Refuse(n))
  /\ UNCHANGED <<config, alerted>>

\* Before the document is read again.
Subscribe(n) ==
  /\ request[n].at = "subscribe"
  /\ alerted' = [alerted EXCEPT ![n] = FALSE]
  /\ Goto(n, "check")
  /\ UNCHANGED <<config, lever>>

\* edgeHoldStillValid, before the loop's snapshot and before the last one.
Check(n) ==
  /\ request[n].at \in {"check", "end"}
  /\ IF n \in config.nodes
     THEN Goto(n, IF request[n].at = "check" THEN "read" ELSE "last")
     ELSE Refuse(n)
  /\ UNCHANGED <<config, lever, alerted>>

Read(n) ==
  /\ request[n].at = "read"
  /\ Snapshot(n, Goto(n, "timer"))
  /\ UNCHANGED <<config, alerted>>

\* Wrong variant: only the keys' rotation wakes a parked poll.
UntilNextChangeNever == Never

\* Until the override lapses, and at least a second.
UntilNextChange == IF lever = None THEN Never ELSE IF lever < 1 THEN 1 ELSE lever

SetTimer(n) ==
  /\ request[n].at = "timer"
  /\ request' = [request EXCEPT ![n] = [at |-> "wait", timer |-> UntilNextChange]]
  /\ UNCHANGED <<config, lever, holds, alerted>>

Wake(n) ==
  /\ request[n].at = "wait" /\ (alerted[n] \/ request[n].timer = 0)
  /\ request' = [request EXCEPT ![n] = [at |-> "subscribe", timer |-> Never]]
  /\ UNCHANGED <<config, lever, holds, alerted>>

\* The hold's deadline, or a shutdown.
EndHold(n) ==
  /\ request[n].at = "wait"
  /\ request' = [request EXCEPT ![n] = [at |-> "end", timer |-> Never]]
  /\ UNCHANGED <<config, lever, holds, alerted>>

LastLook(n) ==
  /\ request[n].at = "last"
  /\ Snapshot(n, Refuse(n))
  /\ UNCHANGED <<config, alerted>>

\* The client goes, with its answer or before it.
Disconnect(n) ==
  /\ request[n] # Away
  /\ Refuse(n)
  /\ UNCHANGED <<config, lever, alerted>>

Less(x) == IF x > 0 THEN x - 1 ELSE x

Tick ==
  /\ lever' = Less(lever)
  /\ request' = [n \in Node |-> [request[n] EXCEPT !.timer = Less(@)]]
  /\ holds' = [n \in Node |-> IF holds[n] \in Docs THEN [holds[n] EXCEPT !.lever = Less(@)]
                              ELSE holds[n]]
  /\ UNCHANGED <<config, alerted>>

Init ==
  /\ config \in ConfSet /\ lever = None
  /\ request = [n \in Node |-> Away]
  /\ holds = [n \in Node |-> NoDoc]
  /\ alerted = [n \in Node |-> FALSE]

Handle(n) ==
  \/ Subscribe(n) \/ Check(n) \/ Read(n) \/ SetTimer(n)
  \/ Wake(n) \/ EndHold(n) \/ LastLook(n)

Next ==
  \/ Reload \/ SetLever \/ ClearLever \/ Tick
  \/ \E n \in Node : Poll(n) \/ Disconnect(n) \/ Handle(n)

\* A node polls again and again, and its handler runs: a hold ends by its deadline.
Fairness == \A n \in Node : WF_vars(Poll(n)) /\ WF_vars(Handle(n))

Spec == Init /\ [][Next]_vars /\ Fairness

---------------------------------------------------------------------------
(* Properties.                                                             *)

TypeOK ==
  /\ config \in ConfSet /\ lever \in None..Ttl
  /\ request \in [Node -> [at : {"away", "subscribe", "check", "read", "timer", "wait", "end", "last"},
                           timer : Never..Ttl]]
  /\ holds \in [Node -> Docs \cup {NoDoc}]
  /\ alerted \in [Node -> BOOLEAN]

\* What a poll that waits would be told is what it holds.
UpToDate(n) == n \in config.nodes /\ holds[n] = DocFor(n)

\* On its way: a closed channel, or the timer at the end of its second.
AboutToHear(n) == alerted[n] \/ request[n].timer \in {0, 1}

\* The override the node holds has lapsed, and another poll's snapshot, taken
\* between this one's and its timer, has already forgotten it.
LapseMissed(n) == holds[n].lever = Lapsed /\ lever = None

\* No parked poll sleeps on news: whatever a reload, a lever or a lapse does
\* between any two of its steps, it is woken for it (handleEdgeZones: "Subscribe
\* BEFORE re-reading", "the poll that wakes for it takes the snapshot that drops
\* it"), one race of two polls apart.
ParkedHears ==
  \A n \in Node :
    request[n].at = "wait" => UpToDate(n) \/ AboutToHear(n) \/ LapseMissed(n)

\* The same without the exception: "what a parked poll must wake for, so the
\* document that drops a lapsed override goes out on time" (untilNextChange).
LapseOnTime == \A n \in Node : request[n].at = "wait" => UpToDate(n) \/ AboutToHear(n)

\* No answer gives a node a zone that is not placed on it, or any zone once the
\* configuration has dropped the node, also when that reload lands between the
\* handler's check and its snapshot (edgeSnapshotFor: "the floor under it").
OnlyItsZones ==
  [][\A n \in Node :
       (Poll(n) \/ Read(n) \/ LastLook(n)) /\ holds'[n] # holds[n] /\ holds'[n].zone
         => n \in config.nodes \cap config.placed]_vars

\* Once the operator is done, every node ends up with its document of the last
\* configuration, the races above and broken connections included.
NewsArrives ==
  \A c \in ConfSet :
    <>[](config = c /\ lever = None) => <>[](\A n \in c.nodes : holds[n] = DocFor(n))
=============================================================================
