-------------------------------- MODULE Access --------------------------------
(***************************************************************************)
(* Who may do what over the HTTP API, and when that is decided              *)
(* (api/api.go, node_binding.go, edge_tenant.go, edge.go, nodes.go,         *)
(* edge_lever.go).  A request is authenticated under one configuration, its *)
(* handler reads the store again, and a poll that is parked may outlive     *)
(* many more: reloads fall between any two of these.                        *)
(*                                                                         *)
(* A source block goes through its handlers as a ban does.  What a document *)
(* says, and how a hold is woken, is ZoneHold's and ScrubAgent's.           *)
(***************************************************************************)
EXTENDS Integers, FiniteSets, FiniteSetsExt, Sequences

CONSTANTS
  Client,        \* who sends requests, one at a time
  Host, Zone, Node,
  Bears,         \* of each client: its secrets
  ConfSet,       \* configurations; see the MC module
  MaxHolds,      \* of the hold gate, per token
  None           \* no secret, token, node or owner

AccessAssumption ==
  /\ MaxHolds \in Nat \ {0} /\ IsFiniteSet(Client)
  /\ None \notin Node \cup {"gone", "unknown"}
  /\ \A c \in ConfSet : /\ DOMAIN c.tokens \subseteq Nat
                         /\ \A i \in DOMAIN c.tokens : c.tokens[i].name # None

Unscoped == ""
Target == Host \cup Zone
Mutations == {"ban", "unban", "set", "clear"}
Routes == Mutations \cup {"reload", "report", "poll"}

VARIABLES
  conf,             \* the store's snapshot
  request,          \* of each client: where its handler is, and what it last found out
  banned, levered,  \* what the mutating routes change
  polling,          \* of each node: the polls in flight that count as its presence
  reported          \* nodes whose own report is stored

vars == <<conf, request, banned, levered, polling, reported>>

Gone == [at |-> "away", route |-> "none", on |-> None, caller |-> None, found |-> None]

---------------------------------------------------------------------------
(* Authentication.                                                         *)

Matching(s) == {i \in DOMAIN conf.tokens : s # None /\ conf.tokens[i].secret = s}

SamePrincipal(t, u) == t.role = u.role /\ t.tenant = u.tenant /\ t.node = u.node

\* One secret of two principals is nobody's.
Ambiguous(s) == \E i, j \in Matching(s) : ~SamePrincipal(conf.tokens[i], conf.tokens[j])

Principal(t) == [token |-> t.name, role |-> t.role, tenant |-> t.tenant, node |-> t.node]
Anybody == [token |-> None, role |-> "operator", tenant |-> Unscoped, node |-> None]

Authenticated(s) ==
  IF conf.tokens = <<>> THEN Anybody
  ELSE IF Matching(s) = {} \/ Ambiguous(s) THEN None
  ELSE Principal(conf.tokens[Min(Matching(s))])

\* requireRole by rank, requireAnyRole by membership.
Permitted(c, route) ==
  IF route \in {"report", "poll"} THEN c.role \in {"agent", "operator"} ELSE c.role = "operator"

Goto(k, at) == request' = [request EXCEPT ![k] = [@ EXCEPT !.at = at]]
Become(k, at, found) == request' = [request EXCEPT ![k] = [@ EXCEPT !.at = at, !.found = found]]
Leave(k) == request' = [request EXCEPT ![k] = Gone]

\* guard: who is not let in is answered at once.
Arrive(k, s, route, on) ==
  LET c == Authenticated(s)
  IN /\ request[k] = Gone /\ c # None
     /\ Permitted(c, route)
     /\ request' = [request EXCEPT ![k] = [at |-> "check", route |-> route, on |-> on, caller |-> c, found |-> None]]
     /\ UNCHANGED <<conf, banned, levered, polling, reported>>

---------------------------------------------------------------------------
(* Acting on a target.                                                     *)

\* visibleAddr, visibleZone: a zone that is not in the file is nobody's.
Visible(c, t) == c.tenant = Unscoped \/ conf.owner[t] = c.tenant

\* The lever wants the zone in the file, unless it clears one that is set.
MayGo(k) ==
  LET t == request[k].on
  IN CASE request[k].route = "set" -> conf.owner[t] # None
       [] request[k].route = "clear" -> conf.owner[t] # None \/ t \in levered
       [] OTHER -> TRUE

CheckTarget(k) ==
  LET r == request[k]
  IN /\ r.at = "check" /\ r.route \in Mutations
     /\ IF Visible(r.caller, r.on) /\ MayGo(k)
        THEN Become(k, "act", conf.owner[r.on])
        ELSE Leave(k)
     /\ UNCHANGED <<conf, banned, levered, polling, reported>>

\* The mitigator may refuse a ban, and finds no ban to take down.
Act(k, refused) ==
  LET r == request[k]
  IN /\ r.at = "act" /\ r.route \in Mutations
     /\ refused => r.route = "ban"
     /\ banned' = CASE r.route = "ban" /\ ~refused -> banned \cup {r.on}
                    [] r.route = "unban" -> banned \ {r.on}
                    [] OTHER -> banned
     /\ levered' = CASE r.route = "set" -> levered \cup {r.on}
                     [] r.route = "clear" -> levered \ {r.on}
                     [] OTHER -> levered
     /\ Leave(k)
     /\ UNCHANGED <<conf, polling, reported>>

\* Only an unscoped token reloads; the file may be refused.
Reload(k, new) ==
  /\ request[k].at = "check" /\ request[k].route = "reload"
  /\ conf' = IF request[k].caller.tenant = Unscoped THEN new ELSE conf
  /\ Leave(k)
  /\ UNCHANGED <<banned, levered, polling, reported>>

\* The same by signal.
Signal(new) ==
  /\ new # conf /\ conf' = new
  /\ UNCHANGED <<request, banned, levered, polling, reported>>

---------------------------------------------------------------------------
(* Acting as a node.                                                       *)

\* nodeActor: a bound token names its own node, and names one.
NodeActor(c, n) == c.node = None \/ c.node = n

StampsPresence(c) == c.role = "agent" /\ c.token # None

Report(k) ==
  LET r == request[k]
  IN /\ r.at = "check" /\ r.route = "report"
     /\ reported' =
          IF r.caller.tenant = Unscoped /\ NodeActor(r.caller, r.on) /\ r.on \in conf.nodes
          THEN reported \cup {r.on} ELSE reported
     /\ Leave(k)
     /\ UNCHANGED <<conf, banned, levered, polling>>

\* pollStarted and pollEnded.
Stamped(c, n, by) ==
  IF n = None \/ ~StampsPresence(c) THEN polling ELSE [polling EXCEPT ![n] = @ + by]

\* handleEdgeZones and handleDataplaneRules, up to their first snapshot.
StartPoll(k) ==
  LET r == request[k]
  IN /\ r.at = "check" /\ r.route = "poll"
     /\ IF /\ r.caller.tenant = Unscoped /\ NodeActor(r.caller, r.on)
           /\ r.on # None => r.caller.token # None /\ r.on \in conf.nodes
        THEN Goto(k, "started") /\ polling' = Stamped(r.caller, r.on, 1)
        ELSE Leave(k) /\ UNCHANGED polling
     /\ UNCHANGED <<conf, banned, levered, reported>>

InHold == {"parked", "ending", "answer"}
HeldBy(c) == {k \in Client : request[k].at \in InHold /\ request[k].caller.token = c.token}

EndPoll(k) == Leave(k) /\ polling' = Stamped(request[k].caller, request[k].on, -1)

\* The document at once, a refused hold, or a hold.
Hold(k) ==
  /\ request[k].at = "started"
  /\ \/ EndPoll(k)
     \/ /\ Cardinality(HeldBy(request[k].caller)) < MaxHolds
        /\ Goto(k, "parked") /\ UNCHANGED polling
  /\ UNCHANGED <<conf, banned, levered, reported>>

\* holdStillAuthorized goes by the token's name.
NamedStill(c, n) ==
  \/ c.token = None
  \/ \E i \in DOMAIN conf.tokens :
       conf.tokens[i].name = c.token /\ conf.tokens[i].node \in {None, n}

\* Wrong variant: the node is looked for at entry only.
TokenStillValid(c, n) == NamedStill(c, n)

HoldStillValid(c, n) == (n # None => n \in conf.nodes) /\ NamedStill(c, n)

\* What a first poll by the token of that name would be answered now.
CouldAsk(c, n) ==
  /\ n # None => n \in conf.nodes
  /\ IF conf.tokens = <<>> THEN n = None
     ELSE \E i \in DOMAIN conf.tokens :
            LET t == conf.tokens[i]
            IN /\ t.name = c.token /\ t.role \in {"agent", "operator"} /\ t.tenant = Unscoped
               /\ NodeActor(t, n)

\* How the configuration stands to the poll (ghost: nothing reads it).
Standing(c, n) ==
  IF CouldAsk(c, n) THEN "asked"
  ELSE IF n # None /\ n \notin conf.nodes THEN "gone"
  ELSE IF \E i \in DOMAIN conf.tokens : conf.tokens[i].name = c.token /\ NodeActor(conf.tokens[i], n)
  THEN "demoted" ELSE "unknown"

\* A turn of the hold's loop, or the last look that the deadline or a shutdown ends
\* it with: the check, and then a snapshot taken for itself.
Look(k, last) ==
  LET r == request[k]
  IN /\ r.at = "parked"
     /\ IF HoldStillValid(r.caller, r.on)
        THEN /\ Become(k, IF last THEN "answer" ELSE "ending", Standing(r.caller, r.on))
             /\ UNCHANGED polling
        ELSE EndPoll(k)
     /\ UNCHANGED <<conf, banned, levered, reported>>

\* With news, or on the last look without, it answers; else it goes on waiting.
Answer(k) ==
  /\ \/ request[k].at \in {"answer", "ending"} /\ EndPoll(k)
     \/ request[k].at = "ending" /\ Goto(k, "parked") /\ UNCHANGED polling
  /\ UNCHANGED <<conf, banned, levered, reported>>

Disconnect(k) ==
  /\ request[k].at = "parked" /\ EndPoll(k)
  /\ UNCHANGED <<conf, banned, levered, reported>>

Init ==
  /\ conf \in ConfSet
  /\ request = [k \in Client |-> Gone]
  /\ banned = {} /\ levered = {}
  /\ polling = [n \in Node |-> 0] /\ reported = {}

Arrivals(k, s) ==
  \/ \E h \in Host : Arrive(k, s, "ban", h) \/ Arrive(k, s, "unban", h)
  \/ \E z \in Zone : Arrive(k, s, "set", z) \/ Arrive(k, s, "clear", z)
  \/ Arrive(k, s, "reload", None)
  \/ \E n \in Node : Arrive(k, s, "report", n) \/ Arrive(k, s, "poll", n)
  \/ Arrive(k, s, "poll", None)

Next ==
  \/ \E new \in ConfSet : Signal(new)
  \/ \E k \in Client :
       \/ \E s \in Bears[k] : Arrivals(k, s)
       \/ CheckTarget(k) \/ \E refused \in BOOLEAN : Act(k, refused)
       \/ \E new \in ConfSet : Reload(k, new)
       \/ Report(k) \/ StartPoll(k) \/ Hold(k)
       \/ \E last \in BOOLEAN : Look(k, last)
       \/ Answer(k) \/ Disconnect(k)

Spec == Init /\ [][Next]_vars

---------------------------------------------------------------------------
(* Properties.                                                             *)

TypeOK ==
  /\ conf \in ConfSet /\ banned \subseteq Host /\ levered \subseteq Zone /\ reported \subseteq Node
  /\ \A k \in Client : request[k].at \in {"away", "check", "act", "started"} \cup InHold
  /\ \A n \in Node : polling[n] \in 0..Cardinality(Client)

\* Whoever is about to act on an address or a zone is an operator, and unscoped or
\* of the tenant that owned it when the handler looked: not of one that owned it
\* when the token was read (visibleAddr, visibleZone).
ActsForOwner ==
  \A k \in Client : request[k].at = "act" =>
    /\ request[k].caller.role = "operator"
    /\ request[k].caller.tenant \in {Unscoped, request[k].found}

\* A node's presence counts the polls in flight as that node, by agents that may
\* act as it, until each ends, whichever way; an operator's preview and an open API
\* leave no trace in it (pollStarted, pollEnded, stampsPresence).
PresenceHonest ==
  \A n \in Node :
    polling[n] = Cardinality({k \in Client :
      /\ request[k].route = "poll" /\ request[k].on = n
      /\ request[k].at \in {"started"} \cup InHold
      /\ request[k].caller.role = "agent" /\ request[k].caller.node \in {None, n}})

\* A hold ends in a document only for a node the configuration still has and a
\* token it still names, bound to no other node (edgeHoldStillValid): a hold taken
\* without a token, in an open API, is not looked at again.  Holds of one token stay
\* within its bound (holdGate).
HoldsRevalidated ==
  \A k \in Client : request[k].at \in InHold =>
    /\ request[k].found # "gone"
    /\ request[k].found = "unknown" => request[k].caller.token = None
    /\ Cardinality(HeldBy(request[k].caller)) <= MaxHolds

\* The same of all that the route checked at entry, as holdStillAuthorized's comment
\* says: false, as a change of the token's role or tenant, or the end of an open API,
\* is not noticed.
HoldsAskable == \A k \in Client : request[k].at \in InHold => request[k].found \in {None, "asked"}

\* What a token may do is decided by what it is when it is done.
AccessHonest == TypeOK /\ ActsForOwner /\ PresenceHonest /\ HoldsRevalidated

\* What makes it inductive: a caller is what some configuration named, or anybody while
\* one named nobody; only an operator is on its way to a mutation, and a poll that was
\* let in is one its token may make.
Callers ==
  {Anybody} \cup UNION {{Principal(c.tokens[i]) : i \in DOMAIN c.tokens} : c \in ConfSet}

Owners == UNION {{c.owner[t] : t \in Target} : c \in ConfSet}

Typed ==
  /\ TypeOK
  /\ request \in [Client -> [at : {"away", "check", "act", "started"} \cup InHold,
                            route : Routes \cup {"none"}, on : Target \cup Node \cup {None},
                            caller : Callers \cup {None},
                            found : Owners \cup {None, "asked", "gone", "demoted", "unknown"}]]
  /\ polling \in [Node -> Nat]

OnItsWay ==
  \A k \in Client :
    LET r == request[k]
    IN /\ r.at # "away" => r.caller \in Callers /\ Permitted(r.caller, r.route)
       /\ r.at = "check" => /\ r.found = None
                            /\ r.route \in {"ban", "unban"} => r.on \in Host
                            /\ r.route \in {"set", "clear"} => r.on \in Zone
                            /\ r.route = "report" => r.on \in Node
                            /\ r.route = "poll" => r.on \in Node \cup {None}
       /\ r.at = "act" => \/ r.route \in {"ban", "unban"} /\ r.on \in Host
                          \/ r.route \in {"set", "clear"} /\ r.on \in Zone
       /\ r.at \in {"started"} \cup InHold =>
            r.route = "poll" /\ r.on \in Node \cup {None} /\ NodeActor(r.caller, r.on)
       /\ r.at = "started" => r.found = None

IInv == Typed /\ OnItsWay /\ ActsForOwner /\ PresenceHonest /\ HoldsRevalidated
=============================================================================
