---------------------------- MODULE FleetProofs ----------------------------
(***************************************************************************)
(* What the parts of the fleet promise, for every fleet: for each part that  *)
(* its inductive invariant holds at the start, that its steps keep it, and   *)
(* what follows from it; then the same of the fleet, whose steps are those   *)
(* of one part.                                                              *)
(***************************************************************************)
EXTENDS Fleet, FiniteFacts

---------------------------------------------------------------------------
(* The scrub nodes.                                                        *)

\* The first of some nodes in configuration order is one of them.
LEMMA FirstChosen ==
  ASSUME N!NodesAssumption, NEW S \in SUBSET N!Node, S # {}
  PROVE  N!First(S) \in S
<1> DEFINE I == {i \in DOMAIN Order : Order[i] \in S}
<1>1. DOMAIN Order \subseteq Nat
  BY DEF N!NodesAssumption
<1>2. I \in SUBSET Nat /\ I # {}
  BY <1>1 DEF N!Node, N!Range
<1>3. PICK i \in I : \A j \in I : i <= j
  BY <1>2, LeastNatural
<1>4. \A m \in S : \E j \in DOMAIN Order : Order[j] = m /\ i <= j
  BY <1>3 DEF N!Node, N!Range
<1> QED
  BY <1>3, <1>4 DEF N!First

\* The node chosen for a victim is a configured one, or none.
LEMMA SelectTyped ==
  ASSUME N!NodesAssumption, conf \in ConfSet, NEW p, NEW b
  PROVE  N!SelectScrubNode(p, b) \in N!Node \cup {NoNode}
<1> DEFINE alive == {n \in conf.eligible : N!NodeAlive(n)}
<1>1. conf.eligible \in SUBSET N!Node /\ alive \in SUBSET N!Node
  BY DEF N!NodesAssumption
<1>2. alive # {} => N!First(alive) \in N!Node
  BY <1>1, FirstChosen
<1>3. conf.eligible # {} => N!First(conf.eligible) \in N!Node
  BY <1>1, FirstChosen
<1> QED
  BY <1>1, <1>2, <1>3 DEF N!SelectScrubNode

\* No ban, no poll and no silence at the start.
LEMMA NodesInit ==
  ASSUME N!NodesAssumption, N!Init
  PROVE  N!IInv
<1>1. N!TypeOK
  BY DEF N!NodesAssumption, N!Init, N!TypeOK, N!NoHold, N!Never, N!Unset, N!Lapsed
<1>2. N!HeldTyped /\ N!RouteFollowsBan
  BY DEF N!Init, N!HeldTyped, N!RouteFollowsBan, N!NoHold
<1>3. N!SilenceCounted
  BY DEF N!Init, N!SilenceCounted, N!Never, N!Unset
<1> QED
  BY <1>1, <1>2, <1>3 DEF N!IInv

\* Taking a ban down leaves no hold and nothing up.
LEMMA TakeDownKeeps ==
  ASSUME N!NodesAssumption, N!IInv, N!TakeDown
  PROVE  held' = N!NoHold /\ route' = "none" /\ rules' = FALSE
  BY DEF N!IInv, N!HeldTyped, N!RouteFollowsBan, N!TakeDown

\* A judgment of the nodes keeps what is known of their silence.
LEMMA JudgeKeeps ==
  ASSUME N!NodesAssumption, N!IInv, N!Judge
  PROVE  /\ grace' \in [N!Node -> N!Lapsed..N!Unset]
         /\ N!SilenceCounted'
         /\ UNCHANGED <<conf, open, seen, quiet>>
<1> USE DEF N!NodesAssumption, N!Never, N!Unset, N!Lapsed
<1>1. /\ grace \in [N!Node -> N!Lapsed..N!Unset] /\ quiet \in [N!Node -> 0..Stale]
      /\ Stale \in Nat /\ Slack \in Nat
  BY DEF N!IInv, N!TypeOK
<1>2. ASSUME NEW n \in N!Node
      PROVE  grace'[n] = grace[n] \/ (grace[n] = N!Unset /\ grace'[n] = Stale + Slack)
  BY DEF N!Judge, N!Judged
<1>3. grace' \in [N!Node -> N!Lapsed..N!Unset]
  BY <1>1, <1>2 DEF N!Judge, N!Judged
<1>4. UNCHANGED <<conf, open, seen, quiet>>
  BY DEF N!Judge
<1>5. N!SilenceCounted'
  BY <1>1, <1>2, <1>4 DEF N!IInv, N!SilenceCounted
<1> QED
  BY <1>3, <1>4, <1>5

\* Where the sweep leaves the ban, its route follows.
LEMMA SweepKeeps ==
  ASSUME N!NodesAssumption, N!IInv, N!Sweep
  PROVE  /\ N!HeldTyped' /\ N!RouteFollowsBan'
         /\ route' \in N!Node \cup {NoNode, "hole", "none"}
<1> USE DEF N!IInv, N!TypeOK, N!HeldTyped, N!RouteFollowsBan
<1> DEFINE n == N!SelectScrubNode(NoNode, TRUE)
<1>1. n \in N!Node \cup {NoNode}
  BY SelectTyped
<1>2. conf.dryRun \in BOOLEAN
  BY DEF N!NodesAssumption
<1>3. CASE UNCHANGED <<held, route, rules>>
  BY <1>3
<1>4. ASSUME N!TakeDown
      PROVE  /\ N!HeldTyped' /\ N!RouteFollowsBan'
             /\ route' \in N!Node \cup {NoNode, "hole", "none"}
  <2>1. held' = N!NoHold /\ route' = "none" /\ rules' = FALSE
    BY <1>4, TakeDownKeeps
  <2> QED
    BY <2>1 DEF N!NoHold
<1>5. ASSUME N!Stranded(N!Judged), ~N!Waiting(N!Judged), N!MoveTo(n)
      PROVE  /\ N!HeldTyped' /\ N!RouteFollowsBan'
             /\ route' \in N!Node \cup {NoNode, "hole", "none"}
  <2>1. held.dryRun = conf.dryRun /\ held.active /\ held.method = "divert"
    BY <1>5 DEF N!Waiting, N!Stranded
  <2> HIDE DEF n
  <2> QED
    BY <1>1, <1>2, <1>5, <2>1 DEF N!MoveTo, N!Diverted, N!Relocated
<1>6. ASSUME N!Stranded(N!Judged), ~N!Waiting(N!Judged), N!LastResort
      PROVE  /\ N!HeldTyped' /\ N!RouteFollowsBan'
             /\ route' \in N!Node \cup {NoNode, "hole", "none"}
  <2>1. held.dryRun = conf.dryRun /\ held.active /\ held.method = "divert"
    BY <1>6 DEF N!Waiting, N!Stranded
  <2> QED
    BY <1>2, <1>4, <1>6, <2>1 DEF N!LastResort
<1> QED
  BY <1>3, <1>4, <1>5, <1>6 DEF N!Sweep

\* A ban, its end, polls, time, a reload and a restart keep the invariant.
LEMMA NodesStep ==
  ASSUME N!NodesAssumption, N!IInv, [N!Next]_N!vars
  PROVE  N!IInv'
<1> USE DEF N!IInv
<1>0. /\ Stale \in Nat \ {0} /\ Slack \in Nat /\ MaxOpen \in Nat \ {0}
      /\ \A c \in ConfSet : c.dryRun \in BOOLEAN
  BY DEF N!NodesAssumption
<1>1. ASSUME NEW n \in N!Node, N!NodePollStarted(n)
      PROVE  N!IInv'
  BY <1>0, <1>1 DEF N!NodePollStarted, N!TypeOK, N!HeldTyped, N!RouteFollowsBan, N!SilenceCounted, N!Never
<1>2. ASSUME NEW n \in N!Node, N!NodePollEnded(n)
      PROVE  N!IInv'
  BY <1>0, <1>2 DEF N!NodePollEnded, N!PolledLess, N!TypeOK, N!HeldTyped, N!RouteFollowsBan, N!SilenceCounted, N!Never
<1>3. CASE N!Ban
  <2>1. PICK n \in N!Node \cup {NoNode} : n = N!SelectScrubNode(NoNode, FALSE)
    BY <1>0, SelectTyped DEF N!TypeOK
  <2>2. conf.dryRun \in BOOLEAN
    BY <1>0 DEF N!TypeOK
  <2>3. UNCHANGED <<conf, open, seen, grace, quiet, rules>> /\ ~held.active
    BY <1>3 DEF N!Ban, N!nodeVars
  <2>4. ASSUME N!Diverted(n, TRUE), held' = [active |-> TRUE, dryRun |-> conf.dryRun,
                                             node |-> n, method |-> "divert"]
        PROVE  /\ N!HeldTyped' /\ N!RouteFollowsBan'
               /\ route' \in N!Node \cup {NoNode, "hole", "none"}
    <3>1. N!HeldTyped'
      BY <2>1, <2>2, <2>4 DEF N!HeldTyped
    <3>2. N!RouteFollowsBan' /\ route' \in N!Node \cup {NoNode, "hole", "none"}
      BY <2>1, <2>2, <2>3, <2>4 DEF N!RouteFollowsBan, N!Diverted
    <3> QED
      BY <3>1, <3>2
  <2>5. ASSUME route' = "hole", held' = [active |-> TRUE, dryRun |-> FALSE,
                                         node |-> n, method |-> "blackhole"]
        PROVE  /\ N!HeldTyped' /\ N!RouteFollowsBan'
               /\ route' \in N!Node \cup {NoNode, "hole", "none"}
    <3>1. N!HeldTyped'
      BY <2>1, <2>5 DEF N!HeldTyped
    <3>2. N!RouteFollowsBan'
      BY <2>3, <2>5 DEF N!RouteFollowsBan
    <3> QED
      BY <2>5, <3>1, <3>2
  <2>6. /\ N!HeldTyped' /\ N!RouteFollowsBan'
        /\ route' \in N!Node \cup {NoNode, "hole", "none"}
    BY <1>3, <2>1, <2>4, <2>5 DEF N!Ban
  <2> QED
    BY <2>3, <2>6 DEF N!TypeOK, N!HeldTyped, N!SilenceCounted
<1>4. CASE N!Unban
  <2>1. held' = N!NoHold /\ route' = "none" /\ rules' = FALSE
    BY <1>4, TakeDownKeeps DEF N!Unban
  <2> QED
    BY <1>4, <2>1 DEF N!Unban, N!nodeVars, N!TypeOK, N!HeldTyped, N!RouteFollowsBan, N!SilenceCounted, N!NoHold
<1>5. CASE N!Sweep
  <2>1. N!Judge
    BY <1>0, <1>5 DEF N!Sweep
  <2> QED
    BY <1>5, <2>1, SweepKeeps, JudgeKeeps DEF N!TypeOK, N!HeldTyped
<1>6. CASE N!Reload
  BY <1>0, <1>6 DEF N!Reload, N!Unheard, N!nodeVars, N!TypeOK, N!HeldTyped, N!RouteFollowsBan, N!SilenceCounted
<1>7. CASE N!Restart
  <2>1. PICK n \in N!Node \cup {NoNode} : n = N!SelectScrubNode(held.node, FALSE)
    BY <1>0, SelectTyped DEF N!TypeOK
  <2>2. conf.dryRun \in BOOLEAN
    BY <1>0 DEF N!TypeOK
  <2>3. /\ open' = [m \in N!Node |-> 0] /\ seen' = [m \in N!Node |-> N!Never]
        /\ grace' = [m \in N!Node |-> N!Unset] /\ quiet' = [m \in N!Node |-> 0]
        /\ UNCHANGED conf
    BY <1>7 DEF N!Restart
  <2>4. ASSUME held.active, ~conf.whitelisted
        PROVE  /\ N!HeldTyped' /\ N!RouteFollowsBan'
               /\ route' \in N!Node \cup {NoNode, "hole", "none"}
    <3>1. /\ held' = [held EXCEPT !.node = n, !.dryRun = conf.dryRun]
          /\ route' = IF conf.dryRun \/ held.method = "flowspec" THEN "none"
                      ELSE IF held.method = "divert" THEN n ELSE "hole"
          /\ rules' = (held.method = "flowspec" /\ ~conf.dryRun)
      BY <1>7, <2>1, <2>4 DEF N!Restart
    <3>2. N!HeldTyped'
      BY <2>1, <2>2, <3>1 DEF N!HeldTyped
    <3>3. N!RouteFollowsBan'
      <4>1. /\ held'.active /\ held'.dryRun = conf.dryRun
            /\ held'.node = n /\ held'.method = held.method
        BY <2>4, <3>1 DEF N!HeldTyped
      <4>2. held.method \in {"none", "divert", "blackhole", "flowspec"} /\ held.method # "none"
        BY <2>4 DEF N!HeldTyped, N!RouteFollowsBan
      <4> QED
        BY <2>2, <3>1, <4>1, <4>2 DEF N!RouteFollowsBan
    <3>4. route' \in N!Node \cup {NoNode, "hole", "none"}
      BY <2>1, <3>1
    <3> QED
      BY <3>2, <3>3, <3>4
  <2>5. ASSUME ~(held.active /\ ~conf.whitelisted)
        PROVE  /\ N!HeldTyped' /\ N!RouteFollowsBan'
               /\ route' \in N!Node \cup {NoNode, "hole", "none"}
    <3>1. held' = N!NoHold /\ route' = "none" /\ rules' = FALSE
      BY <1>7, <2>5 DEF N!Restart
    <3>2. N!HeldTyped' /\ N!RouteFollowsBan'
      BY <3>1 DEF N!HeldTyped, N!RouteFollowsBan, N!NoHold
    <3> QED
      BY <3>1, <3>2
  <2>6. /\ N!HeldTyped' /\ N!RouteFollowsBan'
        /\ route' \in N!Node \cup {NoNode, "hole", "none"}
    BY <2>4, <2>5
  <2>7. N!TypeOK' /\ N!SilenceCounted'
    BY <1>0, <2>3, <2>6 DEF N!TypeOK, N!HeldTyped, N!SilenceCounted, N!Never, N!Unset, N!Lapsed
  <2> QED
    BY <2>6, <2>7
<1>8. CASE N!Tick
  BY <1>0, <1>8 DEF N!Tick, N!TypeOK, N!HeldTyped, N!RouteFollowsBan, N!SilenceCounted, N!Never, N!Unset, N!Lapsed
<1>9. CASE UNCHANGED N!vars
  BY <1>0, <1>9 DEF N!vars, N!nodeVars, N!TypeOK, N!HeldTyped, N!RouteFollowsBan, N!SilenceCounted
<1> QED
  BY <1>1, <1>2, <1>3, <1>4, <1>5, <1>6, <1>7, <1>8, <1>9 DEF N!Next

\* A node judged lost has been silent for stale_after.
LEMMA LostIsGone ==
  ASSUME N!NodesAssumption, N!IInv, NEW n \in N!Node, N!NodeLost(n, N!Judged)
  PROVE  N!Gone(n)
<1>1. quiet[n] \in 0..Stale /\ grace[n] \in N!Lapsed..N!Unset /\ Stale \in Nat /\ Slack \in Nat
  BY DEF N!NodesAssumption, N!IInv, N!TypeOK
<1>2. open[n] = 0
  BY DEF N!NodeLost
<1>3. CASE seen[n] # N!Never
  BY <1>1, <1>2, <1>3 DEF N!NodeLost, N!Gone, N!IInv, N!SilenceCounted
<1>4. CASE seen[n] = N!Never
  <2>1. N!Judged[n] = N!Lapsed
    BY <1>4 DEF N!NodeLost
  <2>2. grace[n] = N!Lapsed
    BY <1>1, <2>1 DEF N!Judged, N!Lapsed
  <2> QED
    BY <1>1, <1>2, <1>4, <2>2 DEF N!Gone, N!IInv, N!SilenceCounted, N!Lapsed, N!Unset
<1> QED
  BY <1>3, <1>4

\* The sweep moves a ban only off a node that is gone, and gives up diverting only when
\* every eligible node is.
LEMMA SweepMovesLost ==
  ASSUME N!NodesAssumption, N!IInv, N!Sweep, held.method = "divert", held' # held,
         ~conf.whitelisted
  PROVE  /\ held.node \in conf.nodes => N!Gone(held.node)
         /\ held'.method # "divert" => \A n \in conf.eligible : N!Gone(n)
<1>1. N!Stranded(N!Judged) /\ ~N!Waiting(N!Judged)
  BY DEF N!Sweep
<1>2. conf.nodes \subseteq N!Node /\ conf.eligible \subseteq N!Node
  BY DEF N!NodesAssumption, N!IInv, N!TypeOK
<1>3. held.node \in conf.nodes => N!Gone(held.node)
  BY <1>1, <1>2, LostIsGone DEF N!Stranded
<1>4. ASSUME N!MoveTo(N!SelectScrubNode(NoNode, TRUE))
      PROVE  held'.method = "divert"
  BY <1>4 DEF N!MoveTo, N!Relocated, N!IInv, N!HeldTyped
<1>5. N!SelectScrubNode(NoNode, TRUE) = NoNode => \A n \in conf.eligible : N!Gone(n)
  BY <1>1, <1>2, LostIsGone DEF N!Waiting
<1> QED
  BY <1>3, <1>4, <1>5 DEF N!Sweep

---------------------------------------------------------------------------
(* The scrub agent.                                                        *)

\* Nothing is asked, known or installed at the start.
LEMMA AgentInit ==
  ASSUME A!AgentAssumption, A!Init
  PROVE  A!IInv
<1>1. A!TypeOK
  BY DEF A!AgentAssumption, A!Init, A!TypeOK, A!Idle
<1>2. A!PollTyped
  BY DEF A!Init, A!PollTyped, A!Idle
<1>3. A!SleeperWillHear /\ A!KernelAsBelieved
  BY DEF A!AgentAssumption, A!Init, A!SleeperWillHear, A!KernelAsBelieved, A!Idle
<1>4. A!NodeLapsesWithBan /\ A!DocumentsWithinPromise
  BY DEF A!AgentAssumption, A!Init, A!NodeLapsesWithBan, A!DocumentsWithinPromise
<1> QED
  BY <1>1, <1>2, <1>3, <1>4 DEF A!IInv

\* A wanted document is an entry with time left.
LEMMA WantedEntry ==
  ASSUME A!AgentAssumption, NEW d \in A!Entries \cup {NoEntry, NoDoc}, A!Wanted(d), d # NoDoc
  PROVE  d \in A!Entries /\ d.left \in 1..Ttl
  BY DEF A!AgentAssumption, A!Wanted, A!Entries

\* The outcomes of an apply: already installed, installed, refused by the kernel;
\* withdrawn, or still there because the kernel refused that or could not be asked.
LEMMA ApplyCases ==
  ASSUME A!AgentAssumption, A!IInv, A!Apply
  PROVE  /\ reply \in A!Entries \cup {NoEntry} /\ etag' = reply /\ reply' = NoDoc /\ seeded' = TRUE
         /\ UNCHANGED <<entry, known, promised, poll, woken, orphans>>
         /\ A!Tracked \in A!Entries \cup {NoEntry, Adopted}
         /\ A!Wanted(reply) => reply \in A!Entries /\ reply.left \in 1..Ttl
         /\ \/ /\ A!Wanted(reply) /\ A!Tracked = reply
               /\ installed' = reply /\ UNCHANGED <<kernel, missed>>
            \/ A!Wanted(reply) /\ installed' = reply /\ missed' = FALSE /\ kernel' = reply.left
            \/ /\ A!Wanted(reply) /\ installed' \in {A!Tracked, NoEntry} /\ missed' = TRUE
               /\ kernel' \in {kernel, 0}
            \/ ~A!Wanted(reply) /\ installed' = NoEntry /\ missed' = TRUE /\ UNCHANGED kernel
            \/ /\ ~A!Wanted(reply) /\ installed' = NoEntry /\ A!Tracked = NoEntry
               /\ UNCHANGED <<kernel, missed>>
            \/ ~A!Wanted(reply) /\ installed' = NoEntry /\ kernel' = 0 /\ missed' = FALSE
<1>1. reply \in A!Entries \cup {NoEntry} /\ A!Tracked \in A!Entries \cup {NoEntry, Adopted}
  BY DEF A!IInv, A!TypeOK, A!Apply, A!Tracked
<1>2. /\ etag' = reply /\ reply' = NoDoc /\ seeded' = TRUE
      /\ UNCHANGED <<entry, known, promised, poll, woken, orphans>>
  BY DEF A!Apply, A!brainVars
<1>3. ASSUME A!Wanted(reply)  PROVE reply \in A!Entries /\ reply.left \in 1..Ttl
  <2>1. reply # NoDoc
    BY DEF A!Apply
  <2>2. reply \in A!Entries \cup {NoEntry, NoDoc}
    BY <1>1
  <2> QED
    BY <1>3, <2>1, <2>2 DEF A!AgentAssumption, A!Wanted, A!Entries
<1>4. PICK had \in A!Had : IF A!Wanted(reply) THEN A!Enforce(reply, had) ELSE A!Lift(had)
  BY DEF A!Apply
<1>5. had = A!Tracked \/ had = NoEntry
  BY <1>4 DEF A!Had, A!Tracked
<1>6. NoEntry \notin A!Entries
  BY DEF A!AgentAssumption
<1>7. CASE A!Wanted(reply)
  BY <1>1, <1>2, <1>3, <1>4, <1>5, <1>6, <1>7 DEF A!Enforce, A!Deadline
<1>8. CASE ~A!Wanted(reply)
  <2>1. installed' = NoEntry
    BY <1>4, <1>8 DEF A!Lift
  <2>2. \/ had = NoEntry /\ missed' = (missed \/ A!Tracked # NoEntry) /\ UNCHANGED kernel
        \/ missed' = FALSE /\ kernel' = 0
        \/ missed' = TRUE /\ UNCHANGED kernel
    BY <1>4, <1>8 DEF A!Lift
  <2>3. missed \in BOOLEAN
    BY DEF A!IInv, A!PollTyped
  <2> QED
    BY <1>1, <1>2, <1>8, <2>1, <2>2, <2>3
<1> QED
  BY <1>1, <1>2, <1>3, <1>7, <1>8

\* Every step keeps the types, those of the request included.
LEMMA AgentTyped ==
  ASSUME A!AgentAssumption, A!IInv, [A!Next]_A!vars
  PROVE  A!TypeOK' /\ A!PollTyped'
<1> USE DEF A!AgentAssumption, A!IInv, A!TypeOK, A!PollTyped, A!Entries, A!brainVars, A!agentVars
<1>1. CASE A!BanDivert
  BY <1>1 DEF A!BanDivert, A!Notify, A!Quiet
<1>2. CASE A!Refresh
  <2>1. entry' \in A!Entries /\ promised' = Ttl
    BY <1>2 DEF A!Refresh
  <2>2. woken' \in BOOLEAN /\ UNCHANGED <<known, poll, orphans, reply, etag, installed, seeded, kernel, missed>>
    BY <1>2 DEF A!Refresh, A!Notify, A!Quiet
  <2> QED
    BY <2>1, <2>2
<1>3. CASE A!WithdrawBan
  BY <1>3 DEF A!WithdrawBan, A!Notify, A!Quiet
<1>4. CASE A!Reload
  BY <1>4 DEF A!Reload, A!Notify, A!Quiet
<1>5. CASE A!Ask
  BY <1>5 DEF A!Ask
<1>6. CASE A!Arrive
  BY <1>6 DEF A!Arrive, A!Answer, A!Refuse, A!Idle
<1>7. CASE A!Subscribe
  BY <1>7 DEF A!Subscribe
<1>8. CASE A!Reread
  BY <1>8 DEF A!Reread, A!Answer, A!Refuse, A!Idle
<1>9. CASE A!Wake
  BY <1>9 DEF A!Wake
<1>10. CASE A!EndHold
  BY <1>10 DEF A!EndHold, A!Answer, A!Refuse, A!Idle
<1>11. CASE A!Disconnect
  BY <1>11 DEF A!Disconnect, A!Idle
<1>12. CASE A!OrphanEnds
  BY <1>12 DEF A!OrphanEnds
<1>13. CASE A!Apply
  <2>1. installed' \in A!Entries \cup {NoEntry, Adopted} /\ kernel' \in 0..Ttl /\ missed' \in BOOLEAN
    <3> HIDE DEF A!Entries
    <3> HIDE DEF A!IInv, A!TypeOK, A!PollTyped, A!AgentAssumption
    <3>0. Ttl \in Nat /\ kernel \in 0..Ttl /\ missed \in BOOLEAN
      BY DEF A!IInv, A!TypeOK, A!PollTyped, A!AgentAssumption
    <3>1. A!Wanted(reply) => reply \in A!Entries /\ reply.left \in 0..Ttl
      BY <1>13, <3>0, ApplyCases
    <3>2. installed' \in {NoEntry, reply, A!Tracked} /\ missed' \in {missed, TRUE, FALSE}
      BY <1>13, ApplyCases
    <3>3. kernel' \in {kernel, 0} \/ (A!Wanted(reply) /\ kernel' = reply.left)
      BY <1>13, ApplyCases
    <3>4. reply \in A!Entries \cup {NoEntry} /\ A!Tracked \in A!Entries \cup {NoEntry, Adopted}
      BY <1>13, ApplyCases
    <3>5. installed' = reply => reply \in A!Entries \cup {NoEntry}
      BY <3>4
    <3>6. kernel' \in 0..Ttl
      BY <3>0, <3>1, <3>3
    <3> QED
      BY <3>0, <3>6, <3>1, <3>2, <3>3, <3>4
  <2> QED
    BY <1>13, <2>1, ApplyCases
<1>14. CASE A!AgentRestart
  BY <1>14 DEF A!AgentRestart, A!Idle
<1>15. CASE A!Tick
  BY <1>15 DEF A!Tick, A!AgedDoc, A!Older
<1>16. CASE UNCHANGED A!vars
  BY <1>16 DEF A!vars
<1> QED
  BY <1>1, <1>2, <1>3, <1>4, <1>5, <1>6, <1>7, <1>8, <1>9, <1>10, <1>11, <1>12, <1>13, <1>14, <1>15, <1>16 DEF A!Next

\* A change wakes a parked poll, and a poll parks only on what the table says.
LEMMA AgentSleeps ==
  ASSUME A!AgentAssumption, A!IInv, [A!Next]_A!vars
  PROVE  A!SleeperWillHear'
<1> USE DEF A!AgentAssumption, A!IInv, A!TypeOK, A!PollTyped, A!SleeperWillHear, A!Entries,
        A!brainVars, A!agentVars
<1>1. CASE A!BanDivert
  BY <1>1 DEF A!BanDivert, A!Notify, A!Quiet
<1>2. CASE A!Refresh
  BY <1>2 DEF A!Refresh, A!Notify, A!Quiet
<1>3. CASE A!WithdrawBan
  BY <1>3 DEF A!WithdrawBan, A!Notify, A!Quiet
<1>4. CASE A!Reload
  BY <1>4 DEF A!Reload, A!Notify, A!Quiet
<1>5. CASE A!Ask
  BY <1>5 DEF A!Ask
<1>6. CASE A!Arrive
  BY <1>6 DEF A!Arrive, A!Answer, A!Refuse, A!Idle
<1>7. CASE A!Subscribe
  BY <1>7 DEF A!Subscribe
<1>8. CASE A!Reread
  BY <1>8 DEF A!Reread, A!Answer, A!Refuse, A!Idle
<1>9. CASE A!Wake
  BY <1>9 DEF A!Wake
<1>10. CASE A!EndHold
  BY <1>10 DEF A!EndHold, A!Answer, A!Refuse, A!Idle
<1>11. CASE A!Disconnect
  BY <1>11 DEF A!Disconnect, A!Idle
<1>12. CASE A!OrphanEnds
  BY <1>12 DEF A!OrphanEnds
<1>13. CASE A!Apply
  BY <1>13, ApplyCases
<1>14. CASE A!AgentRestart
  BY <1>14 DEF A!AgentRestart, A!Idle
<1>15. CASE A!Tick
  BY <1>15 DEF A!Tick, A!AgedDoc, A!Older
<1>16. CASE UNCHANGED A!vars
  BY <1>16 DEF A!vars
<1> QED
  BY <1>1, <1>2, <1>3, <1>4, <1>5, <1>6, <1>7, <1>8, <1>9, <1>10, <1>11, <1>12, <1>13, <1>14, <1>15, <1>16 DEF A!Next

\* No document, and no rule, outlasts the latest deadline the brain has set.
LEMMA AgentLapses ==
  ASSUME A!AgentAssumption, A!IInv, [A!Next]_A!vars
  PROVE  A!NodeLapsesWithBan' /\ A!DocumentsWithinPromise'
<1> USE DEF A!AgentAssumption, A!IInv, A!TypeOK, A!PollTyped, A!NodeLapsesWithBan,
        A!DocumentsWithinPromise, A!Entries, A!brainVars, A!agentVars
<1>1. CASE A!BanDivert
  BY <1>1 DEF A!BanDivert, A!Notify, A!Quiet
<1>2. CASE A!Refresh
  BY <1>2 DEF A!Refresh, A!Notify, A!Quiet
<1>3. CASE A!WithdrawBan
  BY <1>3 DEF A!WithdrawBan, A!Notify, A!Quiet
<1>4. CASE A!Reload
  BY <1>4 DEF A!Reload, A!Notify, A!Quiet
<1>5. CASE A!Ask
  BY <1>5 DEF A!Ask
<1>6. CASE A!Arrive
  BY <1>6 DEF A!Arrive, A!Answer, A!Refuse, A!Idle
<1>7. CASE A!Subscribe
  BY <1>7 DEF A!Subscribe
<1>8. CASE A!Reread
  BY <1>8 DEF A!Reread, A!Answer, A!Refuse, A!Idle
<1>9. CASE A!Wake
  BY <1>9 DEF A!Wake
<1>10. CASE A!EndHold
  BY <1>10 DEF A!EndHold, A!Answer, A!Refuse, A!Idle
<1>11. CASE A!Disconnect
  BY <1>11 DEF A!Disconnect, A!Idle
<1>12. CASE A!OrphanEnds
  BY <1>12 DEF A!OrphanEnds
<1>13. CASE A!Apply
  <2>1. kernel' \in {kernel, 0} \/ (A!Wanted(reply) /\ kernel' = reply.left)
    BY <1>13, ApplyCases
  <2>2. A!Wanted(reply) => reply \in A!Entries /\ reply.left <= promised
    BY <1>13, ApplyCases, WantedEntry
  <2>3. kernel' <= promised
    BY <2>1, <2>2
  <2> QED
    BY <1>13, <2>3, ApplyCases
<1>14. CASE A!AgentRestart
  BY <1>14 DEF A!AgentRestart, A!Idle
<1>15. CASE A!Tick
  BY <1>15 DEF A!Tick, A!AgedDoc, A!Older
<1>16. CASE UNCHANGED A!vars
  BY <1>16 DEF A!vars
<1> QED
  BY <1>1, <1>2, <1>3, <1>4, <1>5, <1>6, <1>7, <1>8, <1>9, <1>10, <1>11, <1>12, <1>13, <1>14, <1>15, <1>16 DEF A!Next

\* As long as no kernel call failed, the kernel has what the document asks for.
LEMMA AgentKernel ==
  ASSUME A!AgentAssumption, A!IInv, [A!Next]_A!vars
  PROVE  A!KernelAsBelieved'
<1> USE DEF A!AgentAssumption, A!IInv, A!TypeOK, A!PollTyped, A!KernelAsBelieved, A!Entries,
        A!Wanted, A!Remaining, A!brainVars, A!agentVars
<1>1. CASE A!BanDivert
  BY <1>1 DEF A!BanDivert, A!Notify, A!Quiet
<1>2. CASE A!Refresh
  BY <1>2 DEF A!Refresh, A!Notify, A!Quiet
<1>3. CASE A!WithdrawBan
  BY <1>3 DEF A!WithdrawBan, A!Notify, A!Quiet
<1>4. CASE A!Reload
  BY <1>4 DEF A!Reload, A!Notify, A!Quiet
<1>5. CASE A!Ask
  BY <1>5 DEF A!Ask
<1>6. CASE A!Arrive
  BY <1>6 DEF A!Arrive, A!Answer, A!Refuse, A!Idle
<1>7. CASE A!Subscribe
  BY <1>7 DEF A!Subscribe
<1>8. CASE A!Reread
  BY <1>8 DEF A!Reread, A!Answer, A!Refuse, A!Idle
<1>9. CASE A!Wake
  BY <1>9 DEF A!Wake
<1>10. CASE A!EndHold
  BY <1>10 DEF A!EndHold, A!Answer, A!Refuse, A!Idle
<1>11. CASE A!Disconnect
  BY <1>11 DEF A!Disconnect, A!Idle
<1>12. CASE A!OrphanEnds
  BY <1>12 DEF A!OrphanEnds
<1>13. CASE A!Apply
  <2> HIDE DEF A!Wanted
  <2>1. ASSUME A!Wanted(reply), A!Tracked = reply, installed' = reply, UNCHANGED <<kernel, missed>>
        PROVE  A!KernelAsBelieved'
    <3>1. installed = reply /\ reply \in A!Entries /\ reply.left \in 1..Ttl
      BY <1>13, <2>1, ApplyCases, WantedEntry DEF A!Tracked
    <3>2. etag' = reply /\ installed' = reply /\ reply # NoDoc
      BY <1>13, <2>1, <3>1, ApplyCases
    <3>3. ~missed => kernel = reply.left
      BY <3>1
    <3> QED
      BY <2>1, <3>1, <3>2, <3>3
  <2>2. ASSUME A!Wanted(reply), installed' = reply, missed' = FALSE, kernel' = reply.left
        PROVE  A!KernelAsBelieved'
    <3>1. reply \in A!Entries /\ reply.left \in 1..Ttl
      BY <1>13, <2>2, ApplyCases, WantedEntry
    <3>2. etag' = reply /\ reply # NoDoc
      BY <1>13, ApplyCases
    <3> QED
      BY <2>2, <3>1, <3>2
  <2>3. ASSUME ~A!Wanted(reply), A!Tracked = NoEntry, installed' = NoEntry, UNCHANGED <<kernel, missed>>
        PROVE  A!KernelAsBelieved'
    <3>1. ~missed => kernel = 0
      BY <2>3 DEF A!Tracked
    <3> QED
      BY <1>13, <2>3, <3>1, ApplyCases
  <2>4. ASSUME ~A!Wanted(reply), installed' = NoEntry, kernel' = 0
        PROVE  A!KernelAsBelieved'
    BY <1>13, <2>4, ApplyCases
  <2>5. CASE missed' = TRUE
    BY <2>5
  <2> QED
    BY <1>13, <2>1, <2>2, <2>3, <2>4, <2>5, ApplyCases
<1>14. CASE A!AgentRestart
  BY <1>14 DEF A!AgentRestart, A!Idle
<1>15. CASE A!Tick
  BY <1>15 DEF A!Tick, A!AgedDoc, A!Older
<1>16. CASE UNCHANGED A!vars
  BY <1>16 DEF A!vars
<1> QED
  BY <1>1, <1>2, <1>3, <1>4, <1>5, <1>6, <1>7, <1>8, <1>9, <1>10, <1>11, <1>12, <1>13, <1>14, <1>15, <1>16 DEF A!Next

\* Every step keeps the agent's invariant.
LEMMA AgentStep ==
  ASSUME A!AgentAssumption, A!IInv, [A!Next]_A!vars
  PROVE  A!IInv'
  BY AgentTyped, AgentSleeps, AgentLapses, AgentKernel DEF A!IInv

\* The two promises of the node's kernel follow.
LEMMA AgentPromises ==
  ASSUME A!AgentAssumption, A!IInv
  PROVE  A!TypeOK /\ A!SleeperWillHear /\ A!KernelFollowsDocument /\ A!NodeLapsesWithBan
<1>1. A!KernelFollowsDocument
  BY WantedEntry DEF A!IInv, A!TypeOK, A!KernelAsBelieved, A!KernelFollowsDocument, A!Entries, A!Wanted
<1> QED
  BY <1>1 DEF A!IInv

---------------------------------------------------------------------------
(* The attached program.                                                   *)

\* Nothing is attached, pinned or opened at the start.
LEMMA LinksInit ==
  ASSUME L!AttachmentAssumption, L!Init
  PROVE  L!IInv
<1>1. L!TypeOK
  BY DEF L!AttachmentAssumption, L!Init, L!TypeOK, L!NoLink, L!NoMaps, L!Gone, L!Detached
<1> QED
  BY <1>1 DEF L!Init, L!IInv, L!FilteredByOwnMaps, L!LinksPinned, L!AttachedInTurn,
     L!NoLink, L!Detached

\* An attempt changes one interface's attachment and link, to well-formed ones.
LEMMA AttachTyped ==
  ASSUME L!AttachmentAssumption, L!IInv, NEW i \in Iface, L!AttachLocked(i)
  PROVE  /\ att' \in [Iface -> [on : BOOLEAN, wait : 0..Backoff, backoff : 1..Backoff]]
         /\ link' \in [Iface -> [index : Index \cup {L!Gone}, maps : Build \cup {L!NoMaps},
                                 mode : Mode \cup {AutoMode}]]
         /\ \A j \in Iface \ {i} : att'[j] = att[j] /\ link'[j] = link[j]
<1>1. /\ att \in [Iface -> [on : BOOLEAN, wait : 0..Backoff, backoff : 1..Backoff]]
      /\ link \in [Iface -> [index : Index \cup {L!Gone}, maps : Build \cup {L!NoMaps},
                            mode : Mode \cup {AutoMode}]]
      /\ dev \in [Iface -> Index \cup {L!Gone}] /\ objs \in Build \cup {L!NoMaps}
      /\ mode \in Mode \cup {AutoMode} /\ Backoff \in Nat \ {0}
  BY DEF L!AttachmentAssumption, L!IInv, L!TypeOK
<1>2. L!Failed(i) =>
        /\ att' \in [Iface -> [on : BOOLEAN, wait : 0..Backoff, backoff : 1..Backoff]]
        /\ \A j \in Iface \ {i} : att'[j] = att[j]
  BY <1>1 DEF L!Failed
<1>3. att' = [att EXCEPT ![i] = L!Attached] =>
        /\ att' \in [Iface -> [on : BOOLEAN, wait : 0..Backoff, backoff : 1..Backoff]]
        /\ \A j \in Iface \ {i} : att'[j] = att[j]
  BY <1>1 DEF L!Attached
<1>4. L!Discard(i) =>
        /\ link' \in [Iface -> [index : Index \cup {L!Gone}, maps : Build \cup {L!NoMaps},
                                mode : Mode \cup {AutoMode}]]
        /\ att' = att /\ \A j \in Iface \ {i} : link'[j] = link[j]
  BY <1>1 DEF L!Discard, L!NoLink
<1>5. L!AttachFresh(i) =>
        /\ link' \in [Iface -> [index : Index \cup {L!Gone}, maps : Build \cup {L!NoMaps},
                                mode : Mode \cup {AutoMode}]]
        /\ att' = [att EXCEPT ![i] = L!Attached]
        /\ \A j \in Iface \ {i} : link'[j] = link[j]
  BY <1>1 DEF L!AttachFresh
<1> QED
  BY <1>1, <1>2, <1>3, <1>4, <1>5 DEF L!AttachLocked

\* What it does to one that is not attached: it stays so and its link as it is; its
\* link is discarded, because the configuration or the device has outgrown it; or it
\* is attached to what its name means now.
LEMMA AttachCases ==
  ASSUME L!AttachmentAssumption, L!IInv, NEW i \in Iface, ~att[i].on, L!AttachLocked(i),
         stage # "down"
  PROVE  \/ ~att'[i].on /\ link' = link
         \/ /\ ~att'[i].on /\ link'[i] = L!NoLink
            /\ link[i].index # dev[i] \/ mode \notin {AutoMode, link[i].mode}
         \/ /\ att'[i].on /\ link'[i].index = dev[i] /\ dev[i] # L!Gone
            /\ link'[i].maps = objs /\ mode \in {AutoMode, link'[i].mode}
            /\ link'[i] = link[i] \/ link[i] = L!NoLink
<1>1. i \in DOMAIN att /\ i \in DOMAIN link
  BY DEF L!IInv, L!TypeOK
<1>2. L!Failed(i) => ~att'[i].on
  BY <1>1 DEF L!Failed
<1>3. att' = [att EXCEPT ![i] = L!Attached] => att'[i].on
  BY <1>1 DEF L!Attached
<1>4. L!Usable(i) => link[i].maps = objs /\ link[i].index = dev[i] /\ mode \in {AutoMode, link[i].mode}
  BY DEF L!Usable, L!IInv, L!LinksPinned, L!AttachedInTurn
<1>5. L!Discard(i) => ~att'[i].on /\ link'[i] = L!NoLink
  BY <1>1 DEF L!Discard
<1>6. ASSUME L!AttachFresh(i)
      PROVE  /\ link'[i].index = dev[i] /\ link'[i].maps = objs /\ mode \in {AutoMode, link'[i].mode}
             /\ att' = [att EXCEPT ![i] = L!Attached]
  <2>1. PICK m \in IF mode = AutoMode THEN Mode ELSE {mode} :
             /\ link' = [link EXCEPT ![i] = [index |-> dev[i], maps |-> objs, mode |-> m]]
             /\ att' = [att EXCEPT ![i] = L!Attached]
    BY <1>6 DEF L!AttachFresh
  <2>2. link'[i] = [index |-> dev[i], maps |-> objs, mode |-> m]
    BY <1>1, <2>1
  <2>3. mode = AutoMode \/ mode = m
    BY <2>1
  <2> QED
    BY <2>1, <2>2, <2>3
<1>7. ~L!Usable(i) /\ link[i] # L!NoLink => link[i].index # dev[i] \/ mode \notin {AutoMode, link[i].mode}
  BY DEF L!Usable
<1> QED
  BY <1>2, <1>3, <1>4, <1>5, <1>6, <1>7 DEF L!AttachLocked

\* An attempt keeps the invariant's parts that it can disturb.
LEMMA AttachKeeps ==
  ASSUME L!AttachmentAssumption, L!IInv, NEW i \in Iface, ~att[i].on, L!AttachLocked(i),
         stage # "down", UNCHANGED <<dev, busy, pins, objs, mode, named, stage>>
  PROVE  /\ att' \in [Iface -> [on : BOOLEAN, wait : 0..Backoff, backoff : 1..Backoff]]
         /\ link' \in [Iface -> [index : Index \cup {L!Gone}, maps : Build \cup {L!NoMaps},
                                 mode : Mode \cup {AutoMode}]]
         /\ L!FilteredByOwnMaps' /\ L!LinksPinned'
<1>1. att' \in [Iface -> [on : BOOLEAN, wait : 0..Backoff, backoff : 1..Backoff]]
  BY AttachTyped
<1>2. link' \in [Iface -> [index : Index \cup {L!Gone}, maps : Build \cup {L!NoMaps},
                           mode : Mode \cup {AutoMode}]]
  BY AttachTyped
<1>3. \A j \in Iface \ {i} : att'[j] = att[j] /\ link'[j] = link[j]
  BY AttachTyped
<1>4. \/ ~att'[i].on /\ link' = link
      \/ ~att'[i].on /\ link'[i] = L!NoLink
      \/ att'[i].on /\ link'[i].maps = objs /\ mode \in {AutoMode, link'[i].mode}
  BY AttachCases
<1>5. objs = pins /\ pins # L!NoMaps
  BY DEF L!IInv, L!AttachedInTurn
<1>6. L!FilteredByOwnMaps'
  BY <1>3, <1>4 DEF L!IInv, L!FilteredByOwnMaps
<1>7. L!LinksPinned'
  BY <1>3, <1>4, <1>5 DEF L!IInv, L!LinksPinned, L!NoLink
<1> QED
  BY <1>1, <1>2, <1>6, <1>7

\* Every step keeps the invariant: opening, the attempts, the watcher, both closings and
\* what happens to the devices.
LEMMA LinksStep ==
  ASSUME L!AttachmentAssumption, L!IInv, [L!Next]_L!vars
  PROVE  L!IInv'
<1> USE DEF L!AttachmentAssumption, L!IInv, L!TypeOK, L!FilteredByOwnMaps, L!LinksPinned,
        L!AttachedInTurn, L!kernel, L!Gone, L!NoMaps
<1>1. CASE L!Open
  BY <1>1 DEF L!Open, L!LinksRemoved, L!NoLink, L!Detached
<1>2. CASE L!DropUnnamed
  BY <1>2 DEF L!DropUnnamed, L!NoLink
<1>3. ASSUME NEW i \in Iface, L!AttachNext(i)  PROVE L!IInv'
  <2>1. ~att[i].on /\ stage # "down" /\ L!AttachLocked(i)
        /\ UNCHANGED <<dev, busy, pins, objs, mode, named, stage>>
    BY <1>3 DEF L!AttachNext
  <2>2. \A j \in Iface \ {i} : att'[j] = att[j]
    BY <2>1, AttachTyped
  <2>3. \A j \in todo' : ~att'[j].on
    <3>1. CASE att' = att /\ link' # link
      BY <3>1, <1>3 DEF L!AttachNext
    <3>2. CASE ~(att' = att /\ link' # link)
      BY <3>2, <2>2, <1>3 DEF L!AttachNext
    <3> QED
      BY <3>1, <3>2
  <2>4. todo' \subseteq named'
    BY <1>3 DEF L!AttachNext
  <2>5. L!FilteredByOwnMaps' /\ L!LinksPinned' /\ L!TypeOK'
    <3>1. L!FilteredByOwnMaps' /\ L!LinksPinned'
      <4> HIDE DEF L!FilteredByOwnMaps, L!LinksPinned, L!IInv
      <4> QED
        BY <2>1, AttachKeeps
    <3>2. named \subseteq Iface /\ todo' \subseteq Iface
      BY <2>4, <2>1
    <3>3. /\ att' \in [Iface -> [on : BOOLEAN, wait : 0..Backoff, backoff : 1..Backoff]]
          /\ link' \in [Iface -> [index : Index \cup {L!Gone}, maps : Build \cup {L!NoMaps},
                                  mode : Mode \cup {AutoMode}]]
      <4> HIDE DEF L!IInv, L!AttachmentAssumption, L!Gone, L!NoMaps
      <4> QED
        BY <2>1, AttachTyped
    <3>4. L!TypeOK'
      BY <2>1, <3>2, <3>3
    <3> QED
      BY <3>1, <3>4
  <2>6. L!AttachedInTurn'
    BY <1>3, <2>1, <2>3, <2>4
  <2> QED
    BY <2>5, <2>6
<1>4. CASE L!Serve
  <2>1. CASE \E i \in named : att[i].on
    BY <1>4, <2>1 DEF L!Serve
  <2>2. CASE ~\E i \in named : att[i].on
    <3>1. /\ stage' = "down" /\ objs' = L!NoMaps /\ att' = [i \in Iface |-> L!Detached]
          /\ UNCHANGED <<dev, busy, link, pins, mode, named, todo>>
      BY <1>4, <2>2 DEF L!Serve
    <3>2. L!TypeOK'
      BY <3>1 DEF L!Detached
    <3>3. \A i \in Iface : ~att'[i].on
      BY <3>1 DEF L!Detached
    <3> QED
      BY <3>1, <3>2, <3>3
  <2> QED
    BY <2>1, <2>2
<1>5. ASSUME NEW i \in Iface, L!Reconcile(i)  PROVE L!IInv'
  <2>1. stage = "up" /\ UNCHANGED <<dev, busy, pins, objs, mode, named, stage, todo>>
    BY <1>5 DEF L!Reconcile
  <2>2. CASE /\ att[i].on /\ ~L!LinkLive(i)
             /\ link' = [link EXCEPT ![i] = L!NoLink]
             /\ att' = [att EXCEPT ![i] = L!Detached]
    BY <2>1, <2>2 DEF L!NoLink, L!Detached
  <2>3. CASE ~att[i].on /\ L!AttachLocked(i)
    <3>1. L!FilteredByOwnMaps' /\ L!LinksPinned' /\ L!TypeOK'
      BY <2>1, <2>3, AttachKeeps
    <3> QED
      BY <2>1, <3>1
  <2> QED
    BY <1>5, <2>2, <2>3 DEF L!Reconcile
<1>6. CASE L!Tick
  BY <1>6 DEF L!Tick
<1>7. CASE L!CloseKeep
  BY <1>7 DEF L!CloseKeep, L!Exit, L!Detached
<1>8. CASE L!CloseDetach
  BY <1>8 DEF L!CloseDetach, L!Exit, L!LinksRemoved, L!NoLink, L!Detached
<1>9. ASSUME NEW i \in Iface, L!DeviceGone(i)  PROVE L!IInv'
  BY <1>9 DEF L!DeviceGone, L!NoLink
<1>10. ASSUME NEW i \in Iface, L!DeviceSwapped(i)  PROVE L!IInv'
  BY <1>10 DEF L!DeviceSwapped
<1>11. ASSUME NEW i \in Iface, L!Hook(i)  PROVE L!IInv'
  BY <1>11 DEF L!Hook
<1>12. CASE UNCHANGED L!vars
  BY <1>12 DEF L!vars
<1> QED
  BY <1>1, <1>2, <1>3, <1>4, <1>5, <1>6, <1>7, <1>8, <1>9, <1>10, <1>11, <1>12 DEF L!Next

\* The only step that attaches an interface is an attempt on it.
LEMMA OnlyAttemptsAttach ==
  ASSUME L!AttachmentAssumption, L!IInv, [L!Next]_L!vars, NEW i \in Iface,
         att'[i].on, ~att[i].on
  PROVE  link'[i].index = dev'[i]
<1> USE DEF L!IInv, L!TypeOK, L!AttachedInTurn
<1>1. ASSUME NEW j \in Iface, ~att[j].on, L!AttachLocked(j), stage # "down", UNCHANGED dev
      PROVE  link'[i].index = dev'[i]
  <2>1. j = i
    BY <1>1, AttachTyped
  <2> QED
    BY <1>1, <2>1, AttachCases
<1>2. ASSUME NEW j \in Iface, L!AttachNext(j)  PROVE link'[i].index = dev'[i]
  BY <1>1, <1>2 DEF L!AttachNext
<1>3. ASSUME NEW j \in Iface, L!Reconcile(j)  PROVE link'[i].index = dev'[i]
  BY <1>1, <1>3 DEF L!Reconcile, L!Detached
<1>4. CASE L!Open \/ L!Serve \/ L!CloseKeep \/ L!CloseDetach
  BY <1>4 DEF L!Open, L!Serve, L!CloseKeep, L!CloseDetach, L!Exit, L!Detached
<1>5. CASE L!DropUnnamed \/ L!Tick
  BY <1>5 DEF L!DropUnnamed, L!Tick
<1>6. ASSUME NEW j \in Iface, L!DeviceGone(j) \/ L!DeviceSwapped(j) \/ L!Hook(j)  PROVE FALSE
  BY <1>6 DEF L!DeviceGone, L!DeviceSwapped, L!Hook
<1>7. CASE UNCHANGED L!vars
  BY <1>7 DEF L!vars
<1> QED
  BY <1>2, <1>3, <1>4, <1>5, <1>6, <1>7 DEF L!Next

\* A step that takes the filter from an interface whose device stays is one of those
\* the operator, another mode or another build asked for.
LEMMA OnlyAskedForGaps ==
  ASSUME L!AttachmentAssumption, L!IInv, [L!Next]_L!vars, NEW i \in Iface,
         L!Filtered(i), dev'[i] = dev[i], link'[i].index # dev[i]
  PROVE  \/ L!CloseDetach
         \/ L!Open /\ objs' # pins
         \/ i \notin named
         \/ mode \notin {AutoMode, link[i].mode}
<1> USE DEF L!IInv, L!TypeOK, L!AttachedInTurn
<1>1. link[i].index = dev[i] /\ dev[i] # L!Gone /\ link[i] # L!NoLink
  BY DEF L!Filtered, L!NoLink
<1>2. ASSUME NEW j \in Iface, ~att[j].on, L!AttachLocked(j), stage # "down"
      PROVE  mode \notin {AutoMode, link[i].mode}
  <2>1. j = i
    BY <1>1, <1>2, AttachTyped
  <2> QED
    BY <1>1, <1>2, <2>1, AttachCases
<1>3. CASE L!Open
  BY <1>1, <1>3 DEF L!Open
<1>4. CASE L!DropUnnamed
  BY <1>1, <1>4 DEF L!DropUnnamed
<1>5. ASSUME NEW j \in Iface, L!AttachNext(j)  PROVE mode \notin {AutoMode, link[i].mode}
  BY <1>2, <1>5 DEF L!AttachNext
<1>6. ASSUME NEW j \in Iface, L!Reconcile(j)  PROVE mode \notin {AutoMode, link[i].mode}
  <2>1. CASE ~att[j].on /\ L!AttachLocked(j)
    BY <1>2, <1>6, <2>1 DEF L!Reconcile
  <2>2. CASE ~L!LinkLive(j) /\ link' = [link EXCEPT ![j] = L!NoLink]
    BY <1>1, <2>2 DEF L!LinkLive
  <2> QED
    BY <1>6, <2>1, <2>2 DEF L!Reconcile
<1>7. CASE L!Serve \/ L!Tick \/ L!CloseKeep
  BY <1>1, <1>7 DEF L!Serve, L!Tick, L!CloseKeep, L!kernel
<1>8. ASSUME NEW j \in Iface, L!DeviceGone(j) \/ L!DeviceSwapped(j) \/ L!Hook(j)  PROVE FALSE
  BY <1>1, <1>8 DEF L!DeviceGone, L!DeviceSwapped, L!Hook
<1>9. CASE UNCHANGED L!vars
  BY <1>1, <1>9 DEF L!vars, L!kernel
<1> QED
  BY <1>3, <1>4, <1>5, <1>6, <1>7, <1>8, <1>9 DEF L!Next

---------------------------------------------------------------------------
(* The certificates.                                                       *)

\* No order, grant or challenge at the start, and the store is whole.
LEMMA CertsInit ==
  ASSUME C!AcmeAssumption, C!Init
  PROVE  C!IInv
<1> USE DEF C!AcmeAssumption, C!Init, C!NoSlot, C!NoOrder, C!NoFails, C!CA
<1>1. cert \in [Holder -> {"none", "due"}]
  OBVIOUS
<1>2. C!TypeOK
  BY <1>1 DEF C!TypeOK, C!Orders, C!Clock
<1>3. C!CertificateWhole /\ C!StoreTyped
  BY <1>1 DEF C!CertificateWhole, C!StoreTyped
<1>4. C!GrantOutlivesOrder
  BY DEF C!GrantOutlivesOrder, C!Ordering
<1> QED
  BY <1>2, <1>3, <1>4 DEF C!IInv

\* A slot is given back by its holder only.
LEMMA GivenBack ==
  ASSUME C!IInv, NEW n \in Holder, C!GiveBack(n)
  PROVE  /\ slot' \in {slot, C!NoSlot}
         /\ slot'.node = slot.node \/ slot.node = n
         /\ \A h \in Holder \ {n} : slot.node = h => slot' = slot
  BY DEF C!GiveBack, C!Released

\* The orders stay well formed: every step edits one order, or all of them alike.
LEMMA OrdersTyped ==
  ASSUME C!AcmeAssumption, C!IInv, [C!Next]_C!vars
  PROVE  order' \in [Holder -> C!Orders]
<1>1. order \in [Holder -> C!Orders] /\ C!NoOrder \in C!Orders /\ 0 \in C!Clock
  BY DEF C!IInv, C!TypeOK, C!AcmeAssumption, C!NoOrder, C!Orders, C!Clock, C!CA
<1>2. ASSUME NEW n \in Holder, NEW o \in C!Orders, order' = [order EXCEPT ![n] = o]
      PROVE  order' \in [Holder -> C!Orders]
  BY <1>1, <1>2
<1>3. ASSUME NEW n \in Holder, C!Start(n)  PROVE order' \in [Holder -> C!Orders]
  <2>1. [C!NoOrder EXCEPT !.step = "slot", !.ca = C!DirectoryFor(n)] \in C!Orders
    BY <1>1 DEF C!NoOrder, C!Orders, C!DirectoryFor, C!CA
  <2> QED
    BY <1>2, <1>3, <2>1 DEF C!Start
<1>4. ASSUME NEW n \in Holder, C!AcquireSlot(n)  PROVE order' \in [Holder -> C!Orders]
  <2>1. /\ [order[n] EXCEPT !.step = "order", !.slot = "yes", !.clock = 0] \in C!Orders
        /\ [order[n] EXCEPT !.step = "order", !.clock = 0] \in C!Orders
    BY <1>1 DEF C!Orders
  <2> QED
    BY <1>2, <1>4, <2>1 DEF C!AcquireSlot
<1>5. ASSUME NEW n \in Holder, C!Publish(n)  PROVE order' \in [Holder -> C!Orders]
  <2>1. PICK x \in {"yes", "no"} : order' = [order EXCEPT ![n] = [@ EXCEPT !.step = "validate", !.shared = x]]
    BY <1>5 DEF C!Publish
  <2> QED
    BY <1>1, <2>1 DEF C!Orders
<1>6. ASSUME NEW n \in Holder, C!Validated(n) \/ C!Save(n)  PROVE order' \in [Holder -> C!Orders]
  <2>1. PICK x \in {"save", "switch"} : order' = [order EXCEPT ![n].step = x]
    BY <1>6 DEF C!Validated, C!Save
  <2> QED
    BY <1>1, <2>1 DEF C!Orders
<1>7. ASSUME NEW n \in Holder, C!OrderFails(n) \/ C!Switch(n) \/ C!Killed(n)
      PROVE  order' \in [Holder -> C!Orders]
  BY <1>1, <1>2, <1>7 DEF C!OrderFails, C!Switch, C!Killed
<1>8. CASE C!BrainRestarts
  <2>1. \A n \in Holder : [order[n] EXCEPT !.slot = C!Lost(@), !.shared = C!Lost(@)] \in C!Orders
    BY <1>1 DEF C!Orders, C!Lost
  <2> QED
    BY <1>8, <2>1 DEF C!BrainRestarts
<1>9. CASE C!Tick
  <2>1. ASSUME NEW n \in Holder, C!Ordering(n) \/ (order[n].step = "slot" /\ order[n].clock < SlotWait)
        PROVE  [order[n] EXCEPT !.clock = order[n].clock + 1] \in C!Orders
    <3>1. order[n] \in C!Orders
      BY <1>1
    <3>2. order[n].clock \in C!Clock
      BY <3>1 DEF C!Orders
    <3>3. order[n].clock + 1 \in C!Clock
      BY <1>9, <2>1, <3>2 DEF C!Tick, C!Clock, C!AcmeAssumption
    <3> QED
      BY <3>1, <3>3 DEF C!Orders
  <2> QED
    BY <1>1, <1>9, <2>1 DEF C!Tick
<1>10. CASE C!Weather \/ UNCHANGED C!vars
  BY <1>1, <1>10 DEF C!Weather, C!vars
<1> QED
  BY <1>3, <1>4, <1>5, <1>6, <1>7, <1>8, <1>9, <1>10 DEF C!Next, C!Attempt

\* A restart of the brain takes the slot and the challenge from every order, and
\* nothing else.
LEMMA BrainForgets ==
  ASSUME C!AcmeAssumption, C!IInv, C!BrainRestarts
  PROVE  /\ slot' = C!NoSlot /\ fanned' \in [Holder -> 0..Lease]
         /\ UNCHANGED <<fails, cert, store, good, reach>>
         /\ \A n \in Holder : /\ order'[n].step = order[n].step /\ order'[n].clock = order[n].clock
                               /\ order'[n].slot # "yes" /\ order'[n].shared # "yes"
<1>1. slot' = C!NoSlot /\ fanned' = [n \in Holder |-> 0] /\ UNCHANGED <<fails, cert, store, good, reach>>
  BY DEF C!BrainRestarts
<1>2. fanned' \in [Holder -> 0..Lease]
  BY <1>1 DEF C!AcmeAssumption
<1>3. ASSUME NEW n \in Holder
      PROVE  /\ order'[n].step = order[n].step /\ order'[n].clock = order[n].clock
             /\ order'[n].slot # "yes" /\ order'[n].shared # "yes"
  <2>1. order[n] \in C!Orders
    BY DEF C!IInv, C!TypeOK
  <2>2. order'[n] = [order[n] EXCEPT !.slot = C!Lost(@), !.shared = C!Lost(@)]
    BY DEF C!BrainRestarts
  <2> QED
    BY <2>1, <2>2 DEF C!Orders, C!Lost
<1> QED
  BY <1>1, <1>2, <1>3

\* Every step keeps the types.
LEMMA CertsTyped ==
  ASSUME C!AcmeAssumption, C!IInv, [C!Next]_C!vars
  PROVE  C!TypeOK'
<1>1. order' \in [Holder -> C!Orders]
  BY OrdersTyped
<1>2. \A n \in Holder : C!GiveBack(n) => slot' \in {slot, C!NoSlot}
  BY GivenBack
<1> USE DEF C!AcmeAssumption, C!IInv, C!TypeOK, C!NoSlot, C!NoFails
<1>3. ASSUME NEW n \in Holder, C!Start(n) \/ C!Validated(n) \/ C!Save(n)  PROVE C!TypeOK'
  BY <1>1, <1>3 DEF C!Start, C!Validated, C!Save
<1>4. ASSUME NEW n \in Holder, C!AcquireSlot(n)  PROVE C!TypeOK'
  BY <1>1, <1>4 DEF C!AcquireSlot
<1>5. ASSUME NEW n \in Holder, C!Publish(n)  PROVE C!TypeOK'
  BY <1>1, <1>5 DEF C!Publish
<1>6. ASSUME NEW n \in Holder, C!OrderFails(n)  PROVE C!TypeOK'
  <2>1. fails' \in [Holder -> [count : 0..FallbackAfter, fallback : BOOLEAN]]
    BY <1>6 DEF C!OrderFails, C!Counted
  <2> QED
    BY <1>1, <1>2, <1>6, <2>1 DEF C!OrderFails
<1>7. ASSUME NEW n \in Holder, C!Switch(n)  PROVE C!TypeOK'
  BY <1>1, <1>2, <1>7 DEF C!Switch
<1>8. ASSUME NEW n \in Holder, C!Killed(n)  PROVE C!TypeOK'
  <2>1. store[n].current \in {"none", "old", "new"}
    BY DEF C!StoreTyped
  <2>2. store[n].current = "none" => store[n].current \notin store[n].whole
    BY DEF C!StoreTyped
  <2>3. cert' \in [Holder -> {"none", "due", "fresh"}]
    BY <1>8, <2>1, <2>2 DEF C!Killed
  <2>4. fails' = [fails EXCEPT ![n] = C!NoFails] /\ UNCHANGED <<slot, fanned, good, reach>>
    BY <1>8 DEF C!Killed
  <2>5. fails' \in [Holder -> [count : 0..FallbackAfter, fallback : BOOLEAN]]
    BY <2>4
  <2> QED
    BY <1>1, <2>3, <2>4, <2>5
<1>9. CASE C!BrainRestarts
  BY <1>1, <1>9, BrainForgets
<1>10. CASE C!Weather
  <2>1. good' \subseteq C!CA /\ reach' \in BOOLEAN
    BY <1>10 DEF C!Weather
  <2> QED
    BY <1>1, <1>10, <2>1 DEF C!Weather
<1>11. CASE C!Tick
  <2>1. slot' \in [node : Holder \cup {NoHolder}, left : 0..Lease]
    BY <1>11 DEF C!Tick
  <2>2. ASSUME NEW n \in Holder  PROVE C!Less(fanned[n]) \in 0..Lease
    BY DEF C!Less
  <2>3. fanned' \in [Holder -> 0..Lease]
    BY <1>11, <2>2 DEF C!Tick
  <2> QED
    BY <1>1, <1>11, <2>1, <2>3 DEF C!Tick
<1>12. CASE UNCHANGED C!vars
  BY <1>12 DEF C!vars
<1> QED
  BY <1>3, <1>4, <1>5, <1>6, <1>7, <1>8, <1>9, <1>10, <1>11, <1>12
  DEF C!Next, C!Attempt

\* No step takes the slot or the challenge from an order under way: only the holder
\* gives the slot back, another node is refused while it is held, and the clock stops
\* at an order's budget.
LEMMA CertsGrant ==
  ASSUME C!AcmeAssumption, C!IInv, [C!Next]_C!vars
  PROVE  C!GrantOutlivesOrder'
<1> USE DEF C!AcmeAssumption, C!IInv, C!TypeOK, C!GrantOutlivesOrder, C!Ordering,
        C!NoOrder, C!NoSlot
<1>1. ASSUME NEW n \in Holder, C!Start(n)  PROVE C!GrantOutlivesOrder'
  BY <1>1 DEF C!Start
<1>2. ASSUME NEW n \in Holder, C!AcquireSlot(n)  PROVE C!GrantOutlivesOrder'
  <2>1. order[n].step = "slot" /\ order[n] \in C!Orders /\ order \in [Holder -> C!Orders]
    BY <1>2 DEF C!AcquireSlot
  <2>2. ASSUME NEW x \in {"yes", order[n].slot},
               order' = [order EXCEPT ![n] = [@ EXCEPT !.step = "order", !.slot = x, !.clock = 0]]
        PROVE  /\ order'[n].step = "order" /\ order'[n].clock = 0 /\ order'[n].slot = x
               /\ \A h \in Holder \ {n} : order'[h] = order[h]
    BY <2>1, <2>2 DEF C!Orders
  <2>3. ASSUME order' = [order EXCEPT ![n] = [@ EXCEPT !.step = "order", !.clock = 0]]
        PROVE  /\ order'[n].step = "order" /\ order'[n].clock = 0 /\ order'[n].slot = order[n].slot
               /\ \A h \in Holder \ {n} : order'[h] = order[h]
    BY <2>1, <2>3 DEF C!Orders
  <2>4. order[n].slot # "yes"
    BY <2>1
  <2>5. CASE C!Free(n) /\ slot' = [node |-> n, left |-> Lease] /\ UNCHANGED fanned
             /\ order' = [order EXCEPT ![n] = [@ EXCEPT !.step = "order", !.slot = "yes", !.clock = 0]]
    BY <2>1, <2>2, <2>5 DEF C!Free
  <2>6. CASE UNCHANGED <<slot, fanned>>
             /\ order' = [order EXCEPT ![n] = [@ EXCEPT !.step = "order", !.clock = 0]]
    BY <2>1, <2>3, <2>4, <2>6
  <2> QED
    BY <1>2, <2>5, <2>6 DEF C!AcquireSlot
<1>3. ASSUME NEW n \in Holder, C!Publish(n)  PROVE C!GrantOutlivesOrder'
  BY <1>3 DEF C!Publish
<1>4. ASSUME NEW n \in Holder, C!Validated(n)  PROVE C!GrantOutlivesOrder'
  BY <1>4 DEF C!Validated
<1>5. ASSUME NEW n \in Holder, C!OrderFails(n)  PROVE C!GrantOutlivesOrder'
  <2>1. \A h \in Holder \ {n} : slot.node = h => slot' = slot
    BY <1>5, GivenBack DEF C!OrderFails
  <2> QED
    BY <1>5, <2>1 DEF C!OrderFails
<1>6. ASSUME NEW n \in Holder, C!Save(n)  PROVE C!GrantOutlivesOrder'
  BY <1>6 DEF C!Save
<1>7. ASSUME NEW n \in Holder, C!Switch(n)  PROVE C!GrantOutlivesOrder'
  <2>1. \A h \in Holder \ {n} : slot.node = h => slot' = slot
    BY <1>7, GivenBack DEF C!Switch
  <2> QED
    BY <1>7, <2>1 DEF C!Switch
<1>8. ASSUME NEW n \in Holder, C!Killed(n)  PROVE C!GrantOutlivesOrder'
  BY <1>8 DEF C!Killed
<1>9. CASE C!BrainRestarts
  BY <1>9, BrainForgets
<1>10. CASE C!Weather
  BY <1>10 DEF C!Weather
<1>11. CASE C!Tick
  <2> SUFFICES ASSUME NEW n \in Holder
               PROVE  /\ C!Ordering(n)' => order'[n].clock \in {0, 1}
                      /\ order'[n].slot = "yes" =>
                           /\ C!Ordering(n)' /\ slot'.node = n
                           /\ slot'.left + order'[n].clock > 1
                      /\ order'[n].step = "validate" /\ order'[n].shared = "yes" =>
                           fanned'[n] + order'[n].clock > 1
    OBVIOUS
  <2>1. CASE C!Ordering(n)
    <3>1. order'[n] = [order[n] EXCEPT !.clock = 1] /\ order[n].clock = 0
      BY <1>11, <2>1 DEF C!Tick
    <3>0. slot'.left \in Nat /\ fanned'[n] \in Nat /\ order[n] \in C!Orders
      BY CertsTyped
    <3>2. order[n].slot = "yes" => slot'.node = n /\ slot'.left > 0
      BY <1>11, <2>1, <3>1 DEF C!Tick
    <3>3. order[n].step = "validate" /\ order[n].shared = "yes" => fanned'[n] > 0
      BY <1>11, <2>1, <3>1 DEF C!Tick, C!Less
    <3> QED
      BY <2>1, <3>0, <3>1, <3>2, <3>3 DEF C!Orders
  <2>2. CASE ~C!Ordering(n)
    <3>1. order'[n].step = order[n].step /\ order'[n].slot = order[n].slot
      BY <1>11, <2>2 DEF C!Tick
    <3> QED
      BY <2>2, <3>1
  <2> QED
    BY <2>1, <2>2
<1>12. CASE UNCHANGED C!vars
  BY <1>12 DEF C!vars
<1> QED
  BY <1>1, <1>2, <1>3, <1>4, <1>5, <1>6, <1>7, <1>8, <1>9, <1>10, <1>11, <1>12
  DEF C!Next, C!Attempt

\* The link is switched to a set that is already whole, and a killed node finds what
\* it last said it had.
LEMMA CertsStored ==
  ASSUME C!AcmeAssumption, C!IInv, [C!Next]_C!vars
  PROVE  C!CertificateWhole' /\ C!StoreTyped'
<1> USE DEF C!IInv, C!TypeOK, C!CertificateWhole, C!StoreTyped, C!NoOrder
<1>1. ASSUME NEW n \in Holder, \/ C!Start(n) \/ C!AcquireSlot(n) \/ C!Publish(n)
                               \/ C!Validated(n) \/ C!OrderFails(n)
      PROVE  /\ UNCHANGED <<store, cert>>
             /\ \A h \in Holder : order'[h].step = "switch" => order[h].step = "switch"
  <2>1. UNCHANGED <<store, cert>> /\ \A h \in Holder \ {n} : order'[h] = order[h]
    BY <1>1 DEF C!Start, C!AcquireSlot, C!Publish, C!Validated, C!OrderFails
  <2>2. order \in [Holder -> C!Orders]
    OBVIOUS
  <2>4. CASE C!Start(n)
    BY <2>1, <2>2, <2>4 DEF C!Start
  <2>5. CASE C!OrderFails(n)
    BY <2>1, <2>2, <2>5 DEF C!OrderFails
  <2>6. CASE C!Validated(n)
    BY <2>2, <2>6 DEF C!Validated, C!Orders
  <2>7. CASE C!AcquireSlot(n)
    <3>1. \A x \in {"yes", order[n].slot} :
            [order[n] EXCEPT !.step = "order", !.slot = x, !.clock = 0].step # "switch"
      BY <2>2 DEF C!Orders
    <3>2. [order[n] EXCEPT !.step = "order", !.clock = 0].step # "switch"
      BY <2>2 DEF C!Orders
    <3> QED
      BY <2>2, <2>7, <3>1, <3>2 DEF C!AcquireSlot
  <2>8. CASE C!Publish(n)
    <3>1. \A x : [order[n] EXCEPT !.step = "validate", !.shared = x].step # "switch"
      BY <2>2 DEF C!Orders
    <3> QED
      BY <2>2, <2>8, <3>1 DEF C!Publish
  <2> QED
    BY <1>1, <2>4, <2>5, <2>6, <2>7, <2>8
<1>2. ASSUME NEW n \in Holder, C!Save(n)  PROVE C!CertificateWhole' /\ C!StoreTyped'
  <2>1. /\ store' = [store EXCEPT ![n] = [store[n] EXCEPT !.whole = store[n].whole \cup {"new"}]]
        /\ UNCHANGED cert /\ \A h \in Holder \ {n} : order'[h] = order[h]
    BY <1>2 DEF C!Save, C!SaveNext
  <2> QED
    BY <2>1
<1>3. ASSUME NEW n \in Holder, C!Switch(n)  PROVE C!CertificateWhole' /\ C!StoreTyped'
  <2>1. /\ store' = [store EXCEPT ![n] = [store[n] EXCEPT !.current = "new"]]
        /\ cert' = [cert EXCEPT ![n] = "fresh"] /\ order[n].step = "switch"
        /\ order'[n].step = "idle" /\ \A h \in Holder \ {n} : order'[h] = order[h]
    BY <1>3 DEF C!Switch, C!SaveNext
  <2> QED
    BY <2>1
<1>4. ASSUME NEW n \in Holder, C!Killed(n)  PROVE C!CertificateWhole' /\ C!StoreTyped'
  <2>1. /\ UNCHANGED store /\ order'[n].step = "idle"
        /\ \A h \in Holder \ {n} : order'[h] = order[h] /\ cert'[h] = cert[h]
    BY <1>4 DEF C!Killed
  <2>2. cert'[n] = "fresh" <=> store[n].current = "new"
    BY <1>4 DEF C!Killed
  <2> QED
    BY <2>1, <2>2
<1>5. CASE C!BrainRestarts
  BY <1>5, BrainForgets
<1>6. CASE C!Weather
  BY <1>6 DEF C!Weather
<1>7. CASE C!Tick
  BY <1>7 DEF C!Tick
<1>8. CASE UNCHANGED C!vars
  BY <1>8 DEF C!vars
<1> QED
  BY <1>1, <1>2, <1>3, <1>4, <1>5, <1>6, <1>7, <1>8 DEF C!Next, C!Attempt

\* Every step keeps the invariant.
LEMMA CertsStep ==
  ASSUME C!AcmeAssumption, C!IInv, [C!Next]_C!vars
  PROVE  C!IInv'
  BY CertsTyped, CertsGrant, CertsStored DEF C!IInv

\* The slot serialises the granted orders, and their challenges are in the documents.
LEMMA CertsGranted ==
  ASSUME C!IInv
  PROVE  C!OneGrantedOrder
<1>1. ASSUME NEW n \in Holder, order[n].step = "validate", order[n].shared = "yes"
      PROVE  fanned[n] > 0
  BY <1>1 DEF C!IInv, C!GrantOutlivesOrder, C!Ordering, C!TypeOK
<1>2. ASSUME NEW n \in Holder, order[n].slot = "yes"  PROVE slot.node = n
  BY <1>2 DEF C!IInv, C!GrantOutlivesOrder
<1> QED
  BY <1>1, <1>2 DEF C!OneGrantedOrder

---------------------------------------------------------------------------
(* The fleet.                                                              *)

\* The invariant of the fleet: those of its parts.
FleetInv == N!IInv /\ A!IInv /\ L!IInv /\ C!IInv

\* Every part starts in its invariant.
LEMMA FleetInit ==
  ASSUME Init
  PROVE  FleetInv
<1>1. N!Init /\ A!Init /\ L!Init /\ C!Init
  BY DEF Init
<1> QED
  BY <1>1, FleetAssumption, NodesInit, AgentInit, LinksInit, CertsInit DEF FleetAssumption, FleetInv

\* A step of the fleet is, for each part, a step of that part or none.
LEMMA FleetMoves ==
  ASSUME [Next]_vars
  PROVE  [N!Next]_N!vars /\ [A!Next]_A!vars /\ [L!Next]_L!vars /\ [C!Next]_C!vars
<1> USE DEF nodeVars, agentVars, linkVars, certVars
<1>1. UNCHANGED nodeVars => UNCHANGED N!vars
  BY DEF N!vars, N!nodeVars
<1>2. UNCHANGED agentVars => UNCHANGED A!vars
  BY DEF A!vars, A!brainVars, A!agentVars
<1>3. UNCHANGED linkVars => UNCHANGED L!vars
  BY DEF L!vars, L!kernel
<1>4. UNCHANGED certVars => UNCHANGED C!vars
  BY DEF C!vars
<1> HIDE DEF nodeVars, agentVars, linkVars, certVars
<1>5. CASE Nodes
  BY <1>2, <1>3, <1>4, <1>5 DEF Nodes
<1>6. CASE Agent
  BY <1>1, <1>3, <1>4, <1>6 DEF Agent
<1>7. CASE Links
  BY <1>1, <1>2, <1>4, <1>7 DEF Links
<1>8. CASE Certs
  BY <1>1, <1>2, <1>3, <1>8 DEF Certs
<1>9. CASE UNCHANGED vars
  BY <1>1, <1>2, <1>3, <1>4, <1>9 DEF vars
<1> QED
  BY <1>5, <1>6, <1>7, <1>8, <1>9 DEF Next

\* Every step of the fleet keeps the invariant of every part.
LEMMA FleetStep ==
  ASSUME FleetInv, [Next]_vars
  PROVE  FleetInv'
  BY FleetAssumption, FleetMoves, NodesStep, AgentStep, LinksStep, CertsStep
  DEF FleetAssumption, FleetInv

\* The fleet's invariant holds of every behaviour.
THEOREM FleetInvariant == Spec => []FleetInv
<1>1. Init => FleetInv
  BY FleetInit
<1>2. FleetInv /\ [Next]_vars => FleetInv'
  BY FleetStep
<1> QED
  BY <1>1, <1>2, PTL DEF Spec

\* The victim's traffic goes where its ban says, whichever announce of a move or a
\* degradation failed, and through any reload (relocateBanLocked).
THEOREM RouteFollowed == Spec => []RouteFollowsBan
<1>1. FleetInv => RouteFollowsBan
  BY DEF FleetInv, RouteFollowsBan, N!IInv
<1> QED
  BY <1>1, FleetInvariant, PTL

\* A ban leaves a node only when the node has been silent for stale_after with no poll
\* open, and diverting is given up only when every eligible node has (nodeLost).
THEOREM MovedOffLostNodes == Spec => MovedOnlyWhenLost
<1>1. FleetInv /\ [Next]_vars =>
        (N!Sweep /\ held.method = "divert" /\ held' # held /\ ~conf.whitelisted =>
           /\ held.node \in conf.nodes => N!Gone(held.node)
           /\ held'.method # "divert" => \A n \in conf.eligible : N!Gone(n))
  BY FleetAssumption, SweepMovesLost DEF FleetAssumption, FleetInv
<1> QED
  BY <1>1, FleetInvariant, PTL DEF Spec, MovedOnlyWhenLost, N!MovedOnlyWhenLost

\* A held poll is parked only on what the brain serves, or is already woken: no change
\* falls between the read of the table and the wait (handleDataplaneRules).
THEOREM SleeperHears == Spec => []SleeperWillHear
<1>1. FleetInv => SleeperWillHear
  BY DEF FleetInv, SleeperWillHear, A!IInv
<1> QED
  BY <1>1, FleetInvariant, PTL

\* What an idle agent last applied is what its kernel does, over restarts and kernel
\* failures, and no rule outlives the latest deadline the brain set (scrub/agent apply).
THEOREM NodeEnforces == Spec => []NodeEnforcesDocument
<1>1. FleetInv => NodeEnforcesDocument
  BY FleetAssumption, AgentPromises DEF FleetAssumption, FleetInv, NodeEnforcesDocument
<1> QED
  BY <1>1, FleetInvariant, PTL

\* An interface called attached is filtered by this manager's maps in an accepted mode;
\* none is called attached on a stale link; and only the operator, another mode or
\* another build takes the filter from one whose device stays (attachLocked, load).
THEOREM NoGapOpened == Spec => NoUnfilteredGap
<1>1. FleetInv => L!TypeOK /\ L!FilteredByOwnMaps
  BY DEF FleetInv, L!IInv
<1>2. FleetInv /\ [Next]_vars =>
        \A i \in Iface : att'[i].on /\ ~att[i].on => link'[i].index = dev'[i]
  BY FleetAssumption, FleetMoves, OnlyAttemptsAttach DEF FleetAssumption, FleetInv
<1>3. FleetInv /\ [Next]_vars =>
        \A i \in Iface :
          L!Filtered(i) /\ dev'[i] = dev[i] /\ link'[i].index # dev[i] =>
            \/ L!CloseDetach
            \/ L!Open /\ objs' # pins
            \/ i \notin named
            \/ mode \notin {AutoMode, link[i].mode}
  BY FleetAssumption, FleetMoves, OnlyAskedForGaps DEF FleetAssumption, FleetInv
<1> QED
  BY <1>1, <1>2, <1>3, FleetInvariant, PTL
  DEF Spec, NoUnfilteredGap, L!AttachedFilters, L!RestartLeavesNoGap

\* At most one of the nodes the brain granted a zone to is ordering, with its challenge
\* in every document while the CA validates; and `current` names a whole set at every
\* step of a switch (edge_acme, store.save).
THEOREM CertificatesKept == Spec => []CertificatesSafe
<1>1. FleetInv => CertificatesSafe
  BY CertsGranted DEF FleetInv, C!IInv, CertificatesSafe
<1> QED
  BY <1>1, FleetInvariant, PTL
=============================================================================
