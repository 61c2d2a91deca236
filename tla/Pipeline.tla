------------------------------ MODULE Pipeline ------------------------------
(***************************************************************************)
(* Detection and the Mitigator joined as app.go joins them: consumeEvents   *)
(* takes lifecycle events and consumeOngoing takes heartbeats, each on its  *)
(* own goroutine and from its own channel; the API serves the operator; the *)
(* sweeper runs on its ticker.  A consumer takes an event and reads the     *)
(* configuration in one step and enters the mutex in another.               *)
(***************************************************************************)
EXTENDS Integers, Sequences, FiniteSets

CONSTANTS
  Host, Prefix, Members, Span, Config, NoConfig, Horizon, MayFail,
  Outgoing, Hysteresis, EventCap,
  Lifecycle, Heartbeats, Api, Sweeper,  \* the goroutines
  NoEvent,                              \* a consumer between two events
  Prompt                                \* consumers keep up with the ticker

VARIABLES
  cfg, held, ban, env, winAge, winCount,                    \* Mitigator
  tickCfg, pending, attack, events, ongoing, lostEnd,       \* Detection
  task,       \* task[w]: the event consumer w has in hand
  promised    \* promised[s]: the attack on s was answered with an active ban,
              \* and since then it has not ended, none of its heartbeats was
              \* dropped or refused for a whitelisted host in its prefix, and
              \* neither policy nor the operator lifted the ban

Consumer == {Lifecycle, Heartbeats}
Worker   == {Lifecycle, Heartbeats, Api}

M == INSTANCE Mitigator
D == INSTANCE Detection

ASSUME PipelineAssumption ==
  /\ M!TargetAssumption /\ M!CallerAssumption /\ M!ConfigAssumption
  /\ Lifecycle # Heartbeats /\ Api \notin Consumer /\ NoEvent \notin D!Event
  /\ Hysteresis \in Nat /\ EventCap \in Nat \ {0}
  /\ Outgoing \in BOOLEAN /\ Prompt \in BOOLEAN

Subject == D!Subject
mitVars == <<cfg, held, ban, env, winAge, winCount>>
detVars == <<tickCfg, pending, attack, events, ongoing, lostEnd>>
vars == <<mitVars, detVars, task, promised>>

On(s) == attack[s].on
Of(h) == {s \in Subject : s.target = h}

---------------------------------------------------------------------------
(* Consumers.                                                              *)

\* Wrong variant: a handler works under the configuration of the engine's pass.
TakeWithEvent(w, e) ==
  /\ task[w] = NoEvent
  /\ \/ /\ e.kind # "ended" /\ e.banEnabled
        /\ held' = [held EXCEPT ![w] = IF tickCfg = NoConfig THEN cfg ELSE tickCfg]
        /\ task' = [task EXCEPT ![w] = e]
        /\ UNCHANGED <<cfg, ban, env, winAge, winCount>>
     \/ /\ e.kind = "ended"
        /\ task' = [task EXCEPT ![w] = e]
        /\ UNCHANGED mitVars
     \/ /\ e.kind # "ended" /\ ~e.banEnabled
        /\ UNCHANGED <<task, mitVars>>
  /\ UNCHANGED promised

\* A start, or a heartbeat, whose policy allows a ban goes on to read the
\* configuration; OnAttackEnded reads none; the rest return at once.
Take(w, e) ==
  /\ task[w] = NoEvent
  /\ \/ /\ e.kind # "ended" /\ e.banEnabled
        /\ M!Begin(w)
        /\ task' = [task EXCEPT ![w] = e]
     \/ /\ e.kind = "ended"
        /\ task' = [task EXCEPT ![w] = e]
        /\ UNCHANGED mitVars
     \/ /\ e.kind # "ended" /\ ~e.banEnabled
        /\ UNCHANGED <<task, mitVars>>
  /\ UNCHANGED promised

TakeEvent     == D!TakeEvent /\ Take(Lifecycle, Head(events))
TakeHeartbeat == D!TakeOngoing /\ Take(Heartbeats, Head(ongoing))

Finished(w) == task' = [task EXCEPT ![w] = NoEvent] /\ UNCHANGED detVars

\* The event the consumer holds, of the given kind, and its subject.
Holds(w, kind, s) == task[w] # NoEvent /\ task[w].kind = kind /\ task[w].subject = s

HandleStarted(s) ==
  /\ Holds(Lifecycle, "started", s)
  /\ \/ s.target \in Host /\ M!OnAttackStarted(Lifecycle, s.target, s.dir)
     \/ s.target \in Prefix /\ M!OnCarpetStarted(Lifecycle, s.target)
  /\ promised' = [promised EXCEPT ![s] =
       /\ On(s) /\ D!BanEnabled(s, held[Lifecycle])
       /\ M!Allowed(s.target, held[Lifecycle]) /\ ban'[s.target].active]
  /\ Finished(Lifecycle)

\* Wrong variant: the end of an attack is ignored once banning is disabled.
HandleEndedIfEnabled(s) ==
  /\ Holds(Lifecycle, "ended", s)
  /\ \/ s.target \in Host /\ task[Lifecycle].banEnabled
        /\ M!OnAttackEnded(s.target, s.dir)
     \/ s.target \in Prefix /\ M!OnCarpetEnded(s.target)
     \/ (~ban[s.target].active \/ ~task[Lifecycle].banEnabled)
        /\ UNCHANGED mitVars
  /\ UNCHANGED promised
  /\ Finished(Lifecycle)

HandleEnded(s) ==
  /\ Holds(Lifecycle, "ended", s)
  /\ \/ s.target \in Host /\ M!OnAttackEnded(s.target, s.dir)
     \/ s.target \in Prefix /\ M!OnCarpetEnded(s.target)
     \/ ~ban[s.target].active /\ UNCHANGED mitVars
  /\ UNCHANGED promised
  /\ Finished(Lifecycle)

HandleHeartbeat(s) ==
  /\ Holds(Heartbeats, "ongoing", s)
  /\ \/ s.target \in Host /\ M!OnAttackOngoing(Heartbeats, s.target, s.dir)
     \/ s.target \in Prefix /\ M!OnCarpetOngoing(Heartbeats, s.target)
  /\ promised' = [promised EXCEPT ![s] =
       @ /\ (s.target \in Prefix => ~M!Spared(s.target, held[Heartbeats]))]
  /\ Finished(Heartbeats)

---------------------------------------------------------------------------
(* The engine, the operator, the sweeper, the clock.                       *)

Evaluate(s) ==
  /\ \E exceeded \in BOOLEAN : D!Evaluate(s, exceeded)
  /\ promised' = [promised EXCEPT ![s] =
       @ /\ attack'[s].on /\ D!BanEnabled(s, tickCfg) /\ Len(ongoing) < EventCap]
  /\ UNCHANGED <<mitVars, task>>

OperatorBans(h) ==
  /\ M!ManualBan(Api, h)
  /\ UNCHANGED <<detVars, task, promised>>

OperatorUnbans(h) ==
  /\ M!ManualUnban(h)
  /\ promised' = [s \in Subject |-> promised[s] /\ s.target # h]
  /\ UNCHANGED <<detVars, task>>

CallBegins ==
  /\ \E w \in {Api, Sweeper} : M!Begin(w)
  /\ UNCHANGED <<detVars, task, promised>>

\* Policy lifts a ban whose target left the networks, or a prefix that now
\* holds a whitelisted host.
StillProtected(t, c) == t \in c.networks /\ (t \in Prefix => ~M!Spared(t, c))
Sweep ==
  /\ M!Sweep
  /\ promised' = [s \in Subject |-> promised[s] /\ StillProtected(s.target, held[Sweeper])]
  /\ UNCHANGED <<detVars, task>>

Reload == M!Reload /\ UNCHANGED <<detVars, task, promised>>

\* A consumer that keeps up has emptied its channel before the next second.
Drained == \A w \in Consumer : task[w] = NoEvent /\ events = <<>> /\ ongoing = <<>>

\* One second passes and the engine's ticker starts the next pass.
Tick ==
  /\ Prompt => Drained
  /\ M!Tick
  /\ D!BeginTick
  /\ UNCHANGED <<task, promised>>

Init ==
  /\ M!Init
  /\ D!DetInit
  /\ task = [w \in Consumer |-> NoEvent]
  /\ promised = [s \in Subject |-> FALSE]

Next ==
  \/ TakeEvent
  \/ TakeHeartbeat
  \/ \E s \in Subject : HandleStarted(s)
  \/ \E s \in Subject : HandleEnded(s)
  \/ \E s \in Subject : HandleHeartbeat(s)
  \/ \E s \in Subject : Evaluate(s)
  \/ \E h \in Host : OperatorBans(h)
  \/ \E h \in Host : OperatorUnbans(h)
  \/ CallBegins
  \/ Sweep
  \/ Reload
  \/ Tick

Spec == Init /\ [][Next]_vars

\* Every loop keeps running: the tickers, both consumers, the sweep.
Fairness ==
  /\ WF_vars(Tick) /\ WF_vars(\E s \in Subject : Evaluate(s))
  /\ WF_vars(M!Begin(Sweeper) /\ UNCHANGED <<detVars, task, promised>>)
  /\ WF_vars(Sweep)
  /\ WF_vars(TakeEvent) /\ WF_vars(\E s \in Subject : HandleStarted(s) \/ HandleEnded(s))
  /\ WF_vars(TakeHeartbeat) /\ WF_vars(\E s \in Subject : HandleHeartbeat(s))
FairSpec == Spec /\ Fairness

---------------------------------------------------------------------------
(* Properties.                                                             *)

TypeOK ==
  /\ M!TypeOK
  /\ D!DetTypeOK
  /\ task \in [Consumer -> D!Event \cup {NoEvent}]
  /\ promised \in [Subject -> BOOLEAN]

\* An attack answered with a ban stays banned for as long as the engine sees it,
\* however long that is: the ttl, the end of the host's other direction, a late
\* or dropped event and the sweep never take its ban down (OnAttackOngoing,
\* emitHostOngoing: the hysteresis tail counts as attack).
MitigatedUntilOver ==
  /\ TypeOK
  /\ \A s \in Subject : promised[s] /\ On(s) => ban[s.target].active

\* A host ban comes down only because its ttl ran out, its host left the
\* networks, the operator lifted it, or the last attack on it ended: one
\* direction's end never releases what the other direction, or the operator of
\* a manual ban, still holds (OnAttackEnded).
HeldUntilReleased ==
  [][\A h \in Host :
       ban[h].active /\ ~ban'[h].active =>
         \/ ban[h].left < 0
         \/ held[Sweeper] # NoConfig /\ h \notin held[Sweeper].networks
         \/ OperatorUnbans(h)
         \/ ~ban[h].manual /\ ~\E s \in Of(h) : promised[s] /\ On(s)]_vars

\* The consumers have nothing left to do.
Idle == Drained /\ pending = {}

\* A ban no operator holds is down as soon as the end of its host's last
\* attack has been handled, not a ttl later, also when a reload disabled
\* banning meanwhile ("a host attacked and attacking at once keeps its ban
\* until both attacks end"); a dropped end event is left to the ttl.
ReleasedAtEnd ==
  Idle =>
    \A t \in Host \cup Prefix :
      ban[t].active /\ ~ban[t].manual /\ Of(t) \cap lostEnd = {}
        => \E s \in Of(t) : On(s)

\* Whatever was dropped, a ban whose target is no longer attacked and whose
\* operator is silent comes down.
ComesDownAfterAttack ==
  \A t \in Host \cup Prefix :
    \/ []<>(~ban[t].active)
    \/ \E s \in Of(t) : []<>On(s)
    \/ []<>(held[Api] # NoConfig)

\* What makes the three of them inductive when the consumers keep up: a pass keeps the
\* configuration it began with; what is on its way about a subject was emitted since the
\* tick, so the attack is still as it says; a promised ban has its ttl ahead, or its next
\* heartbeat is to come; and a ban is held by an attack that is on, or whose end is on its
\* way or was dropped.
Passing == pending # {} => tickCfg \in Config

Awaited(e) == e = task[Lifecycle] \/ \E i \in 1..Len(events) : events[i] = e
Beating(s) == \/ \E i \in 1..Len(ongoing) : ongoing[i].subject = s
              \/ task[Heartbeats] # NoEvent /\ task[Heartbeats].subject = s

EventsTrue ==
  \A e \in D!Event : Awaited(e) =>
    e.kind # "ongoing" /\ e.subject \notin pending /\ (On(e.subject) <=> e.kind = "started")
BeatsTrue ==
  /\ \A i \in 1..Len(ongoing) : ongoing[i].kind = "ongoing" /\ ongoing[i].banEnabled
  /\ task[Heartbeats] # NoEvent => task[Heartbeats].kind = "ongoing"
  /\ \A s \in Subject : Beating(s) => On(s) /\ s \notin pending

Promises ==
  \A s \in Subject : promised[s] =>
    LET b == ban[s.target]
    IN /\ On(s) /\ b.active /\ b.left >= 0 /\ (s.target \in Host => s.dir \in b.dirs)
       /\ b.left >= 1 \/ s \in pending \/ Beating(s)

EndComes(s) == \E e \in D!Event : e.kind = "ended" /\ e.subject = s /\ Awaited(e)
Holding(s)  == On(s) \/ s \in lostEnd \/ EndComes(s)
Holders ==
  /\ \A h \in Host : ban[h].active =>
       /\ ban[h].manual \/ ban[h].dirs # {}
       /\ \A d \in ban[h].dirs : \E s \in Of(h) : s.dir = d /\ Holding(s)
  /\ \A p \in Prefix : ban[p].active => \E s \in Of(p) : Holding(s)

PromptInv == TypeOK /\ Passing /\ EventsTrue /\ BeatsTrue /\ Promises /\ Holders

\* What the Mitigator does under the pipeline is what its specification allows,
\* so everything shown of the Mitigator alone holds here (the handlers read the
\* live configuration, whatever the engine evaluated under).
ImplementsMitigator == M!Spec
=============================================================================
