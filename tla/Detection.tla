----------------------------- MODULE Detection -----------------------------
(***************************************************************************)
(* The attack lifecycle of engine/internal/engine/engine.go: once a second  *)
(* evalTick looks at every host and direction and at every carpet prefix,   *)
(* opens and closes attacks with hysteresis, and emits lifecycle events and *)
(* heartbeats on two bounded channels that drop when full.                  *)
(*                                                                         *)
(* Rates, thresholds and baselines are abstracted to whether the subject    *)
(* exceeds them this second.  One tick is one Evaluate step per subject,    *)
(* since the consumers run while evalTick walks the hosts.                  *)
(***************************************************************************)
EXTENDS Integers, Sequences

CONSTANTS
  Host, Prefix, Config, NoConfig,
  Outgoing,     \* whether the groups have outgoing thresholds
  Hysteresis,   \* ban.unban_hysteresis, in seconds
  EventCap      \* capacity of either event channel

\* What an attack is tracked for: a host in each detected direction, a carpet
\* prefix in the incoming one.
Subject == [target : Host, dir : IF Outgoing THEN {"in", "out"} ELSE {"in"}]
           \cup [target : Prefix, dir : {"in"}]
Event   == [kind : {"started", "ended", "ongoing"}, subject : Subject, banEnabled : BOOLEAN]

VARIABLES
  cfg,        \* the Store's live configuration
  tickCfg,    \* the configuration evalTick read, NoConfig between two ticks
  pending,    \* subjects evalTick has not reached yet
  attack,     \* attack[s]: attackState, as [on, below]
  events,     \* the lifecycle channel
  ongoing,    \* the heartbeat channel
  lostEnd     \* subjects whose AttackEnded was dropped (EventsDroppedTotal)

\* below counts the consecutive evaluations under threshold, 0 while belowSince
\* is unset.
Quiet == [on |-> FALSE, below |-> 0]

\* Policy may stop applying to a host, never to a carpet prefix.
Watched(s, c) ==
  s.target \in Host => s.target \in c.networks /\ s.target \notin c.whitelist

BanEnabled(s, c) ==
  IF s.target \in Host THEN c.banEnabled ELSE c.carpet # "alert"

\* Wrong variant: the channel is taken to be large enough.
EmittedAlways(queue, kind, s, enabled) ==
  Append(queue, [kind |-> kind, subject |-> s, banEnabled |-> enabled])

\* emit and emitOngoing: a full channel drops the event.
Emitted(queue, kind, s, enabled) ==
  IF Len(queue) < EventCap
  THEN Append(queue, [kind |-> kind, subject |-> s, banEnabled |-> enabled])
  ELSE queue

\* A host's directions are evaluated in order, and the carpets last.
Reached(s) ==
  /\ s \in pending
  /\ s.dir = "out" => [s EXCEPT !.dir = "in"] \notin pending
  /\ s.target \in Prefix => \A r \in pending : r.target \in Prefix

StartAttack(s) ==
  /\ attack' = [attack EXCEPT ![s] = [on |-> TRUE, below |-> 0]]
  /\ events' = Emitted(events, "started", s, BanEnabled(s, tickCfg))
  /\ lostEnd' = lostEnd \ {s}
  /\ UNCHANGED ongoing

EndAttack(s) ==
  /\ attack' = [attack EXCEPT ![s] = Quiet]
  /\ events' = Emitted(events, "ended", s, s.target \in Host /\ BanEnabled(s, tickCfg))
  /\ lostEnd' = IF Len(events) < EventCap THEN lostEnd ELSE lostEnd \cup {s}
  /\ UNCHANGED ongoing

\* Wrong variant: no heartbeats in the hysteresis tail.
KeepAttackWhileOver(s, below) ==
  /\ attack' = [attack EXCEPT ![s].below = below]
  /\ ongoing' = IF BanEnabled(s, tickCfg) /\ below = 0
                THEN Emitted(ongoing, "ongoing", s, TRUE) ELSE ongoing
  /\ UNCHANGED <<events, lostEnd>>

\* Still over the threshold, or below it for less than the hysteresis.
KeepAttack(s, below) ==
  /\ attack' = [attack EXCEPT ![s].below = below]
  /\ ongoing' = IF BanEnabled(s, tickCfg)
                THEN Emitted(ongoing, "ongoing", s, TRUE) ELSE ongoing
  /\ UNCHANGED <<events, lostEnd>>

Evaluate(s, exceeded) ==
  LET a == attack[s]
  IN /\ Reached(s)
     /\ pending' = pending \ {s}
     /\ tickCfg' = IF pending' = {} THEN NoConfig ELSE tickCfg
     /\ \/ /\ ~Watched(s, tickCfg) /\ a.on
           /\ EndAttack(s)
        \/ /\ Watched(s, tickCfg) /\ ~a.on /\ exceeded
           /\ StartAttack(s)
        \/ /\ Watched(s, tickCfg) /\ a.on /\ (exceeded \/ a.below < Hysteresis)
           /\ KeepAttack(s, IF exceeded THEN 0 ELSE a.below + 1)
        \/ /\ Watched(s, tickCfg) /\ a.on /\ ~exceeded /\ a.below >= Hysteresis
           /\ EndAttack(s)
        \/ /\ ~a.on /\ ~(Watched(s, tickCfg) /\ exceeded)
           /\ UNCHANGED <<attack, events, ongoing, lostEnd>>

\* The ticker fires: a new pass over every subject under the live policy.
BeginTick ==
  /\ pending = {}
  /\ pending' = Subject
  /\ tickCfg' = cfg
  /\ UNCHANGED <<attack, events, ongoing, lostEnd>>

TakeEvent   == events # <<>>  /\ events' = Tail(events)
                              /\ UNCHANGED <<tickCfg, pending, attack, ongoing, lostEnd>>
TakeOngoing == ongoing # <<>> /\ ongoing' = Tail(ongoing)
                              /\ UNCHANGED <<tickCfg, pending, attack, events, lostEnd>>

DetInit ==
  /\ tickCfg = NoConfig
  /\ pending = {}
  /\ attack = [s \in Subject |-> Quiet]
  /\ events = <<>>
  /\ ongoing = <<>>
  /\ lostEnd = {}

DetTypeOK ==
  /\ tickCfg \in Config \cup {NoConfig}
  /\ pending \subseteq Subject
  /\ attack \in [Subject -> [on : BOOLEAN, below : 0..Hysteresis]]
  /\ events \in Seq(Event) /\ Len(events) <= EventCap
  /\ ongoing \in Seq(Event) /\ Len(ongoing) <= EventCap
  /\ lostEnd \subseteq Subject
=============================================================================
