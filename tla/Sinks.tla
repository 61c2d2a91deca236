-------------------------------- MODULE Sinks --------------------------------
(***************************************************************************)
(* Where an attack is told: the consumer of lifecycle events hands each to  *)
(* the API's attack table, to the notification channels and to the history  *)
(* writer (app.go, api.go, notify.go, storage.go).  Nothing here may hold   *)
(* detection up, so every hand-over is bounded and drops when it is full;   *)
(* and what was not dropped must arrive once, through a database that fails *)
(* and a shutdown that must flush last.                                    *)
(***************************************************************************)
EXTENDS Integers, FiniteSets, Sequences, SequencesExt

CONSTANTS
  Attack, Audit,      \* attacks, and operator actions the API records
  Channel,            \* configured notification channels
  EventCap,           \* buffered lifecycle events
  QueueSize, BatchSize, MaxRecent, MaxSlots

SinksAssumption ==
  /\ EventCap \in Nat \ {0} /\ QueueSize \in Nat \ {0} /\ BatchSize \in Nat \ {0}
  /\ MaxRecent \in Nat \ {0} /\ MaxSlots \in Nat \ {0} /\ Attack \cap Audit = {}

Tables == {"attacks", "audit"}
Started(a) == [table |-> "attacks", id |-> a, version |-> 1]
Ended(a) == [table |-> "attacks", id |-> a, version |-> 2]
Audited(x) == [table |-> "audit", id |-> x, version |-> 1]
Rows == {Started(a) : a \in Attack} \cup {Ended(a) : a \in Attack} \cup {Audited(x) : x \in Audit}

VARIABLES
  phase,            \* "up" | "stopping" | "draining" | "down"
  engine,           \* what the engine has said of each attack
  events,           \* its lifecycle buffer
  active, recent,   \* the API's attack table
  open,             \* attacks with a history row to complete (attackHistory)
  queue, batch, sending,   \* the writer
  db, refused, dropped,    \* how often a row arrived; and what was counted lost
  asked,            \* rows some producer handed over (ghost)
  slots,            \* deliveries in flight
  reading, shown    \* a GET /attacks between its two reads, and what it has so far

writer == <<queue, batch, sending, db, refused, dropped, asked>>
table == <<active, recent, open>>
reader == <<reading, shown>>
vars == <<phase, engine, events, table, writer, slots, reader>>

---------------------------------------------------------------------------
(* Handing over.                                                           *)

\* enqueue: a full queue drops the row and counts it.
Enqueued(r) ==
  /\ asked' = asked \cup {r}
  /\ IF Len(queue) < QueueSize THEN queue' = Append(queue, r) /\ UNCHANGED dropped
     ELSE dropped' = dropped \cup {r} /\ UNCHANGED queue
  /\ UNCHANGED <<batch, sending, db, refused>>

\* launch, for every channel: a worker slot, or the notification is dropped.
Dispatched == slots' = [c \in Channel |-> IF slots[c] < MaxSlots THEN slots[c] + 1 ELSE slots[c]]

\* RecordAttackEnded: the ring keeps the last MaxRecent.
Kept(s) == IF Len(s) > MaxRecent THEN Tail(s) ELSE s

---------------------------------------------------------------------------
(* The engine and its consumer.                                            *)

\* A full buffer drops the event; the engine goes on either way.
Emit(a) ==
  /\ phase = "up" /\ engine[a] \in {"quiet", "started"}
  /\ engine' = [engine EXCEPT ![a] = IF @ = "quiet" THEN "started" ELSE "ended"]
  /\ events' = IF Len(events) < EventCap
               THEN Append(events, [kind |-> engine'[a], id |-> a]) ELSE events
  /\ UNCHANGED <<phase, table, writer, slots, reader>>

ConsumeStarted ==
  LET a == Head(events).id
  IN /\ phase \in {"up", "stopping"} /\ events # <<>> /\ Head(events).kind = "started"
     /\ events' = Tail(events)
     /\ active' = active \cup {a} /\ open' = open \cup {a}
     /\ Dispatched /\ Enqueued(Started(a))
     /\ UNCHANGED <<phase, engine, recent, reader>>

\* Without a row of its own start the end is told but not stored.
ConsumeEnded ==
  LET a == Head(events).id
  IN /\ phase \in {"up", "stopping"} /\ events # <<>> /\ Head(events).kind = "ended"
     /\ events' = Tail(events)
     /\ active' = active \ {a} /\ recent' = Kept(Append(recent, a))
     /\ open' = open \ {a}
     /\ Dispatched
     /\ IF a \in open THEN Enqueued(Ended(a)) ELSE UNCHANGED writer
     /\ UNCHANGED <<phase, engine, reader>>

\* An operator's ban, unban, reload or source block, recorded by its handler.
\* The API's handlers are not joined at shutdown.
RecordAudit(x) ==
  /\ Audited(x) \notin asked
  /\ Enqueued(Audited(x))
  /\ UNCHANGED <<phase, engine, events, table, slots, reader>>

\* A delivery ends, delivered or not: every channel bounds itself.
Delivered(c) ==
  /\ slots[c] > 0
  /\ slots' = [slots EXCEPT ![c] = @ - 1]
  /\ UNCHANGED <<phase, engine, events, table, writer, reader>>

---------------------------------------------------------------------------
(* The writer's loop.                                                      *)

Batch ==
  /\ phase # "down" /\ sending = {} /\ queue # <<>>
  /\ Cardinality(batch) < BatchSize \/ phase = "draining"
  /\ queue' = Tail(queue) /\ batch' = batch \cup {Head(queue)}
  /\ UNCHANGED <<phase, engine, events, table, sending, db, refused, dropped, asked,
                 slots, reader>>

\* Wrong variant: the batch is sent and kept.
KeptBatch == batch

ResetBatch == {}

\* On size, on the ticker, or, last of all, once the queue is empty.
Flush ==
  /\ phase # "down" /\ sending = {} /\ batch # {}
  /\ phase = "draining" => queue = <<>>
  /\ sending' = batch /\ batch' = ResetBatch
  /\ UNCHANGED <<phase, engine, events, table, queue, db, refused, dropped, asked,
                 slots, reader>>

\* One table's INSERT: it arrives whole, or is counted and given up.
Send(t, ok) ==
  LET rows == {r \in sending : r.table = t}
  IN /\ phase # "down" /\ rows # {}
     /\ sending' = sending \ rows
     /\ IF ok THEN db' = [r \in Rows |-> IF r \in rows THEN db[r] + 1 ELSE db[r]]
                   /\ UNCHANGED refused
        ELSE refused' = refused \cup rows /\ UNCHANGED db
     /\ UNCHANGED <<phase, engine, events, table, queue, batch, dropped, asked,
                    slots, reader>>

---------------------------------------------------------------------------
(* GET /api/v1/attacks: the table under its lock, then the database.       *)

BeginRead ==
  /\ phase = "up" /\ ~reading
  /\ reading' = TRUE /\ shown' = Reverse(recent)
  /\ UNCHANGED <<phase, engine, events, table, writer, slots>>

\* The database shows, of an attack, its highest version.
StoredEnded == {a \in Attack : db[Ended(a)] > 0}

\* Wrong variant: the database's rows are added as they are.
AllStored == StoredEnded

NewlyStored == StoredEnded \ ToSet(shown)

EndRead(ok) ==
  /\ reading /\ reading' = FALSE
  /\ shown' = shown \o (IF ok THEN SetToSeq(NewlyStored) ELSE <<>>)
  /\ UNCHANGED <<phase, engine, events, table, writer, slots>>

---------------------------------------------------------------------------
(* Shutdown.                                                               *)

Stop ==
  /\ phase = "up" /\ phase' = "stopping"
  /\ UNCHANGED <<engine, events, table, writer, slots, reader>>

\* The consumer has joined; what is left in its buffer is abandoned.
StoreCancel ==
  /\ phase = "stopping" /\ phase' = "draining" /\ events' = <<>>
  /\ UNCHANGED <<engine, table, writer, slots, reader>>

\* Wrong variant: the loop leaves what it has in hand.
Drained == sending = {}

DrainedAll == sending = {} /\ queue = <<>> /\ batch = {}

Exit ==
  /\ phase = "draining" /\ DrainedAll
  /\ phase' = "down"
  /\ UNCHANGED <<engine, events, table, writer, slots, reader>>

Init ==
  /\ phase = "up" /\ engine = [a \in Attack |-> "quiet"] /\ events = <<>>
  /\ active = {} /\ recent = <<>> /\ open = {}
  /\ queue = <<>> /\ batch = {} /\ sending = {}
  /\ db = [r \in Rows |-> 0] /\ refused = {} /\ dropped = {} /\ asked = {}
  /\ slots = [c \in Channel |-> 0] /\ reading = FALSE /\ shown = <<>>

Next ==
  \/ \E a \in Attack : Emit(a)
  \/ ConsumeStarted \/ ConsumeEnded
  \/ \E x \in Audit : RecordAudit(x)
  \/ \E c \in Channel : Delivered(c)
  \/ Batch \/ Flush \/ \E t \in Tables, ok \in BOOLEAN : Send(t, ok)
  \/ BeginRead \/ \E ok \in BOOLEAN : EndRead(ok)
  \/ Stop \/ StoreCancel \/ Exit

\* The engine and the operators owe nothing; the process's own loops run.
Fairness ==
  /\ WF_vars(ConsumeStarted) /\ WF_vars(ConsumeEnded)
  /\ WF_vars(Batch) /\ WF_vars(Flush)
  /\ \A t \in Tables : WF_vars(\E ok \in BOOLEAN : Send(t, ok))
  /\ WF_vars(StoreCancel) /\ WF_vars(Exit)
  /\ \A c \in Channel : WF_vars(Delivered(c))

Spec == Init /\ [][Next]_vars /\ Fairness

---------------------------------------------------------------------------
(* Properties.                                                             *)

TypeOK ==
  /\ phase \in {"up", "stopping", "draining", "down"}
  /\ engine \in [Attack -> {"quiet", "started", "ended"}]
  /\ events \in Seq([kind : {"started", "ended"}, id : Attack]) /\ Len(events) <= EventCap
  /\ active \cup open \subseteq Attack /\ recent \in Seq(Attack) /\ Len(recent) <= MaxRecent
  /\ queue \in Seq(Rows) /\ Len(queue) <= QueueSize
  /\ batch \cup sending \cup refused \cup dropped \cup asked \subseteq Rows
  /\ db \in [Rows -> Nat]
  /\ slots \in [Channel -> 0..MaxSlots]
  /\ reading \in BOOLEAN /\ shown \in Seq(Attack)

Times(s, x) == Cardinality({i \in DOMAIN s : s[i] = x})
Has(S, x) == IF x \in S THEN 1 ELSE 0
Holding(r) ==
  Times(queue, r) + Has(batch, r) + Has(sending, r) + db[r] + Has(refused, r) + Has(dropped, r)

\* Every row handed over is in exactly one place, and stays in one: waiting, in
\* the database once, or counted as refused or dropped (enqueue, run, flushFinal).
RowsOnce == \A r \in Rows : Holding(r) = IF r \in asked THEN 1 ELSE 0

\* Once the process is down no row of the consumer's is still waiting: the drain
\* comes after every producer that is joined (App.Stop; run's drain).
DrainedLast ==
  phase = "down" => \A r \in Rows :
     r.table = "attacks" => r \notin ToSet(queue) \cup batch \cup sending

\* The same of every row there is: what App.Start's comment claims.  The API's
\* handlers are not joined, so an audit row may be left behind.
Unjoined == phase = "down" => queue = <<>>

\* The history never shows an attack ended that the engine has not ended, and
\* never one whose start nobody handed over.
HistoryTrue ==
  \A a \in Attack : Ended(a) \in asked => engine[a] = "ended" /\ Started(a) \in asked

\* No answer lists an ended attack twice, though memory and database both know it
\* (handleAttacks' seen).
ListedOnce == \A a \in Attack : Times(shown, a) <= 1

\* Once the process stops it comes down, whatever hangs on the way: a saturated
\* channel, a full queue, a database that refuses (launch, flushSendTimeout).
ComesDown == phase = "stopping" ~> phase = "down"

\* What is told of an attack is told once, and is true.
ToldOnce == RowsOnce /\ DrainedLast /\ HistoryTrue /\ ListedOnce

---------------------------------------------------------------------------
(* What makes them inductive.                                              *)

\* No attack, and no event, is twice in a sequence.
NoneTwice(s) == \A i, j \in DOMAIN s : s[i] = s[j] => i = j

\* An event is news: the engine has come to what it says, and nobody has told it yet.
News(e) ==
  IF e.kind = "started" THEN engine[e.id] # "quiet" /\ Started(e.id) \notin asked
  ELSE engine[e.id] = "ended" /\ Ended(e.id) \notin asked /\ e.id \notin ToSet(recent)

EventsNews == NoneTwice(events) /\ \A e \in ToSet(events) : News(e)

\* What has been told of an attack, the engine has said; only a start that was handed over is
\* left to be completed.
ToldAfter ==
  \A a \in Attack : /\ Started(a) \in asked => engine[a] # "quiet"
                    /\ a \in ToSet(recent) => engine[a] = "ended"
                    /\ a \in open => Started(a) \in asked

IInv ==
  /\ TypeOK /\ ToldOnce /\ EventsNews /\ ToldAfter
  /\ NoneTwice(recent) /\ NoneTwice(shown) /\ IsFiniteSet(asked)
=============================================================================
