------------------------------ MODULE Persist -------------------------------
(***************************************************************************)
(* The ban state file of engine/internal/mitigate/persist.go around the     *)
(* Mitigator: the loop that writes it, the shutdown flush, a crash at any   *)
(* point, and the restart that re-announces what the file still justifies.  *)
(*                                                                         *)
(* While the process is down, env is what the BGP peers retain (all of it   *)
(* if they are graceful-restart helpers, nothing after a clean stop), and   *)
(* the rules of the pinned kernel maps, which enforce until their own       *)
(* deadline.  The peers' End-of-RIB purge comes after rehydration (Start    *)
(* adds them last), so a restart is one step: of the routes, env becomes    *)
(* exactly what was re-announced; kernel rules are adopted, unless the maps *)
(* are built anew.  The configuration changes across a restart only; one    *)
(* direction is attacked.                                                   *)
(***************************************************************************)
EXTENDS Integers, FiniteSets, Sequences

CONSTANTS Host, Prefix, Members, Span, Worker, Sweeper, NoConfig, Config,
          Horizon, MayFail,
          Helper,     \* the peers retain routes across a session loss
          NoSnap      \* a writer with no snapshot in hand

VARIABLES
  cfg, held, ban, env, winAge, winCount,   \* Mitigator
  phase,       \* "up", "draining" (context cancelled), "drained", "down"
  restarting,  \* shutting down by SignalRestart, not by Stop
  file,        \* the state file's bans
  dirty,       \* the signal pending in m.dirty
  writing,     \* writing[w]: the snapshot flushPersist is saving
  beatAge,     \* now - lastOngoingPersist
  stale,       \* the last save failed, or none was due since the restart
  late         \* the table changed after the final flush took its snapshot

\* What may fail of the Mitigator's own calls.
M == INSTANCE Mitigator WITH MayFail <- MayFail \cap {"announce", "install", "withdraw"}

PersistAssumption ==
  /\ M!TargetAssumption /\ M!CallerAssumption /\ M!ConfigAssumption
  /\ NoSnap \notin [M!Target -> M!BanType]

mitVars == <<cfg, held, ban, env, winAge, winCount>>
fileVars == <<phase, restarting, file, dirty, writing, beatAge, stale, late>>
vars == <<mitVars, fileVars>>

Writer == {"loop", "stop"}
NoBans == [t \in M!Target |-> M!NoBan]

---------------------------------------------------------------------------
(* The document.                                                           *)

\* Direction holds and the data-plane install time are not persisted.
Saved(b) == IF b.active THEN [b EXCEPT !.dirs = {}, !.dpAge = Horizon] ELSE M!NoBan

Snapshot == [t \in M!Target |-> Saved(ban[t])]

\* What the file says of a ban, its deadline apart.
Core(b) == [b EXCEPT !.left = 0]

---------------------------------------------------------------------------
(* The Mitigator's handlers, and the signal their mutations send.          *)

Signals(changed) ==
  /\ dirty' = (dirty \/ changed)
  /\ late' = (late \/ (changed /\ (writing["stop"] # NoSnap \/ phase = "drained")))
  /\ UNCHANGED <<phase, restarting, file, writing, stale>>

TableChanged == \E t \in M!Target : Saved(ban'[t]) # Saved(ban[t])

Serving == phase # "down"

\* No reload happens in a run of the process, so that one caller holds a
\* configuration at a time loses nothing: they would hold the same.
Idle == \A w \in Worker \cup {Sweeper} : held[w] = NoConfig

\* Event consumers have returned before the Mitigator is stopped; the API's
\* goroutine has not.
Handle(w) ==
  /\ Serving
  /\ \/ M!Begin(w) /\ Idle /\ (phase = "up" \/ w # Sweeper)
     \/ \E h \in Host :
          /\ phase = "up" /\ w # Sweeper
          /\ M!OnAttackStarted(w, h, "in") \/ M!OnAttackEnded(h, "in")
     \/ \E h \in Host : w # Sweeper /\ (M!ManualBan(w, h) \/ M!ManualUnban(h))
     \/ w = Sweeper /\ M!Sweep
  /\ Signals(TableChanged)
  /\ UNCHANGED beatAge

\* Heartbeats move deadlines every second and are written about twice a ttl.
Ongoing(w) ==
  LET due == 2 * beatAge >= held[w].ttl
  IN /\ phase = "up"
     /\ \E h \in Host :
          /\ M!OnAttackOngoing(w, h, "in")
          /\ Signals(ban[h].active /\ due)
          /\ beatAge' = IF ban[h].active /\ due THEN 0 ELSE beatAge

---------------------------------------------------------------------------
(* Writers.                                                                *)

\* Wrong variant: every writer takes its snapshot at once, mutex or not.
MutexFreeAlways == TRUE

\* persistMu covers the snapshot and the save.
MutexFree == \A w \in Writer : writing[w] = NoSnap

\* persistLoop: one signal, one flush; a cancelled context ends it.
LoopFlush ==
  /\ phase = "up" /\ dirty /\ writing["loop"] = NoSnap /\ MutexFree
  /\ dirty' = FALSE
  /\ writing' = [writing EXCEPT !["loop"] = Snapshot]
  /\ UNCHANGED <<mitVars, phase, restarting, file, beatAge, stale, late>>

\* drainPersist: waits for the loop, then flushes whatever the signal says.
DrainFlush ==
  /\ phase = "draining" /\ writing["stop"] = NoSnap /\ MutexFree
  /\ writing' = [writing EXCEPT !["stop"] = Snapshot]
  /\ UNCHANGED <<mitVars, phase, restarting, file, dirty, beatAge, stale, late>>

\* A temporary file, fsync, rename: the whole snapshot or none of it.
Save(w) ==
  /\ writing[w] # NoSnap
  /\ \/ file' = writing[w] /\ stale' = FALSE
     \/ "save" \in MayFail /\ stale' = TRUE /\ UNCHANGED file
  /\ writing' = [writing EXCEPT ![w] = NoSnap]
  /\ phase' = IF w = "stop" THEN "drained" ELSE phase
  /\ UNCHANGED <<mitVars, restarting, dirty, beatAge, late>>

---------------------------------------------------------------------------
(* Shutdown, crash, restart.                                               *)

Cancel(forRestart) ==
  /\ phase = "up"
  /\ phase' = "draining" /\ restarting' = forRestart
  /\ UNCHANGED <<mitVars, file, dirty, writing, beatAge, stale, late>>

Down(e) ==
  /\ phase' = "down"
  /\ ban' = NoBans /\ env' = e
  /\ held' = [w \in Worker \cup {Sweeper} |-> NoConfig]
  /\ winAge' = Horizon /\ winCount' = 0 /\ beatAge' = Horizon
  /\ dirty' = FALSE /\ writing' = [w \in Writer |-> NoSnap]
  /\ UNCHANGED <<cfg, file, stale>>

\* The kernel rules alone.  No ban is on them until one is restored: they are left to
\* lapse, as if their removal had failed (adoptLocked).
Lapsing(e) ==
  [M!NothingUp EXCEPT !.kernel = e.kernel, !.leaked = IF e.kernel > 0 THEN {"dataplane"} ELSE {}]

Flushed == [t \in M!Target |-> Lapsing(env[t])]

\* A Stop is a hard reset: the peers flush.  A restart is an administrative
\* reset, across which helpers retain.
Exit ==
  /\ phase = "drained"
  /\ Down(IF restarting /\ Helper THEN env ELSE Flushed)
  /\ UNCHANGED <<restarting, late>>

\* A bare TCP close: helpers retain.
Crash ==
  /\ phase # "down"
  /\ Down(IF Helper THEN env ELSE Flushed)
  /\ restarting' = FALSE
  /\ late' = TRUE

\* Wrong variant: the ban keeps the dry-run flag it was persisted with.
ReconciledNot(b, c) == b

\* The announce is gated on the live flag, every withdrawal on this one.
Reconciled(b, c) == [b EXCEPT !.dryRun = c.dryRun]

\* Wrong variant: announces the rung the ladder names.
CurrentMethodRung(b) == b.ladder[b.step].action

\* A ban that fell back comes back on what it fell back to.
CurrentMethod(b) ==
  LET rung == b.ladder[b.step].action
  IN IF b.method \in {"blackhole", "flowspec"} THEN b.method ELSE rung

\* A ban the file holds and the live configuration still allows.
Eligible(c) ==
  {t \in M!Target : file[t].active /\ file[t].left >= 0 /\ M!Allowed(t, c)}

\* Each announce may fail, and that drops its ban; no fallback here.  e is what the
\* restart found.
Rehydrated(t, c, e) ==
  {IF o.ok
   THEN [ban |-> [Reconciled(file[t], c) EXCEPT !.method = CurrentMethod(file[t])], env |-> o.env]
   ELSE [ban |-> M!NoBan, env |-> o.env] :
     o \in M!AnnounceMethod(e, CurrentMethod(file[t]), c, file[t].left)}

\* The caps and the blast radius.
Restorable(S, c) ==
  /\ Cardinality(S \cap Host) <= c.maxActive
  /\ Cardinality(S \cap Prefix) <= c.maxPrefix
  /\ c.maxAddresses = 0 \/ Cardinality(M!Covered(S)) <= c.maxAddresses

\* Bans are taken in some order while those restored leave room: S is tried, R restored.
Tried(S, R, c) ==
  /\ \A t \in S : Restorable({t}, c)
  /\ Restorable(R, c) /\ \A t \in Eligible(c) \ S : ~Restorable(R \cup {t}, c)

\* The maps are adopted, or built anew (another build, or after on_exit: detach).
Found == {Flushed, [t \in M!Target |-> M!NothingUp]}

\* An unreadable file, or one of another version, restores nothing.  Nothing is
\* written back: what was dropped stays in the file until the next change.
Start ==
  /\ phase = "down"
  /\ cfg' \in Config
  /\ \E e \in Found :
     \/ \E S \in SUBSET Eligible(cfg') :
        \E f \in [S -> UNION {Rehydrated(t, cfg', e[t]) : t \in S}] :
          /\ \A t \in S : f[t] \in Rehydrated(t, cfg', e[t])
          /\ Tried(S, {t \in S : f[t].ban.active}, cfg')
          /\ ban' = [t \in M!Target |-> IF t \in S THEN f[t].ban ELSE M!NoBan]
          /\ env' = [t \in M!Target |-> IF t \in S THEN f[t].env ELSE e[t]]
     \/ "load" \in MayFail /\ ban' = NoBans /\ env' = e
  /\ phase' = "up" /\ restarting' = FALSE /\ late' = FALSE /\ stale' = TRUE
  /\ UNCHANGED <<held, winAge, winCount, file, dirty, writing, beatAge>>

Tick ==
  /\ M!Tick
  /\ file' = [t \in M!Target |-> M!Aged(file[t])]
  /\ writing' = [w \in Writer |->
                   IF writing[w] = NoSnap THEN NoSnap
                   ELSE [t \in M!Target |-> M!Aged(writing[w][t])]]
  /\ beatAge' = M!Older(beatAge)
  /\ UNCHANGED <<phase, restarting, dirty, stale, late>>

Init ==
  /\ M!Init
  /\ phase = "up" /\ restarting = FALSE
  /\ file = NoBans /\ dirty = FALSE
  /\ writing = [w \in Writer |-> NoSnap]
  /\ beatAge = Horizon /\ stale = FALSE /\ late = FALSE

Next ==
  \/ \E w \in Worker \cup {Sweeper} : Handle(w)
  \/ \E w \in Worker : Ongoing(w)
  \/ LoopFlush
  \/ DrainFlush
  \/ \E w \in Writer : Save(w)
  \/ \E r \in BOOLEAN : Cancel(r)
  \/ Exit
  \/ Crash
  \/ Start
  \/ Tick

Spec == Init /\ [][Next]_vars

---------------------------------------------------------------------------
(* Properties.                                                             *)

TypeOK ==
  /\ M!TypeOK
  /\ phase \in {"up", "draining", "drained", "down"}
  /\ restarting \in BOOLEAN /\ dirty \in BOOLEAN
  /\ file \in [M!Target -> M!BanType]
  /\ writing \in [Writer -> [M!Target -> M!BanType] \cup {NoSnap}]
  /\ beatAge \in 0..Horizon /\ stale \in BOOLEAN /\ late \in BOOLEAN

\* Nobody is about to write, and the last write went through.
Settled ==
  /\ ~stale
  /\ \A w \in Writer : writing[w] = NoSnap
  /\ \/ phase = "up" /\ ~dirty
     \/ phase = "drained" /\ ~late

\* The deadline on disk lags a refreshed ban by no more than half a ttl, so a
\* crash in the middle of an attack rehydrates it (OnAttackOngoing).
DeadlineAhead(t) == ban[t].active => 2 * (ban[t].left - file[t].left) <= cfg.ttl

\* The last word: whenever a change has been written and no write is due, and in
\* particular once the shutdown flush is done, the file says of every ban what
\* the table says, and nothing of others: no older snapshot is renamed over a newer
\* one (flushPersist, drainPersist).  Its deadline is current for a ban that has the
\* clock of the heartbeats' writes to itself.
FileCurrent ==
  Settled =>
    \A t \in M!Target :
      /\ Core(file[t]) = Core(Saved(ban[t]))
      /\ M!Target = {t} => DeadlineAhead(t)

\* What the code says of every ban (OnAttackOngoing: "at most ~twice per TTL keeps
\* the on-disk ExpiresAt at least TTL/2 in the future").  One clock serves them all, so
\* it is false of a ban whose heartbeats pause and return just after another's.
DeadlinesAhead == Settled => \A t \in M!Target : DeadlineAhead(t)

\* Nothing is up in a running process that no active, real ban is on, whatever crashed
\* or was restarted under another configuration: a restart that flips dry_run strands
\* no route and no flowspec rule, and neither does a stale file.  The kernel rules a
\* restart adopted and restored no ban of are the exception the code makes: nobody
\* withdraws them, and they enforce until their own deadline (adoptLocked).
RestartStrandsNothing == phase # "down" => M!NoStrandedMitigation

\* A planned restart is invisible to the victim: a ban the file restores under
\* the same configuration comes back on the route the helpers retained, a
\* fallback included, and that route never goes away (reannounceLocked: "the
\* exact route the helper retained").  Kernel rules are installed anew, for what the
\* file says the ban has left.
RestartKeepsRoute ==
  [][Start /\ Helper /\ cfg' = cfg /\ restarting /\ ~late /\ ~stale =>
       \A t \in M!Target :
         ban'[t].active /\ ~ban'[t].dryRun /\ env[t].leaked \subseteq {"dataplane"}
           => env'[t].route = env[t].route /\ env'[t].flowspec = env[t].flowspec]_vars

---------------------------------------------------------------------------
(* What makes them inductive.                                              *)

\* A process has one configuration, and none of its calls outlives it.
OneRun ==
  /\ \A w \in M!Caller : held[w] \in {NoConfig, cfg}
  /\ phase = "down" => /\ ban = NoBans /\ ~dirty /\ beatAge = Horizon
                       /\ \A w \in M!Caller : held[w] = NoConfig

\* One writer at a time, each in its phase.
OneWriter ==
  /\ writing["loop"] # NoSnap => phase \in {"up", "draining"} /\ writing["stop"] = NoSnap
  /\ writing["stop"] # NoSnap => phase = "draining"

\* A ban that has the clock to itself was refreshed no earlier than it was reset.
Beaten(b) == b.active /\ beatAge < Horizon => b.left >= cfg.ttl - beatAge
BeatsKept == \A t \in M!Target : M!Target = {t} => Beaten(ban[t])

\* A snapshot that says of each ban what the table says.
Tells(S) ==
  \A t \in M!Target :
    /\ Core(S[t]) = Core(Saved(ban[t]))
    /\ M!Target = {t} => /\ Beaten(S[t])
                         /\ ban[t].active => 2 * (ban[t].left - S[t].left) <= cfg.ttl

LastWord ==
  /\ phase = "up" /\ ~dirty /\ writing["loop"] # NoSnap => Tells(writing["loop"])
  /\ phase = "up" /\ ~dirty /\ writing["loop"] = NoSnap /\ ~stale => Tells(file)
  /\ writing["stop"] # NoSnap /\ ~late => Tells(writing["stop"])
  /\ phase = "drained" /\ ~late /\ ~stale => Tells(file)

\* What a snapshot holds has a current rung.
Climbing(S) == \A t \in M!Target : S[t].active => S[t].step \in 1..Len(S[t].ladder)
OnLadders ==
  /\ Climbing(ban) /\ Climbing(file)
  /\ \A w \in Writer : writing[w] # NoSnap => Climbing(writing[w])

\* A running ban has the flag its process announces by, and what is up is what it is on.
Enforced ==
  phase # "down" =>
    /\ \A t \in M!Target : ban[t].active => ban[t].dryRun = cfg.dryRun
    /\ M!NoStrandedMitigation /\ M!ReportedIsEnforced

IInv == TypeOK /\ OneRun /\ OneWriter /\ BeatsKept /\ LastWord /\ OnLadders /\ Enforced
=============================================================================
