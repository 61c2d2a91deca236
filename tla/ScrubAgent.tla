----------------------------- MODULE ScrubAgent -----------------------------
(***************************************************************************)
(* The channel between the brain and one scrubbing node: the long-polled    *)
(* rules document (api/rules.go over mitigate/ruleschannel.go) and the      *)
(* agent that enforces it (scrub/agent.go), for one victim.                 *)
(*                                                                         *)
(* A document is what its hash stands for: the victim's entry, or NoEntry.  *)
(* Deadlines are distances from now, in units of ruleExpiryQuantum.         *)
(***************************************************************************)
EXTENDS Integers

CONSTANTS
  Ttl,        \* ban.ttl_seconds
  WatchOnly,  \* the node runs with dry_run
  HoldCap,    \* maxRuleHoldsPerToken
  MayFail,    \* "install", "withdraw", "enumerate", "network"
  NoEntry, NoDoc,
  Adopted     \* the sentinel no fingerprint equals

Entries == [left : -1..Ttl, dry : BOOLEAN]

AgentAssumption ==
  /\ Ttl \in Nat \ {0} /\ HoldCap \in Nat \ {0}
  /\ {NoEntry, NoDoc, Adopted} \cap Entries = {}
  /\ NoEntry # NoDoc /\ Adopted \notin {NoEntry, NoDoc}

VARIABLES
  entry,      \* the victim's divert ban in the brain's table
  known,      \* the node is configured and its token may act as it
  poll,       \* the agent's request: where it is, and the tag it carries
  woken,      \* the channel the held poll subscribed to has been closed
  orphans,    \* holds of earlier requests whose client has gone
  etag,       \* the agent's ETag
  reply,      \* the document on its way back, NoDoc if none
  installed,  \* what the agent believes it installed for the victim
  seeded,     \* the kernel's adopted victims are folded in
  kernel,     \* time the victim's rules have left in the node's kernel
  missed,     \* the last apply could not install or withdraw the victim, or not
              \* see that it has rules of an earlier run (not in the code)
  promised    \* time to the latest deadline the brain ever set (not in the code)

brainVars == <<entry, known, promised>>
agentVars == <<etag, installed, seeded, kernel, missed>>
vars == <<brainVars, poll, woken, orphans, reply, agentVars>>

Idle == [at |-> "idle", tag |-> NoDoc]

---------------------------------------------------------------------------
(* The brain's table.                                                      *)

\* markDirty wakes every subscriber; nothing is queued.
Notify == woken' = (woken \/ poll.at \in {"read", "wait"})

Quiet == UNCHANGED <<poll, orphans, reply, agentVars>>

BanDivert ==
  /\ entry = NoEntry
  /\ entry' \in [left : {Ttl}, dry : BOOLEAN]
  /\ promised' = Ttl
  /\ Notify /\ Quiet /\ UNCHANGED known

\* A heartbeat moves the deadline every time and notifies about twice a ttl.
Refresh ==
  /\ entry # NoEntry
  /\ entry' = [entry EXCEPT !.left = Ttl]
  /\ promised' = Ttl
  /\ Notify \/ UNCHANGED woken
  /\ Quiet /\ UNCHANGED known

WithdrawBan ==
  /\ entry # NoEntry
  /\ entry' = NoEntry
  /\ Notify /\ Quiet /\ UNCHANGED <<known, promised>>

\* A reload that drops, adds or rebinds the node wakes the holds as well.
Reload ==
  /\ known' = ~known
  /\ Notify /\ Quiet /\ UNCHANGED <<entry, promised>>

---------------------------------------------------------------------------
(* handleDataplaneRules.                                                   *)

Ask ==
  /\ poll.at = "idle" /\ reply = NoDoc
  /\ poll' = [at |-> "arrived", tag |-> etag]
  /\ UNCHANGED <<brainVars, woken, orphans, reply, agentVars>>

Answer(doc) == reply' = doc /\ poll' = Idle
Refuse == UNCHANGED reply /\ poll' = Idle

\* The tag still names the document: the request is held, if a slot is free.
Arrive ==
  /\ poll.at = "arrived"
  /\ \/ ~known /\ Refuse
     \/ known /\ poll.tag # entry /\ Answer(entry)
     \/ known /\ poll.tag = entry /\ orphans >= HoldCap /\ Refuse
     \/ /\ known /\ poll.tag = entry /\ orphans < HoldCap
        /\ poll' = [poll EXCEPT !.at = "subscribe"]
        /\ UNCHANGED reply
  /\ UNCHANGED <<brainVars, woken, orphans, agentVars>>

\* Wrong variant: reads the table first and subscribes just before it waits.
SubscribeLate ==
  /\ poll.at = "subscribe"
  /\ IF poll.tag # entry THEN Answer(entry)
     ELSE poll' = [poll EXCEPT !.at = "late"] /\ UNCHANGED reply
  /\ UNCHANGED <<brainVars, woken, orphans, agentVars>>

\* RulesChanged and Store.Changed, before the table is read again.
Subscribe ==
  /\ poll.at = "subscribe"
  /\ woken' = FALSE
  /\ poll' = [poll EXCEPT !.at = "read"]
  /\ UNCHANGED <<brainVars, orphans, reply, agentVars>>

Reread ==
  /\ poll.at = "read"
  /\ \/ ~known /\ Refuse
     \/ known /\ poll.tag # entry /\ Answer(entry)
     \/ known /\ poll.tag = entry /\ poll' = [poll EXCEPT !.at = "wait"] /\ UNCHANGED reply
  /\ UNCHANGED <<brainVars, woken, orphans, agentVars>>

Wake ==
  /\ poll.at = "wait" /\ woken
  /\ poll' = [poll EXCEPT !.at = "subscribe"]
  /\ UNCHANGED <<brainVars, woken, orphans, reply, agentVars>>

\* The hold's deadline, or a shutdown: one last look at the table.
EndHold ==
  /\ poll.at \in {"wait", "late"}
  /\ IF known /\ poll.tag # entry THEN Answer(entry) ELSE Refuse
  /\ UNCHANGED <<brainVars, woken, orphans, agentVars>>

\* The connection breaks; a parked handler may not notice before its deadline.
Disconnect ==
  /\ "network" \in MayFail
  /\ poll.at # "idle" \/ reply # NoDoc
  /\ orphans' \in IF poll.at \in {"subscribe", "read", "wait", "late"} /\ orphans < HoldCap
                  THEN {orphans, orphans + 1} ELSE {orphans}
  /\ poll' = Idle /\ reply' = NoDoc
  /\ UNCHANGED <<brainVars, woken, agentVars>>

OrphanEnds ==
  /\ orphans > 0
  /\ orphans' = orphans - 1
  /\ UNCHANGED <<brainVars, poll, woken, reply, agentVars>>

---------------------------------------------------------------------------
(* The agent.                                                              *)

\* A live node does not install a dry-run entry; an expired one is skipped.
Wanted(doc) == doc # NoEntry /\ (~doc.dry \/ WatchOnly) /\ doc.left > 0

\* Wrong variant: the rules get a fresh ttl rather than the document's.
DeadlineFresh(doc) == Ttl

Deadline(doc) == doc.left

\* Wrong variant: what an earlier run left in the kernel stays unknown.
TrackedUnseeded == installed

\* The first reconcile takes over what an earlier run left in the kernel.
Tracked == IF ~seeded /\ installed = NoEntry /\ kernel > 0 THEN Adopted ELSE installed

\* Unless the kernel cannot be enumerated then: it is not asked again, and what it
\* has goes on unknown.
Had == {Tracked} \cup IF ~seeded /\ "enumerate" \in MayFail THEN {installed} ELSE {}

\* had: what the reconcile takes the victim to have; installed is what the agent
\* believes afterwards.
Enforce(doc, had) ==
  IF had = doc
  THEN installed' = doc /\ UNCHANGED <<kernel, missed>>
  ELSE \/ /\ installed' = doc /\ missed' = FALSE
          /\ kernel' = Deadline(doc)
       \/ /\ "install" \in MayFail
          /\ installed' = had /\ missed' = TRUE
          /\ kernel' \in {kernel, 0}

Lift(had) ==
  /\ installed' = NoEntry
  /\ \/ /\ had = NoEntry /\ missed' = (missed \/ Tracked # NoEntry)
        /\ UNCHANGED kernel
     \/ /\ had # NoEntry /\ missed' = FALSE /\ kernel' = 0
     \/ /\ had # NoEntry /\ "withdraw" \in MayFail
        /\ missed' = TRUE /\ UNCHANGED kernel

Apply ==
  /\ reply # NoDoc
  /\ seeded' = TRUE
  /\ \E had \in Had : IF Wanted(reply) THEN Enforce(reply, had) ELSE Lift(had)
  /\ etag' = reply
  /\ reply' = NoDoc
  /\ UNCHANGED <<brainVars, poll, woken, orphans>>

\* The process is replaced; the pinned maps keep enforcing (on_exit: keep).
AgentRestart ==
  /\ etag' = NoDoc /\ installed' = NoEntry /\ seeded' = FALSE /\ missed' = FALSE
  /\ poll' = Idle /\ reply' = NoDoc
  /\ UNCHANGED <<brainVars, woken, orphans, kernel>>

---------------------------------------------------------------------------
Older(x) == IF x > -1 THEN x - 1 ELSE x
AgedDoc(d) == IF d \in Entries THEN [d EXCEPT !.left = Older(@)] ELSE d

Tick ==
  /\ entry' = AgedDoc(entry) /\ etag' = AgedDoc(etag)
  /\ reply' = AgedDoc(reply) /\ installed' = AgedDoc(installed)
  /\ poll' = [poll EXCEPT !.tag = AgedDoc(@)]
  /\ kernel' = IF kernel > 0 THEN kernel - 1 ELSE 0
  /\ promised' = IF promised > 0 THEN promised - 1 ELSE 0
  /\ UNCHANGED <<known, woken, orphans, seeded, missed>>

Init ==
  /\ entry = NoEntry /\ known = TRUE /\ promised = 0
  /\ poll = Idle /\ woken = FALSE /\ orphans = 0 /\ reply = NoDoc
  /\ etag = NoDoc /\ installed = NoEntry /\ seeded = FALSE
  /\ kernel = 0 /\ missed = FALSE

Next ==
  \/ BanDivert \/ Refresh \/ WithdrawBan \/ Reload
  \/ Ask \/ Arrive \/ Subscribe \/ Reread \/ Wake \/ EndHold
  \/ Disconnect \/ OrphanEnds
  \/ Apply \/ AgentRestart
  \/ Tick

Spec == Init /\ [][Next]_vars

---------------------------------------------------------------------------
(* Properties.                                                             *)

TypeOK ==
  /\ entry \in Entries \cup {NoEntry}
  /\ poll.at \in {"idle", "arrived", "subscribe", "read", "wait", "late"}
  /\ orphans \in 0..HoldCap
  /\ reply \in Entries \cup {NoEntry, NoDoc}
  /\ etag \in Entries \cup {NoEntry, NoDoc}
  /\ installed \in Entries \cup {NoEntry, Adopted}
  /\ kernel \in 0..Ttl /\ promised \in 0..Ttl

\* Nothing but a moved deadline goes unheard: a poll that sleeps on a document
\* the brain no longer serves, or on a node it no longer knows, is already woken
\* (handleDataplaneRules: "a change landing between the read and the select must
\* find us already subscribed").
SleeperWillHear ==
  poll.at \in {"wait", "late"} /\ ~woken =>
    /\ known
    /\ (poll.tag = NoEntry) = (entry = NoEntry)
    /\ entry # NoEntry => poll.tag.dry = entry.dry

\* What an idle agent last applied is what its kernel does, also when an earlier
\* run of the agent left rules behind: a victim the document dropped, or lists
\* as dry-run on a live node, is not filtered, and one it lists is, unless the
\* kernel call itself failed (apply).  One failed enumeration leaves an earlier run's
\* rules "to lapse at their own in-kernel deadlines", which NodeLapsesWithBan bounds.
KernelFollowsDocument ==
  etag # NoDoc /\ ~missed => (kernel > 0) = Wanted(etag)

\* The node never filters a victim beyond the latest deadline the brain has set,
\* however late a document arrives and whether or not the brain is heard again
\* (RuleDocBan.ExpiresAt).
NodeLapsesWithBan == kernel <= promised

\* What makes the above inductive: the request's tag is a document's; no document on
\* its way outlasts the promise; and, as long as no kernel call failed, the kernel has
\* what the document asks for and what the agent believes it installed.
PollTyped ==
  /\ poll \in [at : {"idle", "arrived", "subscribe", "read", "wait"},
               tag : Entries \cup {NoEntry, NoDoc}]
  /\ known \in BOOLEAN /\ woken \in BOOLEAN /\ seeded \in BOOLEAN /\ missed \in BOOLEAN

DocumentsWithinPromise ==
  /\ entry # NoEntry => entry.left <= promised
  /\ reply \in Entries => reply.left <= promised

Remaining(left) == IF left > 0 THEN left ELSE 0

KernelAsBelieved ==
  ~missed =>
    /\ etag # NoDoc => kernel = IF Wanted(etag) THEN etag.left ELSE 0
    /\ installed \in Entries => kernel = Remaining(installed.left)
    /\ installed = NoEntry /\ seeded => kernel = 0

IInv ==
  /\ TypeOK /\ PollTyped /\ SleeperWillHear
  /\ NodeLapsesWithBan /\ DocumentsWithinPromise /\ KernelAsBelieved
=============================================================================
