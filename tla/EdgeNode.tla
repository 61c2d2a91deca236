------------------------------ MODULE EdgeNode ------------------------------
(***************************************************************************)
(* An edge node: the long-poll of the brain's zone document (edge/poll), the *)
(* document cached on disk, the serialised render (edge/node) and the       *)
(* applier that points `live` at a generation, tests it and only then       *)
(* reloads the terminator (edge/apply).  The process may be killed between  *)
(* any two writes; what is on disk is all the next one knows.               *)
(*                                                                         *)
(* A generation is its place in a sequence, oldest first; a rendering is    *)
(* the document it was rendered from.                                       *)
(***************************************************************************)
EXTENDS Integers, Sequences, SequencesExt, FiniteSets

CONSTANTS
  Doc, Valid, NoDoc,
  Unreadable, \* documents this build cannot decode: another version, or cut at maxBody
  Keep,       \* passed generations kept besides the live one
  Faults,     \* failures and kills before the world calms down (a bound)
  MayFail     \* "test", "mark", "write", "reload", "restore", "save", "kill"

NodeAssumption ==
  /\ Valid \subseteq Doc /\ NoDoc \notin Doc \cup Unreadable /\ Doc \cap Unreadable = {}
  /\ Keep \in Nat \ {0} /\ Faults \in Nat

VARIABLES
  latest, published,  \* the brain's document now, and all of Doc it ever had
  reverted,           \* the brain has gone back to an earlier document
  cached,             \* zones.json and zones.etag
  gens, live,         \* the generations, and the place `live` points to (0: none)
  serving,            \* what the terminator loaded last
  phase,              \* "down" | "recover" | "disk" | "run"
  doc,                \* the document the fast path holds
  tag,                \* the ETag of the next poll
  retry,              \* a local retry is armed
  poll,               \* the poll in progress
  job,                \* the apply in progress
  faults

disk == <<cached, gens, live>>
brain == <<latest, published, reverted>>
vars == <<brain, disk, serving, phase, doc, tag, retry, poll, job, faults>>

NoJob == [who |-> "none", doc |-> NoDoc, step |-> "none", prev |-> 0]
NoPoll == [step |-> "idle", got |-> NoDoc]

Fault(what) == what \in MayFail /\ faults > 0 /\ faults' = faults - 1
Calm == UNCHANGED faults

---------------------------------------------------------------------------
(* The brain, and the poll.                                                *)

Publish(d) ==
  /\ d # latest
  /\ latest' = d /\ published' = published \cup ({d} \cap Doc)
  /\ reverted' = (reverted \/ d \in published)
  /\ UNCHANGED <<disk, serving, phase, doc, tag, retry, poll, job, faults>>

\* A 200: the fast path takes the document at once.  One that does not decode is
\* refused before it, and still the next poll carries its ETag.  (A 304 changes
\* nothing.)
PollOnce ==
  /\ phase = "run" /\ poll = NoPoll /\ latest # NoDoc /\ latest # tag
  /\ \/ /\ latest \in Doc
        /\ doc' = latest /\ poll' = [step |-> "save", got |-> latest] /\ UNCHANGED tag
     \/ /\ latest \in Unreadable
        /\ tag' = latest /\ UNCHANGED <<doc, poll>>
  /\ UNCHANGED <<brain, disk, serving, phase, retry, job, faults>>

\* Wrong variant: the ETag is persisted before the document it names.
TagFirst(step, d) ==
  IF step = "save" THEN [cached EXCEPT !.tag = d] ELSE [cached EXCEPT !.doc = d]

\* The document, then its ETag, each renamed into place.
SavedNext(step, d) ==
  IF step = "save" THEN [cached EXCEPT !.doc = d] ELSE [cached EXCEPT !.tag = d]

SaveCached ==
  /\ poll.step \in {"save", "tag"}
  /\ \/ /\ cached' = SavedNext(poll.step, poll.got)
        /\ poll' = [poll EXCEPT !.step = IF poll.step = "save" THEN "tag" ELSE "render"]
        /\ Calm
     \/ /\ Fault("save")
        /\ poll' = [poll EXCEPT !.step = "render"] /\ UNCHANGED cached
  /\ UNCHANGED <<brain, gens, live, serving, phase, doc, tag, retry, job>>

---------------------------------------------------------------------------
(* Render and apply, one at a time (renderMu, the flock on Root).          *)

Begin(who) == [who |-> who, doc |-> doc, step |-> "enter", prev |-> 0]

StartPoll ==
  /\ poll.step = "render" /\ job = NoJob
  /\ job' = Begin("poll")
  /\ poll' = [poll EXCEPT !.step = "busy"]
  /\ UNCHANGED <<brain, disk, serving, phase, doc, tag, retry, faults>>

\* The report loop's tick retries a document that did not apply.
StartRetry ==
  /\ phase = "run" /\ retry /\ job = NoJob
  /\ job' = Begin("retry")
  /\ UNCHANGED <<brain, disk, serving, phase, doc, tag, retry, poll, faults>>

\* Wrong variant: nothing retries what was refused.
RetryNever(ok) == FALSE

RetryAfter(ok) == ~ok

\* What the caller makes of the outcome: the poll moves on to the ETag it got,
\* whatever the outcome; the start from disk seeds the poll only on success.
Finish(ok) ==
  /\ job' = NoJob
  /\ retry' = RetryAfter(ok)
  /\ CASE job.who = "poll" ->
            tag' = poll.got /\ poll' = NoPoll /\ UNCHANGED phase
       [] job.who = "disk" ->
            /\ tag' = IF ok THEN cached.tag ELSE NoDoc
            /\ phase' = "run" /\ UNCHANGED poll
       [] job.who = "retry" -> UNCHANGED <<tag, poll, phase>>
  /\ UNCHANGED <<brain, cached, doc>>

Step(s) == job' = [job EXCEPT !.step = s] /\ UNCHANGED <<brain, cached, phase, doc, tag, retry, poll>>

\* Wrong variant: a generation nobody tested is as good as a tested one.
TrustedIfThere(g) == g # 0

Trusted(g) == IF g = 0 THEN FALSE ELSE gens[g].tested

\* An unchanged document costs nothing, but for a reload that was missed.
Enter ==
  /\ job.step = "enter"
  /\ IF Trusted(live) /\ gens[live].doc = job.doc
     THEN IF gens[live].reloaded THEN Finish(TRUE) ELSE Step("reload")
     ELSE /\ job' = [job EXCEPT !.step = "write", !.prev = live]
          /\ UNCHANGED <<brain, cached, phase, doc, tag, retry, poll>>
  /\ Calm /\ UNCHANGED <<gens, live, serving>>

WriteGeneration ==
  /\ job.step = "write"
  /\ \/ /\ gens' = Append(gens, [doc |-> job.doc, tested |-> FALSE, reloaded |-> FALSE])
        /\ Step("point") /\ Calm
     \/ Fault("write") /\ Finish(FALSE) /\ UNCHANGED gens
  /\ UNCHANGED <<live, serving>>

\* A link that cannot be set takes the new directory with it.
PointLive ==
  /\ job.step = "point"
  /\ \/ live' = Len(gens) /\ Step("test") /\ Calm /\ UNCHANGED gens
     \/ Fault("write") /\ gens' = Front(gens) /\ Finish(FALSE) /\ UNCHANGED live
  /\ UNCHANGED serving

\* The terminator tests what `live` names.
Test ==
  /\ job.step = "test"
  /\ \/ job.doc \in Valid /\ Step("mark") /\ Calm
     \/ job.doc \notin Valid /\ Step("restore") /\ Calm
     \/ job.doc \in Valid /\ Fault("test") /\ Step("restore")
  /\ UNCHANGED <<gens, live, serving>>

Newest(s, k) == SubSeq(s, IF Len(s) > k THEN Len(s) - k + 1 ELSE 1, Len(s))

\* What prune leaves: the live generation and the newest Keep others.
Prune(s) ==
  \/ live = 0 /\ gens' = Newest(s, Keep) /\ live' = 0
  \/ /\ live > 0 /\ live + Keep >= Len(s)
     /\ gens' = Newest(s, Keep + 1) /\ live' = live - (Len(s) - Len(gens'))
  \/ /\ live > 0 /\ live + Keep < Len(s)
     /\ gens' = <<s[live]>> \o Newest(s, Keep) /\ live' = 1

MarkTested ==
  /\ job.step = "mark"
  /\ \/ Prune([gens EXCEPT ![live].tested = TRUE]) /\ Step("reload") /\ Calm
     \/ Fault("mark") /\ Finish(FALSE) /\ UNCHANGED <<gens, live>>
  /\ UNCHANGED serving

Reload ==
  /\ job.step = "reload"
  /\ \/ serving' = gens[live].doc /\ Step("loaded") /\ Calm
     \/ Fault("reload") /\ Finish(FALSE) /\ UNCHANGED serving
  /\ UNCHANGED <<gens, live>>

\* Losing this mark costs a second reload, nothing else.
MarkReloaded ==
  /\ job.step = "loaded"
  /\ \/ gens' = [gens EXCEPT ![live].reloaded = TRUE] /\ Calm
     \/ Fault("mark") /\ UNCHANGED gens
  /\ Finish(TRUE)
  /\ UNCHANGED <<live, serving>>

NewestTested(s) ==
  LET T == {i \in DOMAIN s : s[i].tested} IN IF T = {} THEN 0 ELSE Max(T)

\* Back to the previous tested generation, else the newest tested one, else to
\* whatever was live before.
RestoreTo(prev) ==
  IF Trusted(prev) THEN prev ELSE IF NewestTested(gens) # 0 THEN NewestTested(gens) ELSE prev

\* A link that cannot be set back dangles once the candidate is moved aside.
Restore ==
  /\ job.step = "restore"
  /\ \/ live' = RestoreTo(job.prev) /\ Calm
     \/ Fault("restore") /\ live' = 0
  /\ Step("discard")
  /\ UNCHANGED <<gens, serving>>

\* The candidate, the last in the sequence, is moved aside and the rest pruned.
Discard ==
  /\ job.step = "discard"
  /\ Prune(Front(gens)) /\ Finish(FALSE)
  /\ Calm /\ UNCHANGED serving

---------------------------------------------------------------------------
(* Startup, and kills.                                                     *)

Boot ==
  /\ phase = "down" /\ phase' = "recover"
  /\ UNCHANGED <<brain, disk, serving, doc, tag, retry, poll, job, faults>>

Unjudged == live # 0 /\ ~Trusted(live)

\* A live generation without the tested marker is judged before anything else:
\* marked, or moved aside for the newest tested one, or for nothing.  (A kill
\* between the two renames leaves what a kill before a test leaves.)
Recover ==
  /\ phase = "recover" /\ phase' = "disk"
  /\ \/ ~Unjudged /\ Calm /\ UNCHANGED <<gens, live>>
     \/ /\ Unjudged /\ gens[live].doc \in Valid
        /\ \/ gens' = [gens EXCEPT ![live].tested = TRUE] /\ Calm
           \/ Fault("mark") /\ UNCHANGED gens
        /\ UNCHANGED live
     \/ /\ Unjudged
        /\ (gens[live].doc \notin Valid /\ Calm) \/ Fault("test")
        /\ gens' = RemoveAt(gens, live)
        /\ live' = NewestTested(gens')
  /\ UNCHANGED <<brain, cached, serving, doc, tag, retry, poll, job>>

\* Only what was decoded was ever saved, so that the cached document decodes.
StartFromDisk ==
  /\ phase = "disk" /\ job = NoJob
  /\ IF NoDoc \in {cached.doc, cached.tag}
     THEN phase' = "run" /\ UNCHANGED <<doc, job>>
     ELSE /\ doc' = cached.doc
          /\ job' = [who |-> "disk", doc |-> cached.doc, step |-> "enter", prev |-> 0]
          /\ UNCHANGED phase
  /\ UNCHANGED <<brain, disk, serving, tag, retry, poll, faults>>

Kill ==
  /\ phase # "down" /\ Fault("kill")
  /\ phase' = "down" /\ doc' = NoDoc /\ tag' = NoDoc /\ retry' = FALSE
  /\ poll' = NoPoll /\ job' = NoJob
  /\ UNCHANGED <<brain, disk, serving>>

Init ==
  /\ latest = NoDoc /\ published = {} /\ reverted = FALSE
  /\ cached = [doc |-> NoDoc, tag |-> NoDoc]
  /\ gens = <<>> /\ live = 0 /\ serving = NoDoc
  /\ phase = "down" /\ doc = NoDoc /\ tag = NoDoc /\ retry = FALSE
  /\ poll = NoPoll /\ job = NoJob /\ faults = Faults

\* What the process does next, left to itself.
Work ==
  \/ Enter \/ WriteGeneration \/ PointLive \/ Test \/ MarkTested \/ Reload
  \/ MarkReloaded \/ Restore \/ Discard

Next ==
  \/ \E d \in Doc \cup Unreadable : Publish(d)
  \/ PollOnce
  \/ SaveCached
  \/ StartPoll
  \/ StartRetry
  \/ Enter
  \/ WriteGeneration
  \/ PointLive
  \/ Test
  \/ MarkTested
  \/ Reload
  \/ MarkReloaded
  \/ Restore
  \/ Discard
  \/ Boot
  \/ Recover
  \/ StartFromDisk
  \/ Kill

\* The supervisor restarts the process, its loops run, the poll gets through,
\* and a waiting poll gets the render lock before the retries starve it.
Fairness ==
  /\ WF_vars(Boot) /\ WF_vars(Recover) /\ WF_vars(StartFromDisk)
  /\ WF_vars(PollOnce) /\ WF_vars(SaveCached) /\ SF_vars(StartPoll)
  /\ WF_vars(StartRetry) /\ WF_vars(Work)

Spec == Init /\ [][Next]_vars /\ Fairness

---------------------------------------------------------------------------
(* Properties.                                                             *)

TypeOK ==
  /\ latest \in Doc \cup Unreadable \cup {NoDoc} /\ published \subseteq Doc /\ reverted \in BOOLEAN
  /\ cached \in [doc : Doc \cup {NoDoc}, tag : Doc \cup {NoDoc}]
  /\ Len(gens) <= Keep + Faults + 2 /\ live \in 0..Len(gens)
  /\ serving \in Doc \cup {NoDoc} /\ doc \in Doc \cup {NoDoc}
  /\ tag \in Doc \cup Unreadable \cup {NoDoc}
  /\ phase \in {"down", "recover", "disk", "run"} /\ faults \in 0..Faults

\* The node is an implementation of the promise, kills and failed operations
\* included (apply.go: "a failing candidate is never installed").
Gate == INSTANCE TestedGate WITH serving <- serving, published <- published
ImplementsGate == Gate!Spec

\* The cache's two files are from different documents (a kill or a failed write
\* between them), and the brain went back: its document may be the old ETag's.
Misled == cached.tag \notin {cached.doc, NoDoc} /\ reverted

\* A node the brain answers "not modified" holds the brain's document, also one its
\* terminator refused: the ETag it polls with never names another document than the
\* one it holds, whatever a kill has torn on disk (saveCached, acceptDocument).  But
\* for a document that it could not decode: it holds an older one then, and the brain
\* answers 304 to it until the next change (lastRefusal is all that says so).
NotModifiedIsCurrent ==
  phase = "run" /\ poll = NoPoll /\ tag = latest /\ latest # NoDoc
    => doc = latest \/ Misled \/ latest \in Unreadable

\* What makes the above inductive.  The generations are renderings of published
\* documents, and the tested ones pass the test; the apply in progress knows where its
\* candidate is; and every generation not yet pruned was paid for by a fault.
GenType == [doc : Doc, tested : BOOLEAN, reloaded : BOOLEAN]

InFlight == job.step \in {"point", "test", "mark", "restore", "discard"}

Generations ==
  /\ gens \in Seq(GenType)
  /\ \A i \in 1..Len(gens) : gens[i].doc \in published /\ (gens[i].tested => gens[i].doc \in Valid)
  /\ Len(gens) <= Keep + 1 + (Faults - faults) + (IF InFlight THEN 1 ELSE 0)

Candidate ==
  /\ job \in [who : {"none", "poll", "retry", "disk"}, doc : Doc \cup {NoDoc},
              step : {"none", "enter", "write", "point", "test", "mark", "reload", "loaded",
                      "restore", "discard"}, prev : Nat]
  /\ job # NoJob => job.doc \in published /\ job.who # "none" /\ job.step # "none"
  /\ job.step = "write" => job.prev <= Len(gens)
  /\ InFlight => /\ job.prev < Len(gens)
                 /\ gens[Len(gens)].doc = job.doc /\ ~gens[Len(gens)].tested
  /\ job.step \in {"test", "mark"} => live = Len(gens)
  /\ job.step = "mark" => job.doc \in Valid
  /\ job.step \in {"point", "discard"} => live < Len(gens)
  /\ job.step \in {"reload", "loaded"} => live # 0 /\ gens[live].tested

\* The poll and the start from disk act in the phase they belong to, on the document
\* the fast path holds.
Phases ==
  /\ poll \in [step : {"idle", "save", "tag", "render", "busy"}, got : Doc \cup {NoDoc}]
  /\ (poll = NoPoll) = (poll.step = "idle") /\ retry \in BOOLEAN
  /\ poll # NoPoll => phase = "run" /\ doc = poll.got /\ doc # NoDoc
  /\ phase \in {"down", "recover"} => job = NoJob
  /\ phase # "run" => tag = NoDoc /\ ~retry
  /\ job.who = "disk" => phase = "disk" /\ doc = cached.doc
  /\ job.who \in {"poll", "retry"} => phase = "run"
  /\ job.who = "poll" => poll.step = "busy"
  /\ retry \/ job # NoJob => doc # NoDoc
  /\ {doc, cached.doc, cached.tag} \subseteq published \cup {NoDoc}
  /\ latest \in published \cup Unreadable \cup {NoDoc}

\* The tag a poll carries is that of the document held, or of one that does not decode,
\* but for a torn cache the node started from; and a torn cache's tag is the brain's
\* again only after a step back.
TagOfDocument ==
  /\ phase = "run" /\ poll = NoPoll /\ tag \notin Unreadable \cup {NoDoc, doc}
       => doc = cached.doc /\ tag = cached.tag
  /\ poll.step = "save" /\ cached.tag # NoDoc /\ latest = cached.tag /\ poll.got # latest => reverted
  /\ poll.step = "tag" => cached.doc = poll.got
  /\ cached.tag \notin {cached.doc, NoDoc} /\ latest = cached.tag => reverted

IInv == TypeOK /\ Generations /\ Candidate /\ Phases /\ TagOfDocument

\* A valid document that stays the brain's last word is served in the end: after
\* failed tests, lost markers, failed reloads and kills at any step.
LatestServed ==
  \A d \in Valid : <>[](latest = d /\ ~Misled) => <>[](serving = d)
=============================================================================
