----------------------------- MODULE EdgeProofs -----------------------------
(***************************************************************************)
(* What three parts of the edge promise, for every edge: the node that tests *)
(* before it serves (EdgeNode), the clearance keys (Clearance) and the       *)
(* decider's verdict table (Verdicts).  For each part, that its inductive    *)
(* invariant holds at the start, that its steps keep it, and what follows.   *)
(***************************************************************************)
EXTENDS TrafficProofs

---------------------------------------------------------------------------
(* The node.                                                               *)

\* A nonempty set of positions has a last one.
LEMMA LastPosition ==
  ASSUME NEW n \in Nat, NEW S \in SUBSET (1..n), S # {}
  PROVE  \E i \in S : \A j \in S : i >= j
<1>1. PICK d \in {n - i : i \in S} : \A e \in {n - i : i \in S} : d <= e
  <2>1. \A i \in S : n - i \in Nat
    OBVIOUS
  <2>2. {n - i : i \in S} \in SUBSET Nat
    BY <2>1
  <2>3. {n - i : i \in S} # {}
    OBVIOUS
  <2> QED
    BY <2>2, <2>3, LeastNatural
<1>2. PICK i \in S : d = n - i
  BY <1>1
<1>3. ASSUME NEW j \in S  PROVE i >= j
  <2>1. n - i <= n - j
    BY <1>1, <1>2
  <2>2. i \in 1..n /\ j \in 1..n
    OBVIOUS
  <2> QED
    BY <2>1, <2>2
<1> QED
  BY <1>3

\* No document, generation, apply or poll at the start.
LEMMA NodeInit ==
  ASSUME E!NodeAssumption, E!Init
  PROVE  E!IInv
<1> USE DEF E!NodeAssumption, E!Init, E!NoJob, E!NoPoll
<1>1. E!TypeOK
  <2>1. Len(gens) = 0 /\ live \in 0..Len(gens) /\ cached \in [doc : Doc \cup {NoDoc}, tag : Doc \cup {NoDoc}]
    OBVIOUS
  <2>2. Keep + Faults + 2 >= 0 /\ faults \in 0..Faults
    OBVIOUS
  <2>3. /\ latest \in Doc \cup {NoDoc} /\ published \subseteq Doc /\ reverted \in BOOLEAN
        /\ serving \in Doc \cup {NoDoc} /\ doc \in Doc \cup {NoDoc} /\ tag \in Doc \cup {NoDoc}
        /\ phase \in {"down", "recover", "disk", "run"}
    OBVIOUS
  <2>4. Len(gens) <= Keep + Faults + 2
    BY <2>1, <2>2
  <2> HIDE DEF E!Init
  <2> QED
    BY <2>1, <2>2, <2>3, <2>4 DEF E!TypeOK
<1>2. E!Generations
  BY DEF E!Generations, E!InFlight
<1>3. E!Candidate
  BY DEF E!Candidate, E!InFlight
<1>4. E!Phases
  BY DEF E!Phases
<1>5. E!TagOfDocument
  BY DEF E!TagOfDocument
<1> QED
  BY <1>1, <1>2, <1>3, <1>4, <1>5 DEF E!IInv

\* The newest k of a sequence are its last k, in order.
LEMMA NewestLast ==
  ASSUME NEW S, NEW s \in Seq(S), NEW k \in Nat
  PROVE  /\ E!Newest(s, k) \in Seq(S)
         /\ Len(E!Newest(s, k)) = IF Len(s) > k THEN k ELSE Len(s)
         /\ \A i \in 1..Len(E!Newest(s, k)) :
              /\ E!Newest(s, k)[i] = s[Len(s) - Len(E!Newest(s, k)) + i]
              /\ Len(s) - Len(E!Newest(s, k)) + i \in 1..Len(s)
<1> DEFINE m == IF Len(s) > k THEN Len(s) - k + 1 ELSE 1
<1>1. Len(s) \in Nat /\ m \in 1..(Len(s) + 1) /\ \A i \in 1..Len(s) : s[i] \in S
  OBVIOUS
<1>2. E!Newest(s, k) = SubSeq(s, m, Len(s))
  BY DEF E!Newest
<1>3. /\ SubSeq(s, m, Len(s)) \in Seq(S)
      /\ Len(SubSeq(s, m, Len(s))) = IF m <= Len(s) THEN Len(s) - m + 1 ELSE 0
      /\ \A i \in 1..(Len(s) - m + 1) : SubSeq(s, m, Len(s))[i] = s[m + i - 1]
  <2> HIDE DEF m
  <2> QED
    BY <1>1, SubSeqProperties
<1>4. /\ Len(SubSeq(s, m, Len(s))) = IF Len(s) > k THEN k ELSE Len(s)
      /\ m - 1 = Len(s) - Len(SubSeq(s, m, Len(s)))
      /\ Len(SubSeq(s, m, Len(s))) = Len(s) - m + 1
  <2> DEFINE n == Len(s)
             q == Len(SubSeq(s, m, Len(s)))
  <2>1. n \in Nat /\ m = (IF n > k THEN n - k + 1 ELSE 1) /\ q = IF m <= n THEN n - m + 1 ELSE 0
    BY <1>1, <1>3
  <2> HIDE DEF n, q, m
  <2>2. q = (IF n > k THEN k ELSE n) /\ m - 1 = n - q /\ q = n - m + 1
    BY <2>1
  <2> QED
    BY <2>2 DEF n, q
<1> HIDE DEF m
<1>5. /\ Len(SubSeq(s, m, Len(s))) \in Nat
      /\ \A i \in 1..Len(SubSeq(s, m, Len(s))) :
            /\ m + i - 1 = Len(s) - Len(SubSeq(s, m, Len(s))) + i
            /\ Len(s) - Len(SubSeq(s, m, Len(s))) + i \in 1..Len(s)
  <2> DEFINE q == Len(SubSeq(s, m, Len(s)))
             n == Len(s)
  <2>1. q \in Nat /\ m - 1 = n - q /\ m \in Nat /\ n \in Nat /\ q <= n
    BY <1>1, <1>4
  <2> HIDE DEF q, n
  <2>2. \A i \in 1..q : m + i - 1 = n - q + i /\ n - q + i \in 1..n
    BY <2>1
  <2> QED
    BY <2>1, <2>2 DEF q, n
<1> QED
  BY <1>1, <1>2, <1>3, <1>4, <1>5

\* Pruning leaves at most Keep + 1 of the generations, and `live` on the one it was on.
LEMMA PruneKeeps ==
  ASSUME E!NodeAssumption, NEW s \in Seq(E!GenType), live \in 0..Len(s), E!Prune(s)
  PROVE  /\ gens' \in Seq(E!GenType) /\ Len(gens') <= Keep + 1
         /\ live' \in 0..Len(gens') /\ (live' = 0 <=> live = 0)
         /\ live # 0 => gens'[live'] = s[live]
         /\ \A i \in 1..Len(gens') : \E j \in 1..Len(s) : gens'[i] = s[j]
<1>1. Keep \in Nat /\ Keep + 1 \in Nat /\ Keep > 0 /\ Len(s) \in Nat
  BY DEF E!NodeAssumption
<1>2. CASE live = 0 /\ gens' = E!Newest(s, Keep) /\ live' = 0
  <2>1. /\ gens' \in Seq(E!GenType) /\ Len(gens') <= Keep
        /\ \A i \in 1..Len(gens') : \E j \in 1..Len(s) : gens'[i] = s[j]
    <3> DEFINE t == E!Newest(s, Keep)
    <3>1. /\ t \in Seq(E!GenType) /\ Len(t) = IF Len(s) > Keep THEN Keep ELSE Len(s)
          /\ \A i \in 1..Len(t) : t[i] = s[Len(s) - Len(t) + i] /\ Len(s) - Len(t) + i \in 1..Len(s)
      BY <1>1, NewestLast
    <3>2. gens' = t
      BY <1>2
    <3> HIDE DEF t
    <3>3. \A i \in 1..Len(t) : \E j \in 1..Len(s) : t[i] = s[j]
      BY <3>1
    <3>4. Len(t) <= Keep
      BY <1>1, <3>1
    <3> QED
      BY <3>1, <3>2, <3>3, <3>4
  <2>2. Len(gens') \in Nat
    BY <2>1
  <2> QED
    BY <1>1, <1>2, <2>1, <2>2
<1>3. CASE /\ live > 0 /\ live + Keep >= Len(s)
           /\ gens' = E!Newest(s, Keep + 1) /\ live' = live - (Len(s) - Len(gens'))
  <2>1. /\ gens' \in Seq(E!GenType) /\ Len(gens') = IF Len(s) > Keep + 1 THEN Keep + 1 ELSE Len(s)
        /\ \A i \in 1..Len(gens') : /\ gens'[i] = s[Len(s) - Len(gens') + i]
                                    /\ Len(s) - Len(gens') + i \in 1..Len(s)
    BY <1>1, <1>3, NewestLast
  <2>2. live' \in 1..Len(gens') /\ Len(s) - Len(gens') + live' = live
    BY <1>1, <1>3, <2>1
  <2>3. Len(gens') <= Keep + 1 /\ live' \in 0..Len(gens') /\ live' # 0 /\ live # 0
    BY <1>1, <1>3, <2>1, <2>2
  <2>4. gens'[live'] = s[live]
    BY <2>1, <2>2
  <2>5. \A i \in 1..Len(gens') : \E j \in 1..Len(s) : gens'[i] = s[j]
    BY <2>1
  <2> QED
    BY <2>1, <2>3, <2>4, <2>5
<1>4. CASE /\ live > 0 /\ live + Keep < Len(s)
           /\ gens' = <<s[live]>> \o E!Newest(s, Keep) /\ live' = 1
  <2> DEFINE t == E!Newest(s, Keep)
  <2>1. /\ t \in Seq(E!GenType) /\ Len(t) = Keep
        /\ \A i \in 1..Len(t) : \E j \in 1..Len(s) : t[i] = s[j]
    BY <1>1, <1>4, NewestLast
  <2>2. <<s[live]>> \in Seq(E!GenType) /\ Len(<<s[live]>>) = 1 /\ <<s[live]>>[1] = s[live]
    BY <1>1, <1>4
  <2>3. /\ gens' \in Seq(E!GenType) /\ Len(gens') = 1 + Keep
        /\ \A i \in 1..(1 + Keep) : gens'[i] = IF i <= 1 THEN s[live] ELSE t[i - 1]
    <3> HIDE DEF t
    <3> QED
      BY <1>1, <1>4, <2>1, <2>2, ConcatProperties DEF t
  <2>4. ASSUME NEW i \in 1..(1 + Keep)  PROVE \E j \in 1..Len(s) : gens'[i] = s[j]
    <3>1. CASE i = 1
      BY <1>1, <1>4, <2>3, <3>1
    <3>2. CASE i # 1
      <4>1. i - 1 \in 1..Len(t) /\ gens'[i] = t[i - 1]
        BY <1>1, <2>1, <2>3, <3>2
      <4> QED
        BY <2>1, <4>1
    <3> QED
      BY <3>1, <3>2
  <2>5. 1 \in 0..(1 + Keep) /\ gens'[1] = s[live]
    BY <1>1, <2>3
  <2> QED
    BY <1>1, <1>4, <2>3, <2>4, <2>5
<1> QED
  BY <1>2, <1>3, <1>4 DEF E!Prune

\* The newest tested generation, if there is one, is one.
LEMMA NewestTestedIs ==
  ASSUME NEW s \in Seq(E!GenType)
  PROVE  \/ E!NewestTested(s) = 0
         \/ E!NewestTested(s) \in 1..Len(s) /\ s[E!NewestTested(s)].tested
<1> DEFINE P == {i \in DOMAIN s : s[i].tested}
<1>1. CASE P = {}
  BY <1>1 DEF E!NewestTested
<1>2. CASE P # {}
  <2>1. PICK i \in P : \A j \in P : i >= j
    <3>1. P \in SUBSET (1..Len(s)) /\ Len(s) \in Nat
      OBVIOUS
    <3> QED
      BY <1>2, <3>1, LastPosition
  <2>2. E!Max(P) \in P
    BY <2>1 DEF E!Max
  <2>3. E!NewestTested(s) = E!Max(P)
    BY <1>2 DEF E!NewestTested
  <2> QED
    BY <2>2, <2>3
<1> QED
  BY <1>1, <1>2

\* The applier's outcome, whatever it is, leaves no job, and the poll or the start in its place.
LEMMA NodeFinish ==
  ASSUME E!NodeAssumption, E!IInv, NEW ok \in BOOLEAN, job # E!NoJob, E!Finish(ok)
  PROVE  /\ E!Candidate' /\ E!Phases' /\ E!TagOfDocument' /\ ~E!InFlight'
         /\ UNCHANGED <<latest, published, reverted, cached, doc>>
         /\ tag' \in Doc \cup Unreadable \cup {NoDoc} /\ phase' \in {"down", "recover", "disk", "run"}
<1> USE DEF E!IInv, E!NoJob, E!NoPoll, E!brain
<1>1. UNCHANGED <<latest, published, reverted, cached, doc>> /\ job' = E!NoJob /\ retry' = ~ok
  BY DEF E!Finish, E!RetryAfter
<1>2. job.who \in {"poll", "disk", "retry"} /\ job.doc \in published
  BY DEF E!Candidate
<1>3. /\ latest \in Doc \cup Unreadable \cup {NoDoc} /\ published \subseteq Doc
      /\ NoDoc \notin Doc \cup Unreadable /\ Doc \cap Unreadable = {}
      /\ cached \in [doc : Doc \cup {NoDoc}, tag : Doc \cup {NoDoc}]
      /\ doc \in Doc \cup {NoDoc} /\ tag \in Doc \cup Unreadable \cup {NoDoc}
      /\ phase \in {"down", "recover", "disk", "run"}
  BY DEF E!TypeOK, E!NodeAssumption
<1>4. E!Candidate' /\ ~E!InFlight'
  BY <1>1, <1>3 DEF E!Candidate, E!InFlight
<1>5. ASSUME job.who = "poll"
      PROVE  /\ E!Phases' /\ E!TagOfDocument'
             /\ tag' \in Doc \cup Unreadable \cup {NoDoc} /\ phase' \in {"down", "recover", "disk", "run"}
  <2>1. tag' = poll.got /\ poll' = E!NoPoll /\ phase' = phase
    BY <1>5 DEF E!Finish
  <2>2. poll # E!NoPoll /\ phase = "run" /\ doc = poll.got /\ doc # NoDoc
    BY <1>5 DEF E!Phases
  <2>3. E!Phases'
    BY <1>1, <1>3, <2>1, <2>2 DEF E!Phases
  <2>4. E!TagOfDocument'
    BY <1>1, <1>3, <2>1, <2>2 DEF E!TagOfDocument
  <2> QED
    BY <1>3, <2>1, <2>2, <2>3, <2>4
<1>6. ASSUME job.who = "disk"
      PROVE  /\ E!Phases' /\ E!TagOfDocument'
             /\ tag' \in Doc \cup Unreadable \cup {NoDoc} /\ phase' \in {"down", "recover", "disk", "run"}
  <2>1. tag' = (IF ok THEN cached.tag ELSE NoDoc) /\ phase' = "run" /\ poll' = poll
    BY <1>6 DEF E!Finish
  <2>2. phase = "disk" /\ doc = cached.doc /\ poll = E!NoPoll /\ doc # NoDoc
    BY <1>6, <1>3 DEF E!Phases, E!Candidate
  <2>3. E!Phases'
    BY <1>1, <1>3, <2>1, <2>2 DEF E!Phases
  <2>4. E!TagOfDocument'
    BY <1>1, <1>3, <2>1, <2>2 DEF E!TagOfDocument
  <2> QED
    BY <1>3, <2>1, <2>2, <2>3, <2>4
<1>7. ASSUME job.who = "retry"
      PROVE  /\ E!Phases' /\ E!TagOfDocument'
             /\ tag' \in Doc \cup Unreadable \cup {NoDoc} /\ phase' \in {"down", "recover", "disk", "run"}
  <2>1. UNCHANGED <<tag, poll, phase>>
    BY <1>7 DEF E!Finish
  <2>2. phase = "run" /\ doc # NoDoc
    BY <1>7 DEF E!Phases
  <2>3. E!Phases'
    BY <1>1, <1>3, <2>1, <2>2 DEF E!Phases
  <2>4. E!TagOfDocument'
    BY <1>1, <1>3, <2>1, <2>2 DEF E!TagOfDocument
  <2> QED
    BY <1>3, <2>1, <2>2, <2>3, <2>4
<1> QED
  BY <1>1, <1>2, <1>4, <1>5, <1>6, <1>7

\* A step of the applier moves its job on, and nothing of the poll or of the document.
LEMMA NodeStepTo ==
  ASSUME E!NodeAssumption, E!IInv, job # E!NoJob,
         NEW s \in {"point", "test", "mark", "reload", "loaded", "restore", "discard"}, E!Step(s)
  PROVE  /\ E!Phases' /\ E!TagOfDocument' /\ job' = [job EXCEPT !.step = s]
         /\ UNCHANGED <<latest, published, reverted, cached, doc, tag, phase, poll, retry>>
  BY DEF E!IInv, E!NoJob, E!NoPoll, E!brain, E!Step, E!Phases, E!TagOfDocument, E!Candidate

\* What an apply that leaves the generations alone, and ends or moves on, leaves: the typing
\* and the generations as they were.
LEMMA NodeSameGenerations ==
  ASSUME E!NodeAssumption, E!IInv, UNCHANGED <<gens, live>>,
         published \subseteq published', faults' \in 0..faults,
         (E!InFlight' <=> E!InFlight) \/ faults' = faults - 1
  PROVE  /\ E!Generations' /\ Len(gens') <= Keep + Faults + 2 /\ live' \in 0..Len(gens')
         /\ faults' \in 0..Faults
<1>1. /\ gens \in Seq(E!GenType) /\ Len(gens) \in Nat /\ live \in 0..Len(gens)
      /\ Keep \in Nat /\ Faults \in Nat /\ faults \in 0..Faults
      /\ Len(gens) <= Keep + 1 + (Faults - faults) + (IF E!InFlight THEN 1 ELSE 0)
      /\ Len(gens) <= Keep + Faults + 2
      /\ \A i \in 1..Len(gens) : gens[i].doc \in published /\ (gens[i].tested => gens[i].doc \in Valid)
  BY DEF E!IInv, E!TypeOK, E!Generations, E!NodeAssumption
<1>2. faults' \in 0..Faults /\ Len(gens) <= Keep + 1 + (Faults - faults') + (IF E!InFlight' THEN 1 ELSE 0)
  BY <1>1
<1> QED
  BY <1>1, <1>2 DEF E!Generations

\* A fault leaves one fewer to come; without one they are as they were.
LEMMA NodeFaults ==
  ASSUME E!IInv, E!NodeAssumption, NEW what, E!Fault(what) \/ E!Calm
  PROVE  faults' \in 0..faults
  BY DEF E!Fault, E!Calm, E!IInv, E!TypeOK, E!NodeAssumption

\* The brain's steps, the poll's and the process's leave the generations alone.
LEMMA NodeOutside ==
  ASSUME E!NodeAssumption, E!IInv,
         \/ \E d \in Doc \cup Unreadable : E!Publish(d)
         \/ E!PollOnce \/ E!SaveCached \/ E!StartPoll \/ E!StartRetry
         \/ E!Boot \/ E!StartFromDisk \/ E!Kill
  PROVE  E!IInv' /\ serving' = serving /\ published \subseteq published' /\ published' \subseteq Doc
<1> USE DEF E!brain, E!disk, E!NoJob, E!NoPoll
<1>1. /\ latest \in Doc \cup Unreadable \cup {NoDoc} /\ published \subseteq Doc
      /\ NoDoc \notin Doc \cup Unreadable /\ Doc \cap Unreadable = {}
      /\ reverted \in BOOLEAN
      /\ cached \in [doc : Doc \cup {NoDoc}, tag : Doc \cup {NoDoc}]
      /\ doc \in Doc \cup {NoDoc} /\ tag \in Doc \cup Unreadable \cup {NoDoc}
      /\ phase \in {"down", "recover", "disk", "run"} /\ serving \in Doc \cup {NoDoc}
      /\ faults \in Nat
  BY DEF E!IInv, E!TypeOK, E!NodeAssumption
<1>2. E!Candidate /\ E!Phases /\ E!TagOfDocument
  BY DEF E!IInv
<1> DEFINE Kept == /\ UNCHANGED <<gens, live, serving>>
                   /\ published \subseteq published' /\ published' \subseteq Doc
                   /\ ((E!InFlight' <=> E!InFlight) \/ faults' = faults - 1) /\ faults' \in 0..faults
           Typed == /\ latest' \in Doc \cup Unreadable \cup {NoDoc} /\ reverted' \in BOOLEAN
                    /\ cached' \in [doc : Doc \cup {NoDoc}, tag : Doc \cup {NoDoc}]
                    /\ doc' \in Doc \cup {NoDoc} /\ tag' \in Doc \cup Unreadable \cup {NoDoc}
                    /\ phase' \in {"down", "recover", "disk", "run"}
           Held == Kept /\ Typed /\ E!Candidate' /\ E!Phases' /\ E!TagOfDocument'
<1>3. ASSUME NEW d \in Doc \cup Unreadable, E!Publish(d)  PROVE Held
  <2>1. Kept
    BY <1>1, <1>2, <1>3 DEF E!Publish, E!InFlight, E!Candidate, E!Phases
  <2>2. Typed
    BY <1>1, <1>2, <1>3 DEF E!Publish, E!Phases
  <2>3. E!Candidate'
    BY <1>1, <1>2, <1>3 DEF E!Publish, E!Candidate, E!InFlight, E!Phases
  <2>4. E!Phases'
    BY <1>1, <1>2, <1>3 DEF E!Publish, E!Phases, E!Candidate
  <2>5. E!TagOfDocument'
    BY <1>1, <1>2, <1>3 DEF E!Publish, E!TagOfDocument, E!Phases
  <2> QED
    BY <2>1, <2>2, <2>3, <2>4, <2>5
<1>4. ASSUME E!PollOnce  PROVE Held
  <2>1. Kept
    BY <1>1, <1>2, <1>4 DEF E!PollOnce, E!InFlight, E!Candidate, E!Phases
  <2>2. Typed
    BY <1>1, <1>2, <1>4 DEF E!PollOnce, E!Phases
  <2>3. E!Candidate'
    BY <1>1, <1>2, <1>4 DEF E!PollOnce, E!Candidate, E!InFlight, E!Phases
  <2>4. E!Phases'
    BY <1>1, <1>2, <1>4 DEF E!PollOnce, E!Phases, E!Candidate
  <2>5. E!TagOfDocument'
    BY <1>1, <1>2, <1>4 DEF E!PollOnce, E!TagOfDocument, E!Phases
  <2> QED
    BY <2>1, <2>2, <2>3, <2>4, <2>5
<1>5. ASSUME E!SaveCached  PROVE Held
  <2>1. Kept
    BY <1>1, <1>2, <1>5 DEF E!SaveCached, E!SavedNext, E!Fault, E!Calm, E!InFlight, E!Candidate, E!Phases
  <2>2. Typed
    BY <1>1, <1>2, <1>5 DEF E!SaveCached, E!SavedNext, E!Fault, E!Calm, E!Phases
  <2>3. E!Candidate'
    BY <1>1, <1>2, <1>5 DEF E!SaveCached, E!SavedNext, E!Fault, E!Calm, E!Candidate, E!InFlight, E!Phases
  <2>4. E!Phases'
    BY <1>1, <1>2, <1>5 DEF E!SaveCached, E!SavedNext, E!Fault, E!Calm, E!Phases, E!Candidate
  <2>5. E!TagOfDocument'
    BY <1>1, <1>2, <1>5 DEF E!SaveCached, E!SavedNext, E!Fault, E!Calm, E!TagOfDocument, E!Phases
  <2> QED
    BY <2>1, <2>2, <2>3, <2>4, <2>5
<1>6. ASSUME E!StartPoll  PROVE Held
  <2>1. Kept
    BY <1>1, <1>2, <1>6 DEF E!StartPoll, E!Begin, E!InFlight, E!Candidate, E!Phases
  <2>2. Typed
    BY <1>1, <1>2, <1>6 DEF E!StartPoll, E!Begin, E!Phases
  <2>3. E!Candidate'
    BY <1>1, <1>2, <1>6 DEF E!StartPoll, E!Begin, E!Candidate, E!InFlight, E!Phases
  <2>4. E!Phases'
    BY <1>1, <1>2, <1>6 DEF E!StartPoll, E!Begin, E!Phases, E!Candidate
  <2>5. E!TagOfDocument'
    BY <1>1, <1>2, <1>6 DEF E!StartPoll, E!Begin, E!TagOfDocument, E!Phases
  <2> QED
    BY <2>1, <2>2, <2>3, <2>4, <2>5
<1>7. ASSUME E!StartRetry  PROVE Held
  <2>1. Kept
    BY <1>1, <1>2, <1>7 DEF E!StartRetry, E!Begin, E!InFlight, E!Candidate, E!Phases
  <2>2. Typed
    BY <1>1, <1>2, <1>7 DEF E!StartRetry, E!Begin, E!Phases
  <2>3. E!Candidate'
    BY <1>1, <1>2, <1>7 DEF E!StartRetry, E!Begin, E!Candidate, E!InFlight, E!Phases
  <2>4. E!Phases'
    BY <1>1, <1>2, <1>7 DEF E!StartRetry, E!Begin, E!Phases, E!Candidate
  <2>5. E!TagOfDocument'
    BY <1>1, <1>2, <1>7 DEF E!StartRetry, E!Begin, E!TagOfDocument, E!Phases
  <2> QED
    BY <2>1, <2>2, <2>3, <2>4, <2>5
<1>8. ASSUME E!Boot  PROVE Held
  <2>1. Kept
    BY <1>1, <1>2, <1>8 DEF E!Boot, E!InFlight, E!Candidate, E!Phases
  <2>2. Typed
    BY <1>1, <1>2, <1>8 DEF E!Boot, E!Phases
  <2>3. E!Candidate'
    BY <1>1, <1>2, <1>8 DEF E!Boot, E!Candidate, E!InFlight, E!Phases
  <2>4. E!Phases'
    BY <1>1, <1>2, <1>8 DEF E!Boot, E!Phases, E!Candidate
  <2>5. E!TagOfDocument'
    BY <1>1, <1>2, <1>8 DEF E!Boot, E!TagOfDocument, E!Phases
  <2> QED
    BY <2>1, <2>2, <2>3, <2>4, <2>5
<1>9. ASSUME E!StartFromDisk  PROVE Held
  <2>1. Kept
    BY <1>1, <1>2, <1>9 DEF E!StartFromDisk, E!InFlight, E!Candidate, E!Phases
  <2>2. Typed
    BY <1>1, <1>2, <1>9 DEF E!StartFromDisk, E!Phases
  <2>3. E!Candidate'
    BY <1>1, <1>2, <1>9 DEF E!StartFromDisk, E!Candidate, E!InFlight, E!Phases
  <2>4. E!Phases'
    BY <1>1, <1>2, <1>9 DEF E!StartFromDisk, E!Phases, E!Candidate
  <2>5. E!TagOfDocument'
    BY <1>1, <1>2, <1>9 DEF E!StartFromDisk, E!TagOfDocument, E!Phases
  <2> QED
    BY <2>1, <2>2, <2>3, <2>4, <2>5
<1>10. ASSUME E!Kill  PROVE Held
  <2>1. Kept
    BY <1>1, <1>2, <1>10 DEF E!Kill, E!Fault, E!InFlight, E!Candidate, E!Phases
  <2>2. Typed
    BY <1>1, <1>2, <1>10 DEF E!Kill, E!Fault, E!Phases
  <2>3. E!Candidate'
    BY <1>1, <1>2, <1>10 DEF E!Kill, E!Fault, E!Candidate, E!InFlight, E!Phases
  <2>4. E!Phases'
    BY <1>1, <1>2, <1>10 DEF E!Kill, E!Fault, E!Phases, E!Candidate
  <2>5. E!TagOfDocument'
    BY <1>1, <1>2, <1>10 DEF E!Kill, E!Fault, E!TagOfDocument, E!Phases
  <2> QED
    BY <2>1, <2>2, <2>3, <2>4, <2>5
<1>11. Held
  BY <1>3, <1>4, <1>5, <1>6, <1>7, <1>8, <1>9, <1>10
<1>12. /\ E!Generations' /\ Len(gens') <= Keep + Faults + 2 /\ live' \in 0..Len(gens')
       /\ faults' \in 0..Faults
  BY <1>11, NodeSameGenerations
<1>13. E!TypeOK'
  BY <1>1, <1>11, <1>12 DEF E!TypeOK
<1> QED
  BY <1>11, <1>12, <1>13 DEF E!IInv

\* A sequence without its last element, and without one in its middle.
LEMMA FrontOf ==
  ASSUME NEW S, NEW s \in Seq(S), Len(s) > 0
  PROVE  /\ E!Front(s) \in Seq(S) /\ Len(E!Front(s)) = Len(s) - 1
         /\ \A i \in 1..(Len(s) - 1) : E!Front(s)[i] = s[i]
<1>1. Len(s) \in Nat /\ 1 \in 1..(Len(s) + 1) /\ Len(s) - 1 \in 0..Len(s) /\ 1 \in Int /\ Len(s) - 1 \in Int
  OBVIOUS
<1> DEFINE n == Len(s) - 1
<1>2. n \in Nat /\ E!Front(s) = SubSeq(s, 1, n) /\ \A i \in 1..n : s[i] \in S
  BY <1>1 DEF E!Front
<1>3. /\ SubSeq(s, 1, n) \in Seq(S) /\ Len(SubSeq(s, 1, n)) = (IF 1 <= n THEN n - 1 + 1 ELSE 0)
      /\ \A i \in 1..(n - 1 + 1) : SubSeq(s, 1, n)[i] = s[1 + i - 1]
  <2>1. 1 \in 1..(Len(s) + 1) /\ n \in 0..Len(s) /\ \A i \in 1..n : s[i] \in S
    BY <1>1, <1>2
  <2> HIDE DEF n
  <2> QED
    BY <2>1, SubSeqProperties
<1> HIDE DEF n
<1>4. n - 1 + 1 = n /\ \A i \in 1..n : 1 + i - 1 = i
  BY <1>2
<1>5. Len(SubSeq(s, 1, n)) = n /\ \A i \in 1..n : SubSeq(s, 1, n)[i] = s[i]
  BY <1>2, <1>3, <1>4
<1> QED
  BY <1>2, <1>3, <1>5 DEF n

\* Removing a place keeps the other members, one place shorter.
LEMMA RemovedAt ==
  ASSUME NEW S, NEW s \in Seq(S), NEW k \in 1..Len(s)
  PROVE  /\ E!RemoveAt(s, k) \in Seq(S) /\ Len(E!RemoveAt(s, k)) = Len(s) - 1
         /\ \A i \in 1..(Len(s) - 1) : \E j \in 1..Len(s) : E!RemoveAt(s, k)[i] = s[j]
<1> DEFINE a == SubSeq(s, 1, k - 1)
           b == SubSeq(s, k + 1, Len(s))
<1>1. Len(s) \in Nat /\ k \in Nat /\ k <= Len(s) /\ k >= 1 /\ \A i \in 1..Len(s) : s[i] \in S
  OBVIOUS
<1>2. a \in Seq(S) /\ Len(a) = k - 1 /\ \A i \in 1..(k - 1) : a[i] = s[i]
  BY <1>1, SubSeqProperties
<1>3. b \in Seq(S) /\ Len(b) = Len(s) - k /\ \A i \in 1..(Len(s) - k) : b[i] = s[k + i]
  BY <1>1, SubSeqProperties
<1>4. E!RemoveAt(s, k) = a \o b
  BY DEF E!RemoveAt
<1> HIDE DEF a, b
<1>5. /\ a \o b \in Seq(S) /\ Len(a \o b) = Len(s) - 1
      /\ \A i \in 1..(Len(s) - 1) : (a \o b)[i] = IF i <= k - 1 THEN a[i] ELSE b[i - (k - 1)]
  BY <1>1, <1>2, <1>3, ConcatProperties
<1>6. ASSUME NEW i \in 1..(Len(s) - 1)  PROVE \E j \in 1..Len(s) : (a \o b)[i] = s[j]
  <2>1. CASE i <= k - 1
    BY <1>1, <1>2, <1>5, <2>1
  <2>2. CASE ~(i <= k - 1)
    <3>1. i - (k - 1) \in 1..(Len(s) - k) /\ i + 1 \in 1..Len(s) /\ k + (i - (k - 1)) = i + 1
      BY <1>1, <2>2
    <3>2. (a \o b)[i] = b[i - (k - 1)] /\ b[i - (k - 1)] = s[k + (i - (k - 1))]
      BY <1>3, <1>5, <2>2, <3>1
    <3> QED
      BY <3>1, <3>2
  <2> QED
    BY <2>1, <2>2
<1> QED
  BY <1>4, <1>5, <1>6

\* Marking a generation tested or reloaded changes nothing else of it, and no other.
LEMMA MarkedAt ==
  ASSUME NEW s \in Seq(E!GenType), NEW k \in 1..Len(s), NEW e \in E!GenType, e.doc = s[k].doc
  PROVE  /\ [s EXCEPT ![k] = e] \in Seq(E!GenType) /\ Len([s EXCEPT ![k] = e]) = Len(s)
         /\ [s EXCEPT ![k] = e][k] = e
         /\ \A i \in 1..Len(s) : /\ i # k => [s EXCEPT ![k] = e][i] = s[i]
                                 /\ [s EXCEPT ![k] = e][i].doc = s[i].doc
  BY ExceptSeq

\* Marking a generation tested changes no other, and no document.
LEMMA MarkedTested ==
  ASSUME NEW s \in Seq(E!GenType), NEW k \in 1..Len(s)
  PROVE  LET t == [s EXCEPT ![k].tested = TRUE]
         IN  /\ t \in Seq(E!GenType) /\ Len(t) = Len(s) /\ t[k].tested
             /\ \A i \in 1..Len(s) : (i # k => t[i] = s[i]) /\ t[i].doc = s[i].doc
<1> DEFINE e == [s[k] EXCEPT !.tested = TRUE]
<1>1. s[k] \in E!GenType
  OBVIOUS
<1>2. e \in E!GenType /\ e.doc = s[k].doc /\ e.tested
  BY <1>1 DEF E!GenType
<1> DEFINE t == [s EXCEPT ![k].tested = TRUE]
<1>3. t = [s EXCEPT ![k] = e]
  OBVIOUS
<1> HIDE DEF e, t
<1>4. /\ t \in Seq(E!GenType) /\ Len(t) = Len(s) /\ t[k] = e
      /\ \A i \in 1..Len(s) : (i # k => t[i] = s[i]) /\ t[i].doc = s[i].doc
  BY <1>2, <1>3, MarkedAt
<1> QED
  BY <1>2, <1>4 DEF t

\* Marking a generation reloaded changes no other, and no document or test.
LEMMA MarkedReloaded ==
  ASSUME NEW s \in Seq(E!GenType), NEW k \in 1..Len(s)
  PROVE  LET t == [s EXCEPT ![k].reloaded = TRUE]
         IN  /\ t \in Seq(E!GenType) /\ Len(t) = Len(s) /\ t[k].tested = s[k].tested
             /\ \A i \in 1..Len(s) : (i # k => t[i] = s[i]) /\ t[i].doc = s[i].doc
<1> DEFINE e == [s[k] EXCEPT !.reloaded = TRUE]
<1>1. s[k] \in E!GenType
  OBVIOUS
<1>2. e \in E!GenType /\ e.doc = s[k].doc /\ e.tested = s[k].tested
  BY <1>1 DEF E!GenType
<1> DEFINE t == [s EXCEPT ![k].reloaded = TRUE]
<1>3. t = [s EXCEPT ![k] = e]
  OBVIOUS
<1> HIDE DEF e, t
<1>4. /\ t \in Seq(E!GenType) /\ Len(t) = Len(s) /\ t[k] = e
      /\ \A i \in 1..Len(s) : (i # k => t[i] = s[i]) /\ t[i].doc = s[i].doc
  BY <1>2, <1>3, MarkedAt
<1> QED
  BY <1>2, <1>4 DEF t

\* The sizes that the generations' bound gives.
LEMMA NodeSizes ==
  ASSUME E!NodeAssumption, E!Generations', live' \in 0..Len(gens'), faults' \in 0..Faults
  PROVE  Len(gens') <= Keep + Faults + 2
  BY DEF E!NodeAssumption, E!Generations

\* Every step of the applier keeps the generations, and what it knows of its candidate; and
\* only the reload changes what is served, to a tested generation's document.
LEMMA NodeApplies ==
  ASSUME E!NodeAssumption, E!IInv,
         \/ E!Enter \/ E!WriteGeneration \/ E!PointLive \/ E!Test \/ E!MarkTested
         \/ E!Reload \/ E!MarkReloaded \/ E!Restore \/ E!Discard \/ E!Recover
  PROVE  /\ E!IInv' /\ published' = published
         /\ serving' # serving => serving' \in published \cap Valid
<1> USE DEF E!brain, E!disk
<1> DEFINE n == Len(gens)
           Good(g) == g.doc \in published /\ (g.tested => g.doc \in Valid)
           Bound(k) == k <= Keep + 1 + (Faults - faults') + (IF E!InFlight' THEN 1 ELSE 0)
           Kept == /\ gens' \in Seq(E!GenType) /\ \A i \in 1..Len(gens') : Good(gens'[i])
                   /\ Bound(Len(gens')) /\ live' \in 0..Len(gens') /\ faults' \in 0..Faults
           Told == /\ UNCHANGED <<latest, published, reverted, cached, doc>>
                   /\ tag' \in Doc \cup Unreadable \cup {NoDoc} /\ phase' \in {"down", "recover", "disk", "run"}
                   /\ E!Phases' /\ E!TagOfDocument'
           Served == serving' = serving \/ serving' \in published \cap Valid
           Held == Kept /\ Told /\ E!Candidate' /\ Served
<1>1. /\ latest \in Doc \cup Unreadable \cup {NoDoc} /\ published \subseteq Doc
      /\ NoDoc \notin Doc \cup Unreadable /\ Doc \cap Unreadable = {}
      /\ reverted \in BOOLEAN
      /\ cached \in [doc : Doc \cup {NoDoc}, tag : Doc \cup {NoDoc}]
      /\ doc \in Doc \cup {NoDoc} /\ tag \in Doc \cup Unreadable \cup {NoDoc}
      /\ phase \in {"down", "recover", "disk", "run"} /\ serving \in Doc \cup {NoDoc}
      /\ faults \in 0..Faults /\ Faults \in Nat /\ Keep \in Nat /\ Keep > 0
  BY DEF E!IInv, E!TypeOK, E!NodeAssumption
<1>2. /\ gens \in Seq(E!GenType) /\ n \in Nat /\ live \in 0..n
      /\ \A i \in 1..n : gens[i] \in E!GenType /\ Good(gens[i])
      /\ n <= Keep + 1 + (Faults - faults) + (IF E!InFlight THEN 1 ELSE 0)
  BY DEF E!IInv, E!TypeOK, E!Generations
<1>3. E!Candidate /\ E!Phases /\ E!TagOfDocument
  BY DEF E!IInv
<1>4. ASSUME NEW ok \in BOOLEAN, job # E!NoJob, E!Finish(ok)
      PROVE  Told /\ E!Candidate' /\ ~E!InFlight'
  BY <1>4, NodeFinish
<1>5. ASSUME job # E!NoJob,
             NEW s \in {"point", "test", "mark", "reload", "loaded", "restore", "discard"}, E!Step(s)
      PROVE  /\ Told /\ job' = [job EXCEPT !.step = s]
             /\ E!InFlight' <=> s \in {"point", "test", "mark", "restore", "discard"}
  <2>1. /\ E!Phases' /\ E!TagOfDocument' /\ job' = [job EXCEPT !.step = s]
        /\ UNCHANGED <<latest, published, reverted, cached, doc, tag, phase, poll, retry>>
    BY <1>5, NodeStepTo
  <2>2. job'.step = s
    BY <1>3, <2>1 DEF E!Candidate
  <2> QED
    BY <1>1, <2>1, <2>2 DEF E!InFlight
<1>6. ASSUME UNCHANGED <<gens, live>>, faults' \in 0..faults,
             (E!InFlight => E!InFlight') \/ faults' = faults - 1
      PROVE  Kept
  <2>1. faults' \in 0..Faults /\ Bound(n)
    BY <1>1, <1>2, <1>6
  <2> QED
    BY <1>2, <1>6, <2>1
<1>7. Told => published' = published
  OBVIOUS
<1> DEFINE JobType == [who : {"none", "poll", "retry", "disk"}, doc : Doc \cup {NoDoc},
                       step : {"none", "enter", "write", "point", "test", "mark", "reload",
                               "loaded", "restore", "discard"}, prev : Nat]
<1>8. /\ job \in JobType
      /\ job # E!NoJob => job.doc \in published /\ job.who # "none" /\ job.step # "none"
      /\ job # E!NoJob => job.doc \in Doc
  BY <1>1, <1>3 DEF E!Candidate
<1>9. ASSUME NEW s \in {"point", "test", "mark", "reload", "loaded", "restore", "discard"},
             job' = [job EXCEPT !.step = s]
      PROVE  /\ job' \in JobType /\ job'.step = s
             /\ job'.who = job.who /\ job'.doc = job.doc /\ job'.prev = job.prev
  BY <1>8, <1>9
<1>10. ASSUME NEW s \in {"point", "test", "mark", "reload", "loaded", "restore", "discard"},
              job # E!NoJob, job' = [job EXCEPT !.step = s], published' = published,
              s \in {"point", "test", "mark", "restore", "discard"} =>
                /\ job.prev < Len(gens')
                /\ gens'[Len(gens')].doc = job.doc /\ ~gens'[Len(gens')].tested,
              s \in {"test", "mark"} => live' = Len(gens'),
              s = "mark" => job.doc \in Valid,
              s \in {"point", "discard"} => live' < Len(gens'),
              s \in {"reload", "loaded"} => live' # 0 /\ gens'[live'].tested
       PROVE  E!Candidate'
  <2>1. /\ job' \in JobType /\ job'.step = s
        /\ job'.who = job.who /\ job'.doc = job.doc /\ job'.prev = job.prev
    BY <1>9, <1>10
  <2>2. job'.doc \in published' /\ job'.who # "none" /\ job'.step # "none"
    BY <1>8, <1>10, <2>1
  <2>3. E!InFlight' <=> s \in {"point", "test", "mark", "restore", "discard"}
    BY <2>1 DEF E!InFlight
  <2> QED
    BY <1>10, <2>1, <2>2, <2>3 DEF E!Candidate
<1> HIDE DEF Kept, Told, Served, JobType
<1>11. ASSUME E!Enter  PROVE Held
  <2>1. job # E!NoJob /\ ~E!InFlight /\ UNCHANGED <<gens, live, serving, faults>>
    BY <1>11 DEF E!Enter, E!NoJob, E!InFlight, E!Calm
  <2>2. Kept /\ Served
    BY <1>1, <1>6, <2>1 DEF Served
  <2>3. CASE E!Finish(TRUE)
    BY <1>4, <2>1, <2>2, <2>3
  <2>4. CASE E!Step("reload") /\ E!Trusted(live)
    <3>1. Told /\ job' = [job EXCEPT !.step = "reload"]
      BY <1>5, <2>1, <2>4
    <3>2. live' # 0 /\ gens'[live'].tested
      BY <2>1, <2>4 DEF E!Trusted
    <3>3. E!Candidate'
      BY <1>7, <1>10, <2>1, <3>1, <3>2
    <3> QED
      BY <2>2, <3>1, <3>3
  <2>5. CASE /\ job' = [job EXCEPT !.step = "write", !.prev = live]
             /\ UNCHANGED <<latest, published, reverted, cached, phase, doc, tag, retry, poll>>
    <3>1. live \in Nat
      BY <1>2
    <3>2. /\ job' \in JobType /\ job'.step = "write" /\ job'.prev = live
          /\ job'.who = job.who /\ job'.doc = job.doc
      BY <1>8, <2>5, <3>1 DEF JobType
    <3>3. E!Candidate'
      BY <1>2, <1>8, <2>1, <2>5, <3>2 DEF E!Candidate, E!InFlight, JobType
    <3>4. E!Phases' /\ E!TagOfDocument'
      BY <1>1, <1>3, <2>1, <2>5, <3>2 DEF E!Phases, E!TagOfDocument, E!NoJob
    <3> QED
      BY <1>1, <2>2, <2>5, <3>3, <3>4 DEF Told
  <2> QED
    BY <1>11, <2>3, <2>4, <2>5 DEF E!Enter
<1>12. ASSUME E!WriteGeneration  PROVE Held
  <2>1. /\ job # E!NoJob /\ ~E!InFlight /\ UNCHANGED <<live, serving>>
        /\ job.step = "write" /\ job.prev <= n
    BY <1>3, <1>12 DEF E!WriteGeneration, E!NoJob, E!InFlight, E!Candidate
  <2>2. CASE E!Fault("write") /\ E!Finish(FALSE) /\ gens' = gens
    <3>1. faults' \in 0..faults
      BY <2>2, NodeFaults
    <3> QED
      BY <1>4, <1>6, <2>1, <2>2, <3>1 DEF Served
  <2>3. CASE /\ gens' = Append(gens, [doc |-> job.doc, tested |-> FALSE, reloaded |-> FALSE])
             /\ E!Step("point") /\ E!Calm
    <3> DEFINE g == [doc |-> job.doc, tested |-> FALSE, reloaded |-> FALSE]
    <3>1. Told /\ job' = [job EXCEPT !.step = "point"] /\ E!InFlight'
      BY <1>5, <2>1, <2>3
    <3>2. g \in E!GenType /\ Good(g) /\ g.doc = job.doc /\ ~g.tested
      BY <1>8, <2>1 DEF E!GenType
    <3> HIDE DEF g
    <3>3. /\ gens' \in Seq(E!GenType) /\ Len(gens') = n + 1 /\ gens'[n + 1] = g
          /\ \A i \in 1..n : gens'[i] = gens[i]
      BY <1>2, <2>3, <3>2 DEF g
    <3>4. \A i \in 1..Len(gens') : Good(gens'[i])
      BY <1>2, <3>2, <3>3
    <3>5. Bound(Len(gens')) /\ live' \in 0..Len(gens') /\ faults' \in 0..Faults
      BY <1>1, <1>2, <2>1, <2>3, <3>1, <3>3 DEF E!Calm
    <3>6. live' < Len(gens') /\ job.prev < Len(gens')
      BY <1>2, <1>8, <2>1, <3>3 DEF JobType
    <3>7. E!Candidate'
      BY <1>7, <1>10, <2>1, <3>1, <3>2, <3>3, <3>6
    <3> QED
      BY <2>1, <3>1, <3>3, <3>4, <3>5, <3>7 DEF Kept, Served
  <2> QED
    BY <1>12, <2>2, <2>3 DEF E!WriteGeneration
<1>13. E!InFlight => /\ job # E!NoJob /\ n > 0 /\ job.prev < n
                     /\ gens[n].doc = job.doc /\ ~gens[n].tested
  BY <1>2, <1>3, <1>8 DEF E!Candidate, E!InFlight, E!NoJob, JobType
<1>14. ASSUME E!PointLive  PROVE Held
  <2>1. E!InFlight /\ job.step = "point" /\ live < n /\ UNCHANGED serving
    BY <1>3, <1>14 DEF E!PointLive, E!InFlight, E!Candidate
  <2>2. CASE live' = Len(gens) /\ E!Step("test") /\ E!Calm /\ UNCHANGED gens
    <3>1. Told /\ job' = [job EXCEPT !.step = "test"] /\ E!InFlight'
      BY <1>5, <1>13, <2>1, <2>2
    <3>2. E!Candidate'
      BY <1>7, <1>10, <1>13, <2>1, <2>2, <3>1
    <3>3. Kept
      BY <1>1, <1>2, <2>1, <2>2, <3>1 DEF Kept, E!Calm
    <3> QED
      BY <2>1, <3>1, <3>2, <3>3 DEF Served
  <2>3. CASE E!Fault("write") /\ gens' = E!Front(gens) /\ E!Finish(FALSE) /\ UNCHANGED live
    <3>1. Told /\ E!Candidate' /\ ~E!InFlight'
      BY <1>4, <1>13, <2>1, <2>3
    <3>2. gens' \in Seq(E!GenType) /\ Len(gens') = n - 1 /\ \A i \in 1..(n - 1) : gens'[i] = gens[i]
      BY <1>2, <1>13, <2>1, <2>3, FrontOf
    <3>3. faults' \in 0..faults
      BY <2>3, NodeFaults
    <3>4. \A i \in 1..Len(gens') : Good(gens'[i])
      BY <1>2, <3>2
    <3>5. Bound(Len(gens')) /\ live' \in 0..Len(gens') /\ faults' \in 0..Faults
      BY <1>1, <1>2, <2>1, <2>3, <3>1, <3>2, <3>3
    <3> QED
      BY <2>1, <3>1, <3>2, <3>4, <3>5 DEF Kept, Served
  <2> QED
    BY <1>14, <2>2, <2>3 DEF E!PointLive
<1>15. ASSUME E!Test  PROVE Held
  <2>1. E!InFlight /\ live = n /\ UNCHANGED <<gens, live, serving>>
    BY <1>3, <1>15 DEF E!Test, E!InFlight, E!Candidate
  <2>2. faults' \in 0..faults
    BY <1>15, NodeFaults DEF E!Test
  <2>3. CASE job.doc \in Valid /\ E!Step("mark")
    <3>1. Told /\ job' = [job EXCEPT !.step = "mark"] /\ E!InFlight'
      BY <1>5, <1>13, <2>1, <2>3
    <3>2. E!Candidate'
      BY <1>7, <1>10, <1>13, <2>1, <2>3, <3>1
    <3> QED
      BY <1>6, <2>1, <2>2, <3>1, <3>2 DEF Served
  <2>4. CASE E!Step("restore")
    <3>1. Told /\ job' = [job EXCEPT !.step = "restore"] /\ E!InFlight'
      BY <1>5, <1>13, <2>1, <2>4
    <3>2. E!Candidate'
      BY <1>7, <1>10, <1>13, <2>1, <2>4, <3>1
    <3> QED
      BY <1>6, <2>1, <2>2, <3>1, <3>2 DEF Served
  <2> QED
    BY <1>15, <2>3, <2>4 DEF E!Test
<1>16. ASSUME E!MarkTested  PROVE Held
  <2>1. E!InFlight /\ live = n /\ live \in 1..n /\ gens[live].doc \in Valid /\ UNCHANGED serving
    BY <1>2, <1>3, <1>13, <1>16 DEF E!MarkTested, E!InFlight, E!Candidate
  <2>2. faults' \in 0..faults
    BY <1>16, NodeFaults DEF E!MarkTested
  <2>3. CASE E!Prune([gens EXCEPT ![live].tested = TRUE]) /\ E!Step("reload") /\ E!Calm
    <3> DEFINE s == [gens EXCEPT ![live].tested = TRUE]
    <3>1. Told /\ job' = [job EXCEPT !.step = "reload"]
      BY <1>5, <1>13, <2>1, <2>3
    <3>2. /\ s \in Seq(E!GenType) /\ Len(s) = n /\ s[live].tested
          /\ \A i \in 1..n : Good(s[i])
      BY <1>2, <2>1, MarkedTested
    <3> HIDE DEF s
    <3>3. /\ gens' \in Seq(E!GenType) /\ Len(gens') <= Keep + 1
          /\ live' \in 0..Len(gens') /\ live' # 0 /\ gens'[live'] = s[live]
          /\ \A i \in 1..Len(gens') : \E j \in 1..Len(s) : gens'[i] = s[j]
      <4>1. E!Prune(s) /\ live \in 0..Len(s) /\ live # 0
        BY <2>1, <2>3, <3>2 DEF s
      <4> QED
        BY <3>2, <4>1, PruneKeeps
    <3>4. E!Candidate'
      BY <1>7, <1>10, <1>13, <2>1, <3>1, <3>2, <3>3
    <3>5. \A i \in 1..Len(gens') : Good(gens'[i])
      BY <3>2, <3>3
    <3>6. Bound(Len(gens')) /\ faults' \in 0..Faults
      BY <1>1, <2>2, <3>3
    <3> QED
      BY <2>1, <3>1, <3>3, <3>4, <3>5, <3>6 DEF Kept, Served
  <2>4. CASE E!Fault("mark") /\ E!Finish(FALSE) /\ UNCHANGED <<gens, live>>
    <3>1. faults' = faults - 1
      BY <2>4 DEF E!Fault
    <3> QED
      BY <1>4, <1>6, <1>13, <2>1, <2>2, <2>4, <3>1 DEF Served
  <2> QED
    BY <1>16, <2>3, <2>4 DEF E!MarkTested
<1>17. ASSUME E!Reload  PROVE Held
  <2>1. /\ job # E!NoJob /\ ~E!InFlight /\ UNCHANGED <<gens, live>>
        /\ live \in 1..n /\ gens[live].tested
    BY <1>2, <1>3, <1>17 DEF E!Reload, E!InFlight, E!Candidate, E!NoJob
  <2>2. faults' \in 0..faults
    BY <1>17, NodeFaults DEF E!Reload
  <2>3. Kept
    BY <1>6, <2>1, <2>2
  <2>4. CASE serving' = gens[live].doc /\ E!Step("loaded")
    <3>1. Told /\ job' = [job EXCEPT !.step = "loaded"]
      BY <1>5, <2>1, <2>4
    <3>2. E!Candidate'
      BY <1>7, <1>10, <2>1, <3>1
    <3> QED
      BY <1>2, <2>1, <2>3, <2>4, <3>1, <3>2 DEF Served
  <2>5. CASE E!Finish(FALSE) /\ UNCHANGED serving
    BY <1>4, <2>1, <2>3, <2>5 DEF Served
  <2> QED
    BY <1>17, <2>4, <2>5 DEF E!Reload
<1>18. ASSUME E!MarkReloaded  PROVE Held
  <2>1. /\ job # E!NoJob /\ ~E!InFlight /\ UNCHANGED <<live, serving>>
        /\ live \in 1..n /\ gens[live].tested /\ E!Finish(TRUE)
    <3>1. job.step = "loaded" /\ E!Finish(TRUE) /\ UNCHANGED <<live, serving>>
      BY <1>18 DEF E!MarkReloaded
    <3>2. job # E!NoJob /\ ~E!InFlight
      BY <3>1 DEF E!NoJob, E!InFlight
    <3>3. live # 0 /\ gens[live].tested
      BY <1>3, <3>1 DEF E!Candidate
    <3>4. live \in 1..n
      BY <1>2, <3>3
    <3> HIDE DEF n
    <3> QED
      BY <3>1, <3>2, <3>3, <3>4
  <2>2. faults' \in 0..faults
    BY <1>18, NodeFaults DEF E!MarkReloaded
  <2>3. Told /\ E!Candidate' /\ ~E!InFlight'
    BY <1>4, <2>1
  <2>4. /\ gens' \in Seq(E!GenType) /\ Len(gens') = n
        /\ \A i \in 1..n : Good(gens'[i])
    <3>1. CASE gens' = [gens EXCEPT ![live].reloaded = TRUE]
      BY <1>2, <2>1, <3>1, MarkedReloaded
    <3>2. CASE UNCHANGED gens
      BY <1>2, <3>2
    <3> QED
      BY <1>18, <3>1, <3>2 DEF E!MarkReloaded
  <2>5. Bound(Len(gens')) /\ live' \in 0..Len(gens') /\ faults' \in 0..Faults
    BY <1>1, <1>2, <2>1, <2>2, <2>3, <2>4
  <2> QED
    BY <2>1, <2>3, <2>4, <2>5 DEF Kept, Served
<1>19. ASSUME E!Restore  PROVE Held
  <2>1. E!InFlight /\ UNCHANGED <<gens, serving>> /\ E!Step("discard")
    BY <1>19 DEF E!Restore, E!InFlight
  <2>2. faults' \in 0..faults
    BY <1>19, NodeFaults DEF E!Restore
  <2>3. job.prev \in Nat /\ job.prev < n
    BY <1>8, <1>13, <2>1 DEF JobType
  <2>4. E!NewestTested(gens) \in 0..(n - 1)
    <3>1. \/ E!NewestTested(gens) = 0
          \/ E!NewestTested(gens) \in 1..n /\ gens[E!NewestTested(gens)].tested
      BY <1>2, NewestTestedIs
    <3> QED
      BY <1>2, <1>13, <2>1, <3>1
  <2>5. live' \in 0..(n - 1)
    <3>1. E!RestoreTo(job.prev) \in 0..(n - 1)
      BY <1>2, <2>3, <2>4 DEF E!RestoreTo
    <3> QED
      BY <1>2, <1>13, <1>19, <2>1, <3>1 DEF E!Restore
  <2>6. Told /\ job' = [job EXCEPT !.step = "discard"] /\ E!InFlight'
    BY <1>5, <1>13, <2>1
  <2>7. E!Candidate'
    BY <1>2, <1>7, <1>10, <1>13, <2>1, <2>5, <2>6
  <2>8. Bound(Len(gens')) /\ live' \in 0..Len(gens') /\ faults' \in 0..Faults
    BY <1>1, <1>2, <2>1, <2>2, <2>5, <2>6
  <2> QED
    BY <1>2, <2>1, <2>6, <2>7, <2>8 DEF Kept, Served
<1>20. ASSUME E!Discard  PROVE Held
  <2>1. /\ E!InFlight /\ live < n /\ UNCHANGED serving /\ faults' = faults
        /\ E!Prune(E!Front(gens)) /\ E!Finish(FALSE)
    BY <1>3, <1>20 DEF E!Discard, E!InFlight, E!Candidate, E!Calm
  <2> DEFINE s == E!Front(gens)
  <2>2. s \in Seq(E!GenType) /\ Len(s) = n - 1 /\ \A i \in 1..(n - 1) : s[i] = gens[i]
    BY <1>2, <1>13, <2>1, FrontOf
  <2>3. E!Prune(s) /\ live \in 0..Len(s)
    BY <1>2, <2>1, <2>2
  <2> HIDE DEF s
  <2>4. /\ gens' \in Seq(E!GenType) /\ Len(gens') <= Keep + 1 /\ live' \in 0..Len(gens')
        /\ \A i \in 1..Len(gens') : \E j \in 1..Len(s) : gens'[i] = s[j]
    BY <2>2, <2>3, PruneKeeps
  <2>5. Told /\ E!Candidate' /\ ~E!InFlight'
    BY <1>4, <1>13, <2>1
  <2>6. \A i \in 1..Len(gens') : Good(gens'[i])
    BY <1>2, <2>2, <2>4
  <2>7. Bound(Len(gens')) /\ faults' \in 0..Faults
    BY <1>1, <2>1, <2>4, <2>5
  <2> QED
    BY <2>1, <2>4, <2>5, <2>6, <2>7 DEF Kept, Served
<1>21. ASSUME E!Recover  PROVE Held
  <2>1. /\ phase = "recover" /\ phase' = "disk" /\ job = E!NoJob
        /\ UNCHANGED <<latest, published, reverted, cached, serving, doc, tag, retry, poll, job>>
    BY <1>3, <1>21 DEF E!Recover, E!Phases
  <2>2. E!Phases' /\ E!TagOfDocument' /\ E!Candidate' /\ (E!InFlight' <=> E!InFlight)
    BY <1>1, <1>3, <2>1 DEF E!Phases, E!TagOfDocument, E!Candidate, E!InFlight, E!NoJob, E!NoPoll
  <2>3. Told /\ Served /\ ~E!InFlight
    BY <1>1, <2>1, <2>2 DEF Told, Served, E!InFlight, E!NoJob
  <2>4. faults' \in 0..faults
    BY <1>21, NodeFaults DEF E!Recover
  <2>5. CASE UNCHANGED <<gens, live>>
    BY <1>6, <2>2, <2>3, <2>4, <2>5
  <2>6. CASE E!Unjudged /\ gens[live].doc \in Valid /\ live' = live
             /\ gens' = [gens EXCEPT ![live].tested = TRUE]
    <3>1. live \in 1..n
      BY <1>2, <2>6 DEF E!Unjudged
    <3>2. gens' \in Seq(E!GenType) /\ Len(gens') = n /\ \A i \in 1..n : Good(gens'[i])
      BY <1>2, <2>6, <3>1, MarkedTested
    <3>3. Bound(Len(gens')) /\ live' \in 0..Len(gens') /\ faults' \in 0..Faults
      BY <1>1, <1>2, <2>2, <2>3, <2>4, <2>6, <3>2
    <3> QED
      BY <2>2, <2>3, <3>2, <3>3 DEF Kept
  <2>7. CASE E!Unjudged /\ gens' = E!RemoveAt(gens, live) /\ live' = E!NewestTested(gens')
    <3>1. live \in 1..n
      BY <1>2, <2>7 DEF E!Unjudged
    <3>2. /\ gens' \in Seq(E!GenType) /\ Len(gens') = n - 1
          /\ \A i \in 1..(n - 1) : \E j \in 1..n : gens'[i] = gens[j]
      BY <1>2, <2>7, <3>1, RemovedAt
    <3>3. live' \in 0..Len(gens')
      BY <1>2, <2>7, <3>1, <3>2, NewestTestedIs
    <3>4. \A i \in 1..Len(gens') : Good(gens'[i])
      BY <1>2, <3>2
    <3>5. Bound(Len(gens')) /\ faults' \in 0..Faults
      BY <1>1, <1>2, <2>2, <2>3, <2>4, <3>2
    <3> QED
      BY <2>2, <2>3, <3>2, <3>3, <3>4, <3>5 DEF Kept
  <2> QED
    BY <1>21, <2>5, <2>6, <2>7 DEF E!Recover
<1>22. Held
  BY <1>11, <1>12, <1>14, <1>15, <1>16, <1>17, <1>18, <1>19, <1>20, <1>21
<1>23. E!Generations' /\ live' \in 0..Len(gens') /\ faults' \in 0..Faults
  BY <1>7, <1>22 DEF Kept, E!Generations
<1>24. /\ UNCHANGED <<latest, published, reverted, cached, doc>>
       /\ tag' \in Doc \cup Unreadable \cup {NoDoc} /\ phase' \in {"down", "recover", "disk", "run"}
       /\ E!Phases' /\ E!TagOfDocument'
  BY <1>22 DEF Told
<1>25. serving' = serving \/ serving' \in published \cap Valid
  BY <1>22 DEF Served
<1>26. E!TypeOK'
  BY <1>1, <1>23, <1>24, <1>25, NodeSizes DEF E!TypeOK
<1> QED
  BY <1>22, <1>23, <1>24, <1>25, <1>26 DEF E!IInv

\* Every step of the node keeps its invariant.
LEMMA NodeStep ==
  ASSUME E!NodeAssumption, E!IInv, [E!Next]_E!vars
  PROVE  E!IInv'
<1>1. ASSUME UNCHANGED E!vars  PROVE E!IInv'
  BY <1>1 DEF E!vars, E!brain, E!disk, E!IInv, E!TypeOK, E!Generations, E!Candidate, E!Phases, E!TagOfDocument,
              E!InFlight, E!NoJob, E!NoPoll, E!GenType
<1> QED
  BY <1>1, NodeOutside, NodeApplies DEF E!Next

\* Every step of the node is the publication of a readable document, the load of a
\* published and valid one, or neither.
LEMMA NodePassesGate ==
  ASSUME E!NodeAssumption, E!IInv, [E!Next]_E!vars
  PROVE  [E!Gate!Next]_<<published, serving>>
<1>1. ASSUME NEW d \in Doc \cup Unreadable, E!Publish(d)
      PROVE  (d \in Doc /\ E!Gate!Publish(d)) \/ UNCHANGED <<published, serving>>
  BY <1>1 DEF E!Publish, E!disk, E!Gate!Publish
<1>2. CASE E!PollOnce \/ E!SaveCached \/ E!StartPoll \/ E!StartRetry \/ E!Boot \/ E!StartFromDisk \/ E!Kill
  <2>1. serving' = serving
    BY <1>2, NodeOutside
  <2>2. published' = published
    BY <1>2 DEF E!PollOnce, E!SaveCached, E!StartPoll, E!StartRetry, E!Boot, E!StartFromDisk, E!Kill, E!brain
  <2> QED
    BY <2>1, <2>2
<1>3. CASE \/ E!Enter \/ E!WriteGeneration \/ E!PointLive \/ E!Test \/ E!MarkTested
           \/ E!Reload \/ E!MarkReloaded \/ E!Restore \/ E!Discard \/ E!Recover
  <2>1. published' = published /\ (serving' # serving => serving' \in published \cap Valid)
    BY <1>3, NodeApplies
  <2>2. serving' # serving => E!Gate!Load(serving')
    BY <2>1 DEF E!Gate!Load
  <2>3. serving' # serving => serving' \in Doc
    BY <2>1 DEF E!NodeAssumption
  <2> QED
    BY <2>1, <2>2, <2>3 DEF E!Gate!Next
<1>4. CASE UNCHANGED E!vars
  BY <1>4 DEF E!vars, E!brain
<1> QED
  BY <1>1, <1>2, <1>3, <1>4 DEF E!Next, E!Gate!Next

\* The invariant is what the poll relies on: the tag names no newer document.
LEMMA NodeCurrent ==
  ASSUME E!IInv
  PROVE  E!TypeOK /\ E!NotModifiedIsCurrent
  BY DEF E!IInv, E!TagOfDocument, E!NotModifiedIsCurrent, E!Misled

---------------------------------------------------------------------------
(* The clearance keys.                                                     *)

\* The masters of two ages that finitely many keepers hold are at most twice as many.
LEMMA MastersSize ==
  ASSUME NEW S, IsFiniteSet(S), NEW g,
         NEW M, \A y \in M : \E x \in S : y = g[x][0] \/ y = g[x][1]
  PROVE  IsFiniteSet(M) /\ Cardinality(M) \in Nat /\ Cardinality(M) <= 2 * Cardinality(S)
<1> DEFINE g0 == [x \in S |-> g[x][0]]
           g1 == [x \in S |-> g[x][1]]
           M0 == {g0[x] : x \in S}
           M1 == {g1[x] : x \in S}
<1>1. M \in SUBSET (M0 \cup M1)
  OBVIOUS
<1>2. IsFiniteSet(M0) /\ Cardinality(M0) <= Cardinality(S)
  <2>1. DOMAIN g0 = S /\ g0 = [x \in S |-> g0[x]]
    OBVIOUS
  <2> HIDE DEF g0
  <2> QED
    BY <2>1, ImageFinite
<1>3. IsFiniteSet(M1) /\ Cardinality(M1) <= Cardinality(S)
  <2>1. DOMAIN g1 = S /\ g1 = [x \in S |-> g1[x]]
    OBVIOUS
  <2> HIDE DEF g1
  <2> QED
    BY <2>1, ImageFinite
<1>4. Cardinality(S) \in Nat /\ Cardinality(M0) \in Nat /\ Cardinality(M1) \in Nat
  BY <1>2, <1>3, FS_CardinalityType
<1> HIDE DEF M0, M1
<1>5. /\ IsFiniteSet(M0 \cup M1) /\ Cardinality(M0 \cup M1) \in Nat
      /\ Cardinality(M0 \cup M1) <= Cardinality(M0) + Cardinality(M1)
  BY <1>2, <1>3, UnionSize
<1>6. IsFiniteSet(M) /\ Cardinality(M) \in Nat /\ Cardinality(M) <= Cardinality(M0 \cup M1)
  BY <1>1, <1>5, FS_Subset, FS_CardinalityType
<1> QED
  BY <1>2, <1>3, <1>4, <1>5, <1>6

\* Finite and counted mean the same in the part and here.
LEMMA KeysCounted ==
  /\ \A S : K!IsFiniteSet(S) <=> IsFiniteSet(S)
  /\ \A S : K!Cardinality(S) = Cardinality(S)
<1>1. \A S : K!IsFiniteSet(S) <=> IsFiniteSet(S)
  BY DEF K!IsFiniteSet, IsFiniteSet
<1>2. \A S : K!Cardinality(S) = Cardinality(S)
  BY DEF K!Cardinality, Cardinality
<1> QED
  BY <1>1, <1>2

\* A draw is of a secret, and one nobody holds.
LEMMA DrawnFresh ==
  ASSUME K!ClearanceAssumption, K!Typed
  PROVE  K!Drawn \in Secret /\ K!Drawn \notin K!InUse
<1> DEFINE R == {ring[a] : a \in K!Age}
           S == {saved[p][a] : p \in Path, a \in K!Age}
           N == {keys[n][a] : n \in Holder, a \in K!Age}
<1>1. /\ ring \in [K!Age -> Secret \cup {K!No}]
      /\ saved \in [Path -> [K!Age -> Secret \cup {K!No}]]
      /\ keys \in [Holder -> [K!Age -> Secret \cup {K!No}]]
      /\ IsFiniteSet(Path) /\ IsFiniteSet(Holder)
  BY KeysCounted DEF K!Typed, K!TypeOK, K!ClearanceAssumption
<1>2. IsFiniteSet(S) /\ Cardinality(S) \in Nat /\ Cardinality(S) <= 2 * Cardinality(Path)
  <2>1. \A y \in S : \E x \in Path : y = saved[x][0] \/ y = saved[x][1]
    BY DEF K!Age
  <2> HIDE DEF S
  <2> QED
    BY <1>1, <2>1, MastersSize
<1>3. IsFiniteSet(N) /\ Cardinality(N) \in Nat /\ Cardinality(N) <= 2 * Cardinality(Holder)
  <2>1. \A y \in N : \E x \in Holder : y = keys[x][0] \/ y = keys[x][1]
    BY DEF K!Age
  <2> HIDE DEF N
  <2> QED
    BY <1>1, <2>1, MastersSize
<1>4. IsFiniteSet(R) /\ Cardinality(R) \in Nat /\ Cardinality(R) <= 2
  <2>1. R = {ring[0]} \cup {ring[1]}
    BY DEF K!Age
  <2>2. IsFiniteSet({ring[0]}) /\ IsFiniteSet({ring[1]})
        /\ Cardinality({ring[0]}) = 1 /\ Cardinality({ring[1]}) = 1
    BY FS_Singleton
  <2> HIDE DEF R
  <2> QED
    BY <2>1, <2>2, UnionSize
<1>5. IsFiniteSet({cookie.secret}) /\ Cardinality({cookie.secret}) = 1
  BY FS_Singleton
<1>6. K!InUse = ((R \cup S) \cup N) \cup {cookie.secret}
  BY DEF K!InUse
<1> HIDE DEF R, S, N
<1>7. /\ IsFiniteSet(R \cup S) /\ Cardinality(R \cup S) \in Nat
      /\ Cardinality(R \cup S) <= Cardinality(R) + Cardinality(S)
  BY <1>2, <1>4, UnionSize
<1>8. /\ IsFiniteSet((R \cup S) \cup N) /\ Cardinality((R \cup S) \cup N) \in Nat
      /\ Cardinality((R \cup S) \cup N) <= Cardinality(R \cup S) + Cardinality(N)
  BY <1>3, <1>7, UnionSize
<1>9. /\ IsFiniteSet(K!InUse) /\ Cardinality(K!InUse) \in Nat
      /\ Cardinality(K!InUse) <= Cardinality((R \cup S) \cup N) + 1
  BY <1>5, <1>6, <1>8, UnionSize
<1>10. Cardinality(Path) \in Nat /\ Cardinality(Holder) \in Nat
  BY <1>1, FS_CardinalityType
<1>11. Cardinality(K!InUse) <= 2 * (Cardinality(Path) + Cardinality(Holder)) + 3
  BY <1>2, <1>3, <1>4, <1>7, <1>8, <1>9, <1>10
<1>12. Secret \ K!InUse # {}
  <2> SUFFICES ASSUME Secret \subseteq K!InUse  PROVE FALSE
    OBVIOUS
  <2>1. IsFiniteSet(Secret) /\ Cardinality(Secret) <= Cardinality(K!InUse)
    BY <1>9, FS_Subset
  <2>2. Cardinality(Secret) > 2 * (Cardinality(Path) + Cardinality(Holder)) + 3 /\ Cardinality(Secret) \in Nat
    BY <2>1, FS_CardinalityType, KeysCounted DEF K!ClearanceAssumption
  <2> QED
    BY <1>9, <1>10, <1>11, <2>1, <2>2
<1> QED
  BY <1>12 DEF K!Drawn

\* No masters, no cookie and nothing read at the start.
LEMMA KeysInit ==
  ASSUME K!ClearanceAssumption, K!Init
  PROVE  K!IInv
<1> USE DEF K!ClearanceAssumption, K!Init, K!Empty, K!NoCookie, K!Unread, K!No, K!Memory, K!Age
<1>1. K!TypeOK
  BY DEF K!TypeOK
<1>2. K!Typed
  BY <1>1 DEF K!Typed
<1>3. K!RingKept /\ K!CookieHeld
  BY DEF K!RingKept, K!CookieHeld
<1> QED
  BY <1>2, <1>3 DEF K!IInv

\* What a snapshot serves: masters of today and yesterday, those in memory first, then
\* those of a file read for the first time, and a draw only where neither has today's.
LEMMA KeysServed ==
  ASSUME K!ClearanceAssumption, K!IInv, NEW k, k = K!Ensured(K!Adopted)
  PROVE  /\ k.ring \in [K!Age -> Secret \cup {K!No}] /\ k.ring[0] # K!No
         /\ k.file \in [path : Path \cup {K!Memory}, loaded : BOOLEAN, unusable : BOOLEAN, dirty : BOOLEAN]
         /\ k.file.loaded /\ k.file.path = setting
         /\ setting \in Foreign => k.file.unusable
         /\ \A a \in K!Age : ring[a] # K!No => k.ring[a] = ring[a]
         /\ ~ringFile.loaded /\ setting \in Path \ Foreign
              => \A a \in K!Age : saved[setting][a] # K!No => k.ring[a] = saved[setting][a]
         /\ setting \in Path \ Foreign /\ ~k.file.dirty
              => \A a \in K!Age : k.ring[a] # K!No => saved[setting][a] = k.ring[a]
         /\ k.ring[0] # K!Drawn /\ ringFile.loaded => ring[0] = k.ring[0]
         /\ k.ring[0] # K!Drawn /\ ~ringFile.loaded
              => setting \in Path \ Foreign /\ saved[setting][0] = k.ring[0]
<1> DEFINE A == K!Adopted
           M == [K!Age -> Secret \cup {K!No}]
           F == [path : Path \cup {K!Memory}, loaded : BOOLEAN, unusable : BOOLEAN, dirty : BOOLEAN]
<1>1. /\ ring \in M /\ saved \in [Path -> M] /\ ringFile \in F /\ setting \in Path \cup {K!Memory}
      /\ K!RingKept /\ Foreign \subseteq Path /\ K!Memory \notin Path /\ K!No \notin Secret
  BY DEF K!IInv, K!Typed, K!TypeOK, K!ClearanceAssumption
<1>2. K!Drawn \in Secret
  BY DrawnFresh DEF K!IInv
<1>3. 0 \in K!Age /\ K!Age = {0, 1}
  BY DEF K!Age
<1>4. /\ A.ring \in M /\ A.file \in F /\ A.file.loaded /\ A.file.path = setting
      /\ setting \in Foreign => A.file.unusable
      /\ \A a \in K!Age : ring[a] # K!No => A.ring[a] = ring[a]
      /\ ~ringFile.loaded /\ setting \in Path \ Foreign
           => \A a \in K!Age : saved[setting][a] # K!No => A.ring[a] = saved[setting][a]
      /\ setting \in Path \ Foreign /\ ~A.file.dirty
           => \A a \in K!Age : A.ring[a] # K!No => saved[setting][a] = A.ring[a]
      /\ A.ring[0] # K!No /\ ringFile.loaded => ring[0] = A.ring[0]
      /\ A.ring[0] # K!No /\ ~ringFile.loaded
           => setting \in Path \ Foreign /\ saved[setting][0] = A.ring[0]
  <2> DEFINE opened == [K!Unread EXCEPT !.path = setting, !.loaded = TRUE]
  <2>1. opened \in F /\ opened.loaded /\ opened.path = setting /\ ~opened.unusable /\ ~opened.dirty
    <3> DEFINE v == [K!Unread EXCEPT !.path = setting]
    <3>1. K!Unread \in F /\ ~K!Unread.unusable /\ ~K!Unread.dirty
      BY DEF K!Unread
    <3>2. v \in F /\ v.path = setting /\ ~v.unusable /\ ~v.dirty
      BY <1>1, <3>1
    <3>3. opened = [v EXCEPT !.loaded = TRUE]
      OBVIOUS
    <3> HIDE DEF v
    <3> QED
      BY <3>2, <3>3
  <2> HIDE DEF opened
  <2>2. CASE ringFile.loaded /\ ringFile.path = setting
    <3>1. A = [ring |-> ring, file |-> ringFile]
      BY <2>2 DEF K!Adopted
    <3> QED
      BY <1>1, <2>2, <3>1 DEF K!RingKept
  <2>3. CASE ~(ringFile.loaded /\ ringFile.path = setting) /\ setting = K!Memory
    <3>1. A = [ring |-> ring, file |-> opened]
      BY <2>3 DEF K!Adopted, opened
    <3>2. A.ring = ring /\ A.file = opened
      BY <3>1
    <3>3. A.file \in F /\ A.file.loaded /\ A.file.path = setting
      BY <2>1, <3>2
    <3>4. ~ringFile.loaded => ring[0] = K!No
      BY <1>1, <1>3 DEF K!RingKept, K!Empty
    <3>5. setting \notin Path /\ setting \notin Foreign
      BY <1>1, <2>3
    <3> HIDE DEF A, F, M
    <3> QED
      BY <1>1, <3>2, <3>3, <3>4, <3>5
  <2>4. CASE ~(ringFile.loaded /\ ringFile.path = setting) /\ setting \in Foreign
    <3>1. A = [ring |-> ring, file |-> [opened EXCEPT !.unusable = TRUE]]
      BY <1>1, <2>4 DEF K!Adopted, opened
    <3>2. /\ A.ring = ring /\ A.file \in F /\ A.file.loaded /\ A.file.path = setting
          /\ A.file.unusable
      BY <2>1, <3>1
    <3> QED
      BY <1>1, <1>3, <2>4, <3>2 DEF K!RingKept, K!Empty
  <2>5. CASE ~(ringFile.loaded /\ ringFile.path = setting) /\ setting \in Path \ Foreign
    <3> DEFINE d == K!Ahead(ring, saved[setting])
    <3>1. A = [ring |-> K!Merged(ring, saved[setting]), file |-> [opened EXCEPT !.dirty = d]]
      BY <1>1, <2>5 DEF K!Adopted, opened
    <3>2. /\ A.ring = K!Merged(ring, saved[setting])
          /\ A.file = [opened EXCEPT !.dirty = d]
      BY <3>1
    <3>3. d \in BOOLEAN
      BY DEF K!Ahead
    <3>4. saved[setting] \in M
      BY <1>1, <2>5
    <3>5. /\ A.ring \in M
          /\ \A a \in K!Age : A.ring[a] = IF ring[a] # K!No THEN ring[a] ELSE saved[setting][a]
      BY <1>1, <3>2, <3>4 DEF K!Merged
    <3>6. A.file \in F /\ A.file.loaded /\ A.file.path = setting /\ (A.file.dirty <=> d)
      BY <2>1, <3>2, <3>3
    <3>7. ~A.file.dirty => \A a \in K!Age : A.ring[a] # K!No => saved[setting][a] = A.ring[a]
      BY <3>5, <3>6 DEF K!Ahead
    <3>8. ~ringFile.loaded => \A a \in K!Age : ring[a] = K!No
      BY <1>1 DEF K!RingKept, K!Empty
    <3>9. A.ring[0] # K!No /\ ringFile.loaded => ring[0] = A.ring[0]
      BY <1>1, <1>3, <2>5, <3>5 DEF K!RingKept
    <3> HIDE DEF A, M, F, d
    <3> QED
      BY <1>3, <2>5, <3>5, <3>6, <3>7, <3>8, <3>9
  <2> QED
    BY <1>1, <2>2, <2>3, <2>4, <2>5
<1> HIDE DEF A, M, F
<1>5. CASE A.ring[0] # K!No
  <2>1. k = A
    BY <1>5 DEF K!Ensured, A
  <2> QED
    BY <1>3, <1>4, <1>5, <2>1 DEF M, F
<1>6. CASE A.ring[0] = K!No
  <2>1. k = [ring |-> [A.ring EXCEPT ![0] = K!Drawn], file |-> [A.file EXCEPT !.dirty = TRUE]]
    BY <1>6 DEF K!Ensured, A
  <2>2. /\ k.ring \in M /\ k.ring[0] = K!Drawn /\ \A a \in K!Age : a # 0 => k.ring[a] = A.ring[a]
    BY <1>2, <1>3, <1>4, <2>1 DEF M
  <2>3. /\ k.file \in F /\ k.file.dirty /\ k.file.loaded = A.file.loaded
        /\ k.file.path = A.file.path /\ k.file.unusable = A.file.unusable
    <3>1. k.file = [A.file EXCEPT !.dirty = TRUE]
      BY <2>1
    <3> QED
      BY <1>4, <3>1 DEF F
  <2> QED
    BY <1>1, <1>2, <1>3, <1>4, <1>6, <2>2, <2>3 DEF M, F
<1> QED
  BY <1>5, <1>6

\* A time short of the epoch is itself, modulo the epoch.
LEMMA ModSmall ==
  ASSUME NEW b \in Nat \ {0}, NEW a \in 0..(b - 1)
  PROVE  a % b = a
<1>1. a \in Int /\ b \in Int /\ b > 0 /\ 0 <= a /\ a < b
  OBVIOUS
<1> QED
  BY <1>1, SMTT(30)

\* A snapshot, a solved puzzle, a reload, a restart and time keep the masters and the cookie.
LEMMA KeysPoll ==
  ASSUME K!ClearanceAssumption, K!IInv, NEW n \in Holder, K!Poll(n)
  PROVE  K!IInv'
<1> DEFINE k == K!Ensured(K!Adopted)
           M == [K!Age -> Secret \cup {K!No}]
           F == [path : Path \cup {K!Memory}, loaded : BOOLEAN, unusable : BOOLEAN, dirty : BOOLEAN]
<1>1. /\ k.ring \in M /\ k.ring[0] # K!No /\ k.file \in F
      /\ k.file.loaded /\ k.file.path = setting
      /\ setting \in Foreign => k.file.unusable
      /\ \A a \in K!Age : ring[a] # K!No => k.ring[a] = ring[a]
      /\ ~ringFile.loaded /\ setting \in Path \ Foreign
           => \A a \in K!Age : saved[setting][a] # K!No => k.ring[a] = saved[setting][a]
      /\ setting \in Path \ Foreign /\ ~k.file.dirty
           => \A a \in K!Age : k.ring[a] # K!No => saved[setting][a] = k.ring[a]
  <2> HIDE DEF k
  <2>1. k = K!Ensured(K!Adopted)
    BY DEF k
  <2> QED
    BY <2>1, KeysServed
<1>2. /\ ring' = k.ring /\ keys' = [keys EXCEPT ![n] = k.ring]
      /\ UNCHANGED <<clock, setting, cookie>>
      /\ \/ /\ K!Writable(k) /\ saved' = [saved EXCEPT ![k.file.path] = k.ring]
            /\ ringFile' = [k.file EXCEPT !.dirty = FALSE]
         \/ ringFile' = k.file /\ UNCHANGED saved
  BY DEF K!Poll
<1> HIDE DEF k
<1>3. /\ ring \in M /\ saved \in [Path -> M] /\ keys \in [Holder -> M]
      /\ setting \in Path \cup {K!Memory} /\ K!Typed /\ K!RingKept /\ K!CookieHeld
      /\ Foreign \subseteq Path /\ K!Memory \notin Path /\ 0 \in K!Age
  BY DEF K!IInv, K!Typed, K!TypeOK, K!ClearanceAssumption, K!Age
<1>4. /\ saved' \in [Path -> M] /\ ringFile' \in F /\ ringFile'.loaded /\ ringFile'.path = setting
      /\ setting \in Foreign => ringFile'.unusable
      /\ setting \in Path \ Foreign /\ ~ringFile'.dirty
           => \A a \in K!Age : k.ring[a] # K!No => saved'[setting][a] = k.ring[a]
  <2>1. CASE /\ K!Writable(k) /\ saved' = [saved EXCEPT ![k.file.path] = k.ring]
             /\ ringFile' = [k.file EXCEPT !.dirty = FALSE]
    <3>1. /\ ringFile' \in F /\ ringFile'.loaded /\ ringFile'.path = setting
          /\ setting \in Foreign => ringFile'.unusable
      BY <1>1, <2>1
    <3>2. setting \in Path
      BY <1>1, <1>3, <2>1 DEF K!Writable
    <3>3. saved' \in [Path -> M] /\ saved'[setting] = k.ring
      BY <1>1, <1>3, <2>1, <3>2
    <3> HIDE DEF M, F
    <3> QED
      BY <3>1, <3>3
  <2>2. CASE ringFile' = k.file /\ UNCHANGED saved
    <3> HIDE DEF M, F
    <3> QED
      BY <1>1, <1>3, <2>2
  <2> QED
    BY <1>2, <2>1, <2>2
<1>5. keys' \in [Holder -> M]
  BY <1>1, <1>2, <1>3
<1>6. K!Typed'
  BY <1>1, <1>2, <1>3, <1>4, <1>5 DEF K!Typed, K!TypeOK
<1>7. K!RingKept'
  BY <1>1, <1>2, <1>4 DEF K!RingKept
<1>8. K!CookieHeld'
  <2>1. cookie.age \in K!Age
    BY <1>3 DEF K!Typed, K!TypeOK
  <2>2. ASSUME cookie # K!NoCookie  PROVE k.ring[cookie.age] = cookie.secret
    BY <1>1, <1>3, <2>1, <2>2 DEF K!CookieHeld
  <2> HIDE DEF M, F
  <2> QED
    BY <1>2, <1>3, <1>4, <2>2 DEF K!CookieHeld, K!NoCookie
<1> QED
  BY <1>6, <1>7, <1>8 DEF K!IInv

\* A cookie is issued under the secret of the day, by a node that has the ring.
LEMMA KeysIssue ==
  ASSUME K!ClearanceAssumption, K!IInv, NEW n \in Holder, NEW ttl \in 1..MaxTtl, K!Issue(n, ttl)
  PROVE  K!IInv'
<1> DEFINE k == K!Ensured(K!Adopted)
<1>1. keys[n] = k.ring /\ UNCHANGED <<clock, setting, ring, ringFile, saved, keys>>
  BY DEF K!Issue, K!Current
<1>2. /\ k.ring[0] # K!No /\ k.ring[0] \in Secret
      /\ k.ring[0] # K!Drawn /\ ringFile.loaded => ring[0] = k.ring[0]
      /\ k.ring[0] # K!Drawn /\ ~ringFile.loaded
           => setting \in Path \ Foreign /\ saved[setting][0] = k.ring[0]
  <2> HIDE DEF k
  <2>1. k = K!Ensured(K!Adopted)
    BY DEF k
  <2>2. k.ring \in [K!Age -> Secret \cup {K!No}] /\ 0 \in K!Age
    BY <2>1, KeysServed DEF K!Age
  <2> QED
    BY <2>1, <2>2, KeysServed
<1>3. k.ring[0] # K!Drawn
  <2>1. keys[n][0] \in K!InUse
    BY DEF K!InUse, K!Age
  <2> QED
    BY <1>1, <2>1, DrawnFresh DEF K!IInv
<1> HIDE DEF k
<1>4. cookie' = [age |-> 0, secret |-> k.ring[0], left |-> ttl]
  BY <1>1, <1>2 DEF K!Issue, K!IssuingKey
<1>5. /\ clock \in 0..(Epoch - 1) /\ Epoch \in Nat /\ MaxTtl \in Nat /\ 0 \in K!Age
  BY DEF K!IInv, K!Typed, K!TypeOK, K!ClearanceAssumption, K!Age
<1>6. K!Typed'
  <2>1. cookie' \in [age : K!Age, secret : Secret \cup {K!No}, left : 0..MaxTtl]
    BY <1>2, <1>4, <1>5
  <2> QED
    BY <1>1, <2>1 DEF K!IInv, K!Typed, K!TypeOK
<1>7. K!RingKept'
  BY <1>1 DEF K!IInv, K!RingKept
<1>8. K!CookieHeld'
  BY <1>1, <1>2, <1>3, <1>4 DEF K!CookieHeld
<1> QED
  BY <1>6, <1>7, <1>8 DEF K!IInv

\* A reload moves the file; the ring in memory stays.
LEMMA KeysReload ==
  ASSUME K!ClearanceAssumption, K!IInv, K!Reload
  PROVE  K!IInv'
<1> USE DEF K!Reload, K!IInv
<1>1. K!NoCookie \in [age : K!Age, secret : Secret \cup {K!No}, left : 0..MaxTtl]
  BY DEF K!NoCookie, K!Age, K!ClearanceAssumption
<1>2. K!Typed'
  BY <1>1 DEF K!Typed, K!TypeOK
<1>3. K!RingKept'
  BY DEF K!RingKept
<1>4. K!CookieHeld'
  BY DEF K!CookieHeld
<1> QED
  BY <1>2, <1>3, <1>4

\* A restart forgets the ring in memory, and only a cookie whose file keeps it is still held to.
LEMMA KeysRestart ==
  ASSUME K!ClearanceAssumption, K!IInv, K!Restart
  PROVE  K!IInv'
<1> USE DEF K!Restart, K!IInv
<1>1. /\ K!NoCookie \in [age : K!Age, secret : Secret \cup {K!No}, left : 0..MaxTtl]
      /\ K!Empty \in [K!Age -> Secret \cup {K!No}]
      /\ K!Unread \in [path : Path \cup {K!Memory}, loaded : BOOLEAN, unusable : BOOLEAN, dirty : BOOLEAN]
      /\ ~K!Unread.loaded
  BY DEF K!NoCookie, K!Age, K!ClearanceAssumption, K!Empty, K!Unread
<1>2. K!Typed'
  BY <1>1 DEF K!Typed, K!TypeOK
<1>3. K!RingKept'
  BY <1>1 DEF K!RingKept
<1>4. ASSUME K!Kept, cookie # K!NoCookie
      PROVE  /\ setting \in Path \ Foreign
             /\ saved[setting][cookie.age] = cookie.secret
  <2>1. setting \in Path \ Foreign /\ ringFile.loaded /\ ringFile.path = setting /\ ~ringFile.dirty
    BY <1>4 DEF K!Kept, K!RingKept, K!Typed, K!TypeOK
  <2>2. ring[cookie.age] = cookie.secret /\ cookie.secret # K!No /\ cookie.age \in K!Age
    BY <1>4, <2>1 DEF K!CookieHeld, K!Typed, K!TypeOK
  <2> QED
    BY <2>1, <2>2 DEF K!RingKept
<1>5. K!CookieHeld'
  <2>1. CASE K!Kept
    BY <1>1, <1>4, <2>1 DEF K!CookieHeld, K!Kept
  <2>2. CASE ~K!Kept
    BY <2>2 DEF K!CookieHeld
  <2> QED
    BY <2>1, <2>2
<1> QED
  BY <1>2, <1>3, <1>5

\* Midnight ages every secret, and with them the cookie's.
LEMMA KeysTick ==
  ASSUME K!ClearanceAssumption, K!IInv, K!Tick
  PROVE  K!IInv'
<1> DEFINE M == [K!Age -> Secret \cup {K!No}]
           Ck == [age : K!Age, secret : Secret \cup {K!No}, left : 0..MaxTtl]
<1>1. /\ clock \in 0..(Epoch - 1) /\ Epoch \in Nat \ {0} /\ MaxTtl \in 1..Epoch
      /\ ring \in M /\ saved \in [Path -> M] /\ keys \in [Holder -> M] /\ cookie \in Ck
      /\ setting \in Path \cup {K!Memory} /\ K!Age = {0, 1}
      /\ K!RingKept /\ K!CookieHeld /\ K!Typed
  BY DEF K!IInv, K!Typed, K!TypeOK, K!ClearanceAssumption, K!Age
<1>2. /\ clock' = (IF clock = Epoch - 1 THEN 0 ELSE clock + 1) /\ clock' \in 0..(Epoch - 1)
      /\ UNCHANGED <<setting, ringFile>>
  <2>1. clock' = (clock + 1) % Epoch
    BY DEF K!Tick
  <2>2. CASE clock = Epoch - 1
    <3>1. clock + 1 = Epoch /\ Epoch % Epoch = 0
      BY <1>1, <2>2
    <3> QED
      BY <1>1, <2>1, <2>2, <3>1 DEF K!Tick
  <2>3. CASE clock # Epoch - 1
    <3>1. clock + 1 \in 0..(Epoch - 1)
      BY <1>1, <2>3
    <3>2. (clock + 1) % Epoch = clock + 1
      BY <1>1, <3>1, ModSmall
    <3> QED
      BY <2>1, <2>3, <3>1, <3>2 DEF K!Tick
  <2> QED
    BY <2>2, <2>3
<1>3. ASSUME NEW r \in M
      PROVE  K!Older(r) \in M /\ K!Older(r)[0] = K!No /\ K!Older(r)[1] = r[0]
  BY <1>1, <1>3 DEF K!Older
<1>4. CASE clock' = 0
  <2>1. /\ ring' = K!Older(ring) /\ saved' = [p \in Path |-> K!Older(saved[p])]
        /\ keys' = [m \in Holder |-> K!Older(keys[m])]
    BY <1>4 DEF K!Tick
  <2>2. /\ ring' \in M /\ ring'[0] = K!No /\ ring'[1] = ring[0]
        /\ saved' \in [Path -> M] /\ keys' \in [Holder -> M]
        /\ \A p \in Path : saved'[p][0] = K!No /\ saved'[p][1] = saved[p][0]
    <3> HIDE DEF M
    <3> QED
      BY <1>1, <1>3, <2>1
  <2>3. K!RingKept'
    <3>1. K!Empty = [a \in {0, 1} |-> K!No]
      BY <1>1 DEF K!Empty
    <3>2. ~ringFile.loaded => ring' = K!Empty
      BY <1>1, <2>2, <3>1 DEF K!RingKept
    <3> QED
      BY <1>1, <1>2, <2>2, <3>2 DEF K!RingKept
  <2>4. /\ cookie' \in Ck
        /\ cookie' # K!NoCookie =>
             /\ cookie # K!NoCookie /\ cookie.age = 0 /\ cookie'.age = 1
             /\ cookie'.secret = cookie.secret /\ cookie'.left = cookie.left - 1 /\ cookie.left > 1
    <3>1. CASE cookie.left <= 1
      BY <1>1, <3>1 DEF K!Tick, K!NoCookie, K!ClearanceAssumption
    <3>2. CASE cookie.left > 1
      <4>1. cookie' = [cookie EXCEPT !.left = cookie.left - 1, !.age = cookie.age + 1]
        <5>1. cookie' = [cookie EXCEPT !.left = @ - 1, !.age = IF clock' = 0 THEN @ + 1 ELSE @]
          BY <1>1, <3>2 DEF K!Tick
        <5> QED
          BY <1>4, <5>1
      <4>2. cookie # K!NoCookie
        BY <3>2 DEF K!NoCookie
      <4>3. clock = Epoch - 1
        BY <1>1, <1>2, <1>4
      <4>4. cookie.age = 0
        BY <1>1, <3>2, <4>2, <4>3 DEF K!CookieHeld
      <4>5. cookie.left - 1 \in 0..MaxTtl /\ cookie.age + 1 = 1 /\ 1 \in K!Age
        BY <1>1, <3>2, <4>4
      <4> HIDE DEF Ck
      <4>6. cookie' \in Ck /\ cookie'.age = 1 /\ cookie'.secret = cookie.secret /\ cookie'.left = cookie.left - 1
        BY <1>1, <4>1, <4>5 DEF Ck
      <4> QED
        BY <3>2, <4>2, <4>4, <4>6
    <3> QED
      BY <1>1, <3>1, <3>2
  <2>5. K!CookieHeld'
    BY <1>1, <1>2, <1>4, <2>2, <2>4 DEF K!CookieHeld
  <2>6. K!Typed'
    BY <1>1, <1>2, <2>2, <2>4 DEF K!Typed, K!TypeOK
  <2> QED
    BY <2>3, <2>5, <2>6 DEF K!IInv
<1>5. CASE clock' # 0
  <2>1. UNCHANGED <<ring, saved, keys>> /\ clock' = clock + 1
    BY <1>2, <1>5 DEF K!Tick
  <2>2. /\ cookie' \in Ck
        /\ cookie' # K!NoCookie =>
             /\ cookie # K!NoCookie /\ cookie'.age = cookie.age
             /\ cookie'.secret = cookie.secret /\ cookie'.left = cookie.left - 1 /\ cookie.left > 1
    <3>1. CASE cookie.left <= 1
      BY <1>1, <3>1 DEF K!Tick, K!NoCookie, K!ClearanceAssumption
    <3>2. CASE cookie.left > 1
      <4>1. cookie' = [cookie EXCEPT !.left = cookie.left - 1, !.age = cookie.age]
        BY <1>1, <1>5, <3>2 DEF K!Tick
      <4>2. cookie # K!NoCookie
        BY <3>2 DEF K!NoCookie
      <4>3. cookie.left - 1 \in 0..MaxTtl
        BY <1>1, <3>2
      <4> HIDE DEF Ck
      <4>4. cookie' \in Ck /\ cookie'.age = cookie.age /\ cookie'.secret = cookie.secret /\ cookie'.left = cookie.left - 1
        BY <1>1, <4>1, <4>3 DEF Ck
      <4> QED
        BY <3>2, <4>2, <4>4
    <3> QED
      BY <1>1, <3>1, <3>2
  <2>3. K!RingKept'
    BY <1>1, <1>2, <2>1 DEF K!RingKept
  <2>4. K!CookieHeld'
    BY <1>1, <1>2, <2>1, <2>2 DEF K!CookieHeld
  <2>5. K!Typed'
    BY <1>1, <1>2, <2>1, <2>2 DEF K!Typed, K!TypeOK
  <2> QED
    BY <2>3, <2>4, <2>5 DEF K!IInv
<1> QED
  BY <1>4, <1>5

\* What the invariant promises the visitor: the brain's document has the cookie's master.
LEMMA KeysHonour ==
  ASSUME K!ClearanceAssumption, K!IInv
  PROVE  K!TypeOK /\ K!ClearanceHonoured
<1> DEFINE k == K!Ensured(K!Adopted)
<1>1. /\ \A a \in K!Age : ring[a] # K!No => k.ring[a] = ring[a]
      /\ ~ringFile.loaded /\ setting \in Path \ Foreign
           => \A a \in K!Age : saved[setting][a] # K!No => k.ring[a] = saved[setting][a]
  <2> HIDE DEF k
  <2>1. k = K!Ensured(K!Adopted)
    BY DEF k
  <2> QED
    BY <2>1, KeysServed
<1>2. K!Current = k.ring
  BY DEF K!Current
<1> HIDE DEF k
<1>3. cookie.age \in K!Age /\ K!TypeOK /\ K!CookieHeld
  BY DEF K!IInv, K!Typed, K!TypeOK
<1> QED
  BY <1>1, <1>2, <1>3 DEF K!ClearanceHonoured, K!Verifies, K!CookieHeld

\* Every step keeps the invariant of the keys.
LEMMA KeysStep ==
  ASSUME K!ClearanceAssumption, K!IInv, [K!Next]_K!vars
  PROVE  K!IInv'
<1>1. ASSUME UNCHANGED K!vars  PROVE K!IInv'
  BY <1>1 DEF K!vars, K!IInv, K!Typed, K!TypeOK, K!RingKept, K!CookieHeld
<1> QED
  BY <1>1, KeysPoll, KeysIssue, KeysReload, KeysRestart, KeysTick DEF K!Next

---------------------------------------------------------------------------
(* The verdicts.                                                           *)

\* The verdict table's rows and its pace; and a table thinner than another, which has lost
\* entries of it but no block that stands.
Rows == [V!Kinds -> [V!Key -> V!Absent..Ttl]]
Paces == [{"sweep", "beneath"} -> 0..FullEvery]
Shelf == [e : Rows, pace : Paces]

Thinner(e, f) ==
  \A m \in V!Kinds, k \in V!Key :
    e[m][k] = f[m][k] \/ (e[m][k] = V!Absent /\ ~(m = "deny" /\ f[m][k] > 0))

\* The kinds of verdict, strongest first.
LEMMA VerdictKinds ==
  /\ V!Kinds = {"deny", "challenge", "mark"}
  /\ V!Kind[1] = "deny" /\ V!Kind[2] = "challenge" /\ V!Kind[3] = "mark"
  BY DEF V!Kinds, V!Kind, V!Range

\* The table's cardinalities are the library's.
LEMMA VerdictsCounted ==
  /\ \A S : V!IsFiniteSet(S) <=> IsFiniteSet(S)
  /\ \A S : V!Cardinality(S) = Cardinality(S)
<1>1. \A S : V!IsFiniteSet(S) <=> IsFiniteSet(S)
  BY DEF V!IsFiniteSet, IsFiniteSet
<1>2. \A S : V!Cardinality(S) = Cardinality(S)
  BY DEF V!Cardinality, Cardinality
<1> QED
  BY <1>1, <1>2

\* The challenges of a finite table are finite.
LEMMA ChallengesFinite ==
  ASSUME NEW e, IsFiniteSet(V!Entries(e))
  PROVE  IsFiniteSet(V!Challenges(e))
<1> DEFINE f == [k \in V!Challenges(e) |-> <<"challenge", k>>]
<1>1. f \in Injection(V!Challenges(e), V!Entries(e))
  <2>1. f \in [V!Challenges(e) -> V!Entries(e)]
    BY VerdictKinds DEF V!Challenges, V!Entries
  <2>2. \A a, b \in V!Challenges(e) : f[a] = f[b] => a = b
    OBVIOUS
  <2> QED
    BY <2>1, <2>2 DEF Injection, IsInjective
<1> QED
  BY <1>1, FS_Injection

\* A thinner table is smaller, in all and in challenges.
LEMMA ThinnerSmaller ==
  ASSUME NEW e, NEW f, Thinner(e, f), IsFiniteSet(V!Entries(f))
  PROVE  /\ IsFiniteSet(V!Entries(e)) /\ V!Entries(e) \subseteq V!Entries(f)
         /\ Cardinality(V!Entries(e)) \in Nat /\ Cardinality(V!Entries(f)) \in Nat
         /\ Cardinality(V!Entries(e)) <= Cardinality(V!Entries(f))
         /\ Cardinality(V!Challenges(e)) \in Nat /\ Cardinality(V!Challenges(f)) \in Nat
         /\ Cardinality(V!Challenges(e)) <= Cardinality(V!Challenges(f))
<1>1. V!Entries(e) \in SUBSET V!Entries(f) /\ V!Challenges(e) \in SUBSET V!Challenges(f)
  BY VerdictKinds DEF Thinner, V!Entries, V!Challenges
<1>2. IsFiniteSet(V!Entries(e)) /\ Cardinality(V!Entries(e)) <= Cardinality(V!Entries(f))
  BY <1>1, FS_Subset
<1>3. IsFiniteSet(V!Challenges(f)) /\ IsFiniteSet(V!Challenges(e))
  BY <1>2, ChallengesFinite
<1>4. Cardinality(V!Challenges(e)) <= Cardinality(V!Challenges(f))
  BY <1>1, <1>3, FS_Subset
<1> QED
  BY <1>1, <1>2, <1>3, <1>4, FS_CardinalityType

\* What is thinner than a thinner table is thinner.
LEMMA ThinnerTwice ==
  ASSUME NEW e \in Rows, NEW f \in Rows, NEW g \in Rows, Thinner(e, f), Thinner(f, g)
  PROVE  Thinner(e, g)
  BY DEF Thinner, V!Absent

\* The sweep, the clearing of weaker verdicts, and what a block outlives, thin the table.
LEMMA TableThins ==
  ASSUME V!VerdictsAssumption, NEW t \in Shelf
  PROVE  /\ Thinner(t.e, t.e)
         /\ V!Swept(t) \in Shelf /\ Thinner(V!Swept(t).e, t.e)
         /\ \A S \in SUBSET V!Key :
              /\ V!Unmarked(t, S) \in Shelf /\ Thinner(V!Unmarked(t, S).e, t.e)
              /\ \A m \in V!Kinds, k \in S : m # "deny" => V!Unmarked(t, S).e[m][k] = V!Absent
         /\ V!Beneath(t) \in Shelf /\ Thinner(V!Beneath(t).e, t.e)
         /\ \A k \in V!Key : \A span \in 1..Ttl :
              /\ V!Outlived(t, k, span) \in Shelf /\ Thinner(V!Outlived(t, k, span).e, t.e)
              /\ V!Outlived(t, k, span).e["challenge"][k] = V!Absent
                   \/ V!Outlived(t, k, span).e["challenge"][k] = t.e["challenge"][k]
<1> USE DEF V!Absent
<1>1. /\ t.e \in Rows /\ t.pace \in Paces /\ Ttl \in Nat \ {0} /\ FullEvery \in Nat \ {0}
      /\ 0 \in 0..FullEvery /\ V!Absent \in V!Absent..Ttl
  BY DEF Shelf, V!VerdictsAssumption
<1>2. \A m \in V!Kinds, k \in V!Key : t.e[m][k] \in V!Absent..Ttl
  BY <1>1 DEF Rows
<1>3. Thinner(t.e, t.e)
  BY DEF Thinner
<1>4. V!Purged(t.e) \in Rows /\ Thinner(V!Purged(t.e), t.e)
  BY <1>1, <1>2 DEF V!Purged, Rows, Thinner
<1>5. [t.pace EXCEPT !.sweep = 0] \in Paces /\ [t.pace EXCEPT !.beneath = 0] \in Paces
  BY <1>1 DEF Paces
<1>6. V!Swept(t) \in Shelf /\ Thinner(V!Swept(t).e, t.e)
  BY <1>3, <1>4, <1>5 DEF V!Swept, Shelf
<1>7. ASSUME NEW u \in Shelf, u.e = t.e, NEW S \in SUBSET V!Key
      PROVE  /\ V!Unmarked(u, S) \in Shelf /\ Thinner(V!Unmarked(u, S).e, t.e)
             /\ \A m \in V!Kinds, k \in S : m # "deny" => V!Unmarked(u, S).e[m][k] = V!Absent
  <2> DEFINE e == [m \in V!Kinds |-> [k \in V!Key |-> IF m # "deny" /\ k \in S THEN V!Absent ELSE u.e[m][k]]]
  <2>1. e \in Rows /\ Thinner(e, t.e) /\ \A m \in V!Kinds, k \in S : m # "deny" => e[m][k] = V!Absent
    BY <1>1, <1>2, <1>7 DEF Rows, Thinner
  <2>2. V!Unmarked(u, S) = [u EXCEPT !.e = e]
    BY DEF V!Unmarked
  <2> HIDE DEF e
  <2>3. V!Unmarked(u, S) \in Shelf /\ V!Unmarked(u, S).e = e
    BY <2>1, <2>2 DEF Shelf
  <2> QED
    BY <2>1, <2>3
<1>8. V!Beneath(t) \in Shelf /\ Thinner(V!Beneath(t).e, t.e)
  <2> DEFINE u == [t EXCEPT !.pace.beneath = 0]
             S == {k \in V!Key : t.e["deny"][k] > 0}
  <2>1. u \in Shelf /\ u.e = t.e
    BY <1>1, <1>5 DEF Shelf
  <2>2. V!Beneath(t) = t \/ V!Beneath(t) = V!Unmarked(u, S)
    BY DEF V!Beneath
  <2> HIDE DEF u
  <2> QED
    BY <1>3, <1>7, <2>1, <2>2
<1>9. ASSUME NEW k \in V!Key, NEW span \in 1..Ttl
      PROVE  /\ V!Outlived(t, k, span) \in Shelf /\ Thinner(V!Outlived(t, k, span).e, t.e)
             /\ V!Outlived(t, k, span).e["challenge"][k] = V!Absent
                  \/ V!Outlived(t, k, span).e["challenge"][k] = t.e["challenge"][k]
  <2> DEFINE e == [m \in V!Kinds |-> IF m # "deny" /\ t.e[m][k] <= span
                                     THEN [t.e[m] EXCEPT ![k] = V!Absent] ELSE t.e[m]]
  <2>1. \A m \in V!Kinds : t.e[m] \in [V!Key -> V!Absent..Ttl]
    BY <1>1 DEF Rows
  <2>2. \A m \in V!Kinds : e[m] \in [V!Key -> V!Absent..Ttl]
    BY <1>1, <2>1
  <2>3. e \in Rows
    <3> HIDE DEF e
    <3>1. e = [m \in V!Kinds |-> e[m]]
      BY DEF e
    <3> QED
      BY <2>2, <3>1 DEF Rows
  <2>4. Thinner(e, t.e)
    BY <2>1 DEF Thinner
  <2>5. e["challenge"][k] = V!Absent \/ e["challenge"][k] = t.e["challenge"][k]
    BY <2>1, VerdictKinds
  <2>6. V!Outlived(t, k, span) = [t EXCEPT !.e = e]
    BY DEF V!Outlived
  <2> HIDE DEF e
  <2>7. V!Outlived(t, k, span) \in Shelf /\ V!Outlived(t, k, span).e = e
    BY <2>3, <2>6 DEF Shelf
  <2> QED
    BY <2>3, <2>4, <2>5, <2>7
<1>10. \A S \in SUBSET V!Key :
         /\ V!Unmarked(t, S) \in Shelf /\ Thinner(V!Unmarked(t, S).e, t.e)
         /\ \A m \in V!Kinds, k \in S : m # "deny" => V!Unmarked(t, S).e[m][k] = V!Absent
  BY <1>7
<1> QED
  BY <1>3, <1>6, <1>8, <1>9, <1>10

\* The room made for an entry: at most a sweep; and it is there if the entry is, or if the
\* table is not full.
LEMMA RoomMade ==
  ASSUME V!VerdictsAssumption, NEW t \in Shelf, NEW m \in V!Kinds, NEW k \in V!Key,
         NEW r, r = V!Room(t, m, k)
  PROVE  /\ r.t \in Shelf /\ Thinner(r.t.e, t.e) /\ r.ok \in BOOLEAN
         /\ r.ok <=> r.t.e[m][k] # V!Absent \/ ~V!Full(r.t)
         /\ t.e[m][k] # V!Absent => r.ok
         /\ ~V!Full(t) => r.ok
<1> DEFINE s == IF t.e[m][k] = V!Absent /\ V!Full(t) THEN V!Swept(t) ELSE t
<1>1. s \in Shelf /\ Thinner(s.e, t.e) /\ (~(t.e[m][k] = V!Absent /\ V!Full(t)) => s = t)
  BY TableThins
<1> DEFINE there == s.e[m][k] # V!Absent \/ ~V!Full(s)
<1>2. r = [t |-> s, ok |-> there]
  BY DEF V!Room
<1>3. there \in BOOLEAN
  OBVIOUS
<1> HIDE DEF there
<1>4. r.t = s /\ r.ok = there
  BY <1>2
<1>5. r.t = s /\ r.ok \in BOOLEAN /\ (r.ok <=> s.e[m][k] # V!Absent \/ ~V!Full(s))
  BY <1>3, <1>4 DEF there
<1> HIDE DEF s
<1> QED
  BY <1>1, <1>5

\* Putting an entry where there is room for it keeps the table within its size.
LEMMA PutFits ==
  ASSUME V!VerdictsAssumption, NEW t \in Shelf, NEW m \in V!Kinds, NEW k \in V!Key, NEW span \in 1..Ttl,
         IsFiniteSet(V!Entries(t.e)), Cardinality(V!Entries(t.e)) <= MaxEntries,
         t.e[m][k] # V!Absent \/ ~V!Full(t)
  PROVE  LET u == V!Put(t, m, k, span)
         IN  /\ u \in Shelf
             /\ \A n \in V!Kinds, x \in V!Key : u.e[n][x] = IF n = m /\ x = k THEN span ELSE t.e[n][x]
             /\ IsFiniteSet(V!Entries(u.e)) /\ Cardinality(V!Entries(u.e)) <= MaxEntries
<1> DEFINE u == V!Put(t, m, k, span)
           f == [t.e EXCEPT ![m] = [t.e[m] EXCEPT ![k] = span]]
<1>1. /\ t.e \in Rows /\ t.e[m] \in [V!Key -> V!Absent..Ttl] /\ Ttl \in Nat /\ MaxEntries \in Nat
      /\ span \in V!Absent..Ttl /\ span # V!Absent
  BY DEF Shelf, Rows, V!VerdictsAssumption, V!Absent
<1>2. /\ f \in Rows
      /\ \A n \in V!Kinds, x \in V!Key : f[n][x] = IF n = m /\ x = k THEN span ELSE t.e[n][x]
  <2> DEFINE g == [t.e[m] EXCEPT ![k] = span]
  <2>1. g \in [V!Key -> V!Absent..Ttl] /\ \A x \in V!Key : g[x] = IF x = k THEN span ELSE t.e[m][x]
    BY <1>1
  <2>2. f = [t.e EXCEPT ![m] = g]
    OBVIOUS
  <2> HIDE DEF f, g
  <2>3. f \in Rows /\ \A n \in V!Kinds : f[n] = IF n = m THEN g ELSE t.e[n]
    BY <1>1, <2>1, <2>2 DEF Rows
  <2> QED
    BY <2>1, <2>3
<1>3. u = [t EXCEPT !.e = f]
  BY DEF V!Put
<1> HIDE DEF f, u
<1>4. u \in Shelf /\ u.e = f
  BY <1>2, <1>3 DEF Shelf
<1>5. V!Entries(u.e) = V!Entries(t.e) \cup {<<m, k>>}
  BY <1>1, <1>2, <1>4 DEF V!Entries
<1>6. /\ IsFiniteSet(V!Entries(u.e))
      /\ Cardinality(V!Entries(u.e)) = IF <<m, k>> \in V!Entries(t.e) THEN Cardinality(V!Entries(t.e))
                                       ELSE Cardinality(V!Entries(t.e)) + 1
  BY <1>5, FS_AddElement
<1>7. CASE t.e[m][k] # V!Absent
  <2>1. <<m, k>> \in V!Entries(t.e)
    BY <1>7 DEF V!Entries
  <2> QED
    BY <1>2, <1>4, <1>6, <2>1 DEF u
<1>8. CASE ~V!Full(t)
  <2>1. Cardinality(V!Entries(t.e)) < MaxEntries /\ Cardinality(V!Entries(t.e)) \in Nat
    BY <1>1, <1>8, VerdictsCounted, FS_CardinalityType DEF V!Full
  <2>2. Cardinality(V!Entries(u.e)) <= MaxEntries
    BY <1>1, <1>6, <2>1
  <2> QED
    BY <1>2, <1>4, <1>6, <2>2 DEF u
<1> QED
  BY <1>7, <1>8

\* A block makes its own way: it lands wherever its source is challenged.
LEMMA WayMade ==
  ASSUME V!VerdictsAssumption, NEW t \in Shelf, NEW k \in V!Key,
         IsFiniteSet(V!Entries(t.e)), Cardinality(V!Entries(t.e)) <= MaxEntries,
         NEW o \in Shelf, Thinner(o.e, t.e),
         o.e["challenge"][k] = V!Absent \/ o.e["challenge"][k] = t.e["challenge"][k],
         NEW r, r = V!MadeWay(V!Room(o, "deny", k), k)
  PROVE  /\ r.t \in Shelf /\ Thinner(r.t.e, t.e) /\ r.ok \in BOOLEAN
         /\ r.ok => r.t.e["deny"][k] # V!Absent \/ ~V!Full(r.t)
         /\ t.e["challenge"][k] > 0 => r.ok
<1> DEFINE a == V!Room(o, "deny", k)
           b == V!Unmarked(a.t, {k})
           own == V!Room(b, "deny", k)
           c == V!Beneath(own.t)
           d == V!Room(c, "deny", k)
<1>0. "deny" \in V!Kinds /\ "challenge" \in V!Kinds /\ {k} \in SUBSET V!Key
  BY VerdictKinds
<1>1. /\ a.t \in Shelf /\ Thinner(a.t.e, o.e) /\ a.ok \in BOOLEAN
      /\ a.ok <=> a.t.e["deny"][k] # V!Absent \/ ~V!Full(a.t)
      /\ ~V!Full(o) => a.ok
  <2>1. a = V!Room(o, "deny", k)
    OBVIOUS
  <2> HIDE DEF a
  <2> QED
    BY <1>0, <2>1, RoomMade
<1> HIDE DEF a
<1>2. b \in Shelf /\ Thinner(b.e, a.t.e) /\ b.e["challenge"][k] = V!Absent
  <2>1. k \in {k}
    OBVIOUS
  <2> QED
    BY <1>0, <1>1, <2>1, TableThins
<1> HIDE DEF b
<1>3. /\ own.t \in Shelf /\ Thinner(own.t.e, b.e) /\ own.ok \in BOOLEAN
      /\ own.ok <=> own.t.e["deny"][k] # V!Absent \/ ~V!Full(own.t)
      /\ ~V!Full(b) => own.ok
  <2>1. own = V!Room(b, "deny", k)
    OBVIOUS
  <2> HIDE DEF own
  <2> QED
    BY <1>0, <1>2, <2>1, RoomMade
<1> HIDE DEF own
<1>4. c \in Shelf /\ Thinner(c.e, own.t.e)
  BY <1>3, TableThins
<1> HIDE DEF c
<1>5. /\ d.t \in Shelf /\ Thinner(d.t.e, c.e) /\ d.ok \in BOOLEAN
      /\ d.ok <=> d.t.e["deny"][k] # V!Absent \/ ~V!Full(d.t)
  <2>1. d = V!Room(c, "deny", k)
    OBVIOUS
  <2> HIDE DEF d
  <2> QED
    BY <1>0, <1>4, <2>1, RoomMade
<1> HIDE DEF d
<1>6. /\ t.e \in Rows /\ o.e \in Rows /\ a.t.e \in Rows /\ b.e \in Rows /\ own.t.e \in Rows
      /\ c.e \in Rows /\ d.t.e \in Rows
  BY <1>1, <1>2, <1>3, <1>4, <1>5 DEF Shelf
<1>7. /\ Thinner(a.t.e, t.e) /\ Thinner(b.e, t.e) /\ Thinner(own.t.e, t.e) /\ Thinner(d.t.e, t.e)
  <2>1. Thinner(a.t.e, t.e)
    BY <1>1, <1>6, ThinnerTwice
  <2>2. Thinner(b.e, t.e)
    BY <1>2, <1>6, <2>1, ThinnerTwice
  <2>3. Thinner(own.t.e, t.e)
    BY <1>3, <1>6, <2>2, ThinnerTwice
  <2>4. Thinner(c.e, t.e)
    BY <1>4, <1>6, <2>3, ThinnerTwice
  <2>5. Thinner(d.t.e, t.e)
    BY <1>5, <1>6, <2>4, ThinnerTwice
  <2> QED
    BY <2>1, <2>2, <2>3, <2>5
<1>8. r = (IF a.ok THEN a ELSE IF own.ok THEN own ELSE d)
  BY DEF V!MadeWay, a, b, own, c, d
<1>9. ASSUME t.e["challenge"][k] > 0, ~a.ok  PROVE own.ok
  <2>1. <<"challenge", k>> \in V!Entries(t.e) /\ <<"challenge", k>> \notin V!Entries(b.e)
    BY <1>0, <1>2, <1>9 DEF V!Entries, V!Absent
  <2>2. /\ V!Entries(b.e) \in SUBSET (V!Entries(t.e) \ {<<"challenge", k>>})
    BY <1>7, <2>1, ThinnerSmaller
  <2>3. /\ IsFiniteSet(V!Entries(t.e) \ {<<"challenge", k>>})
        /\ Cardinality(V!Entries(t.e) \ {<<"challenge", k>>}) = Cardinality(V!Entries(t.e)) - 1
    BY <2>1, FS_RemoveElement
  <2>4. /\ Cardinality(V!Entries(b.e)) <= Cardinality(V!Entries(t.e)) - 1
        /\ Cardinality(V!Entries(t.e)) \in Nat /\ Cardinality(V!Entries(b.e)) \in Nat
    BY <2>2, <2>3, FS_Subset, FS_CardinalityType
  <2>5. ~V!Full(b)
    BY <2>4, VerdictsCounted DEF V!Full, V!VerdictsAssumption
  <2> QED
    BY <1>3, <2>5
<1> QED
  BY <1>1, <1>3, <1>5, <1>7, <1>8, <1>9

\* Nothing in the table, no zone and no flip at the start.
LEMMA VerdictsInit ==
  ASSUME V!VerdictsAssumption, V!Init
  PROVE  V!IInv
<1> USE DEF V!VerdictsAssumption, V!Init, V!Absent
<1>1. V!Gone \in [mode : V!Mode, override : [mode : V!Mode, left : 0..Ttl], flip : [on : BOOLEAN, left : 0..Ttl]]
  BY DEF V!Gone, V!Mode, V!NoOverride, V!Quiet
<1>2. V!TypeOK
  BY DEF V!TypeOK
<1>3. V!Typed
  BY <1>1, <1>2 DEF V!Typed
<1>4. V!BlocksLanded
  BY VerdictKinds DEF V!BlocksLanded
<1>5. V!FlipsHeld
  BY DEF V!FlipsHeld, V!Gone, V!Quiet
<1>6. V!TableBounded
  <2>1. V!Entries(table) = {} /\ V!Challenges(table) = {}
    BY VerdictKinds DEF V!Entries, V!Challenges
  <2>2. 0 <= MaxEntries /\ 0 <= MaxEntries \div 2
    OBVIOUS
  <2> QED
    BY <2>1, <2>2, VerdictsCounted, FS_EmptySet DEF V!TableBounded
<1> QED
  BY <1>3, <1>4, <1>5, <1>6 DEF V!IInv

\* The table as a record, and what is known of it.
LEMMA TableKnown ==
  ASSUME V!VerdictsAssumption, V!IInv
  PROVE  /\ V!T \in Shelf /\ V!T.e = table /\ V!T.pace = pace
         /\ IsFiniteSet(V!Entries(table)) /\ Cardinality(V!Entries(table)) <= MaxEntries
         /\ Cardinality(V!Challenges(table)) <= MaxEntries \div 2
<1>1. table \in Rows /\ pace \in Paces
  BY DEF V!IInv, V!Typed, V!TypeOK, Rows, Paces
<1>2. V!T \in Shelf /\ V!T.e = table /\ V!T.pace = pace
  BY <1>1 DEF V!T, Shelf
<1> QED
  BY <1>2, VerdictsCounted DEF V!IInv, V!TableBounded

\* What remains to be shown of a step that leaves the zones and their rungs alone.
LEMMA TableStep ==
  ASSUME V!VerdictsAssumption, V!IInv, UNCHANGED <<ruled, rung, gauge, flooded, spared>>,
         table' \in Rows, pace' \in Paces, blocked' \in [V!Key -> 0..Ttl], V!BlocksLanded',
         IsFiniteSet(V!Entries(table')), Cardinality(V!Entries(table')) <= MaxEntries,
         Cardinality(V!Challenges(table')) <= MaxEntries \div 2
  PROVE  V!IInv'
<1>1. V!Typed'
  BY DEF V!IInv, V!Typed, V!TypeOK, Rows, Paces
<1>2. V!FlipsHeld' /\ spared' = FALSE
  BY DEF V!IInv, V!FlipsHeld
<1>3. V!TableBounded'
  <2>1. V!Entries(table)' = V!Entries(table') /\ V!Challenges(table)' = V!Challenges(table')
    BY DEF V!Entries, V!Challenges
  <2>2. V!TableBounded' <=> /\ V!IsFiniteSet(V!Entries(table')) /\ V!Cardinality(V!Entries(table')) <= MaxEntries
                            /\ V!Cardinality(V!Challenges(table')) <= MaxEntries \div 2
    BY <2>1 DEF V!TableBounded
  <2> QED
    BY <2>2, VerdictsCounted
<1> QED
  BY <1>1, <1>2, <1>3 DEF V!IInv

\* A thinner table, or one with an entry that is no block put into it, keeps the blocks.
LEMMA BlocksKept ==
  ASSUME V!VerdictsAssumption, V!IInv, NEW e \in Rows, blocked' = blocked, table' = e,
         \A k \in V!Key : \/ e["deny"][k] = table["deny"][k]
                          \/ e["deny"][k] = V!Absent /\ ~(table["deny"][k] > 0)
  PROVE  V!BlocksLanded'
<1>1. \A k \in V!Key : IF blocked[k] > 0 THEN table["deny"][k] = blocked[k] ELSE table["deny"][k] <= 0
  BY DEF V!IInv, V!BlocksLanded
<1>2. \A k \in V!Key : blocked[k] \in 0..Ttl
  BY DEF V!IInv, V!Typed, V!TypeOK
<1> QED
  BY <1>1, <1>2 DEF V!BlocksLanded, V!Absent

\* A block, with the way it makes: one conjunct for each outcome of room.
LEMMA VerdictsDeny ==
  ASSUME V!VerdictsAssumption, V!IInv, NEW k \in Target, NEW span \in 1..Ttl, V!Deny(k, span)
  PROVE  V!IInv'
<1> DEFINE o == V!Outlived(V!T, k, span)
           r == V!MadeWay(V!Room(o, "deny", k), k)
           u == IF r.ok THEN V!Put(r.t, "deny", k, span) ELSE r.t
<1>1. k \in V!Key /\ "deny" \in V!Kinds /\ "challenge" \in V!Kinds
  BY VerdictKinds DEF V!VerdictsAssumption, V!Key
<1>2. /\ V!T \in Shelf /\ V!T.e = table /\ table \in Rows
      /\ IsFiniteSet(V!Entries(table)) /\ Cardinality(V!Entries(table)) <= MaxEntries
      /\ Cardinality(V!Challenges(table)) <= MaxEntries \div 2
  BY TableKnown DEF Shelf
<1>3. /\ o \in Shelf /\ Thinner(o.e, table)
      /\ o.e["challenge"][k] = V!Absent \/ o.e["challenge"][k] = table["challenge"][k]
  BY <1>1, <1>2, TableThins
<1>4. /\ table' = u.e /\ pace' = u.pace
      /\ blocked' = [blocked EXCEPT ![k] = IF r.ok THEN span ELSE @]
      /\ spared' = (spared \/ (table["challenge"][k] > 0 /\ ~r.ok))
      /\ UNCHANGED <<ruled, rung, gauge, flooded>>
  BY DEF V!Deny, V!Commit
<1>5. /\ r.t \in Shelf /\ Thinner(r.t.e, table) /\ r.ok \in BOOLEAN
      /\ r.ok => r.t.e["deny"][k] # V!Absent \/ ~V!Full(r.t)
      /\ table["challenge"][k] > 0 => r.ok
  <2>1. r = V!MadeWay(V!Room(o, "deny", k), k)
    OBVIOUS
  <2> HIDE DEF r, o
  <2> QED
    BY <1>1, <1>2, <1>3, <2>1, WayMade
<1> HIDE DEF r, o
<1>6. UNCHANGED spared
  BY <1>4, <1>5 DEF V!IInv
<1>7. /\ r.t.e \in Rows /\ r.t.pace \in Paces
      /\ IsFiniteSet(V!Entries(r.t.e)) /\ Cardinality(V!Entries(r.t.e)) <= MaxEntries
      /\ Cardinality(V!Challenges(r.t.e)) <= MaxEntries \div 2
  <2>1. r.t.e \in Rows /\ r.t.pace \in Paces /\ MaxEntries \in Nat
    BY <1>5 DEF Shelf, V!VerdictsAssumption
  <2> QED
    BY <1>2, <1>5, <2>1, ThinnerSmaller
<1>8. \A x \in V!Key : \/ r.t.e["deny"][x] = table["deny"][x]
                       \/ r.t.e["deny"][x] = V!Absent /\ ~(table["deny"][x] > 0)
  BY <1>1, <1>5 DEF Thinner
<1>9. CASE ~r.ok
  <2>1. u = r.t
    BY <1>9
  <2>2. blocked' = blocked
    BY <1>4, <1>9 DEF V!IInv, V!Typed, V!TypeOK
  <2>3. V!BlocksLanded'
    BY <1>4, <1>7, <1>8, <2>1, <2>2, BlocksKept
  <2>4. blocked' \in [V!Key -> 0..Ttl]
    BY <2>2 DEF V!IInv, V!Typed, V!TypeOK
  <2> QED
    BY <1>4, <1>6, <1>7, <2>1, <2>3, <2>4, TableStep
<1>10. CASE r.ok
  <2>1. u = V!Put(r.t, "deny", k, span)
    BY <1>10
  <2>2. /\ u \in Shelf
        /\ \A n \in V!Kinds, x \in V!Key : u.e[n][x] = IF n = "deny" /\ x = k THEN span ELSE r.t.e[n][x]
        /\ IsFiniteSet(V!Entries(u.e)) /\ Cardinality(V!Entries(u.e)) <= MaxEntries
    <3> HIDE DEF u
    <3> QED
      BY <1>1, <1>5, <1>7, <1>10, <2>1, PutFits
  <2> HIDE DEF u
  <2>3. V!Challenges(u.e) = V!Challenges(r.t.e)
    BY <1>1, <2>2 DEF V!Challenges
  <2>4. /\ blocked' \in [V!Key -> 0..Ttl]
        /\ \A x \in V!Key : blocked'[x] = IF x = k THEN span ELSE blocked[x]
    BY <1>1, <1>4, <1>10 DEF V!IInv, V!Typed, V!TypeOK, V!VerdictsAssumption
  <2>5. \A x \in V!Key : /\ IF blocked[x] > 0 THEN table["deny"][x] = blocked[x] ELSE table["deny"][x] <= 0
                         /\ blocked[x] \in 0..Ttl
    BY DEF V!IInv, V!BlocksLanded, V!Typed, V!TypeOK
  <2>6. V!BlocksLanded'
    <3>1. ASSUME NEW x \in V!Key
          PROVE  IF blocked'[x] > 0 THEN u.e["deny"][x] = blocked'[x] ELSE u.e["deny"][x] <= 0
      <4>1. CASE x = k
        BY <1>1, <2>2, <2>4, <4>1
      <4>2. CASE x # k
        BY <1>1, <1>8, <2>2, <2>4, <2>5, <4>2 DEF V!Absent
      <4> QED
        BY <4>1, <4>2
    <3> QED
      BY <1>4, <3>1 DEF V!BlocksLanded
  <2>7. table' \in Rows /\ pace' \in Paces
    BY <1>4, <2>2 DEF Shelf
  <2> QED
    BY <1>4, <1>6, <1>7, <2>2, <2>3, <2>4, <2>6, <2>7, TableStep
<1> QED
  BY <1>5, <1>9, <1>10

\* A challenge takes room only from what no block needs, and keeps to its share.
LEMMA VerdictsChallenge ==
  ASSUME V!VerdictsAssumption, V!IInv, NEW k \in Target, NEW span \in 1..Ttl, V!Challenge(k, span)
  PROVE  V!IInv'
<1> DEFINE s == IF V!ShareTaken(V!T, k) THEN V!Beneath(V!Swept(V!T)) ELSE V!T
           r == V!Room(s, "challenge", k)
           p == V!Put(r.t, "challenge", k, span)
           u == IF V!ShareTaken(s, k) THEN s ELSE IF r.ok THEN p ELSE r.t
<1>1. k \in V!Key /\ "deny" \in V!Kinds /\ "challenge" \in V!Kinds
  BY VerdictKinds DEF V!VerdictsAssumption, V!Key
<1>2. /\ V!T \in Shelf /\ V!T.e = table /\ table \in Rows /\ MaxEntries \in Nat
      /\ IsFiniteSet(V!Entries(table)) /\ Cardinality(V!Entries(table)) <= MaxEntries
      /\ Cardinality(V!Challenges(table)) <= MaxEntries \div 2
  BY TableKnown DEF Shelf, V!VerdictsAssumption
<1>3. s \in Shelf /\ Thinner(s.e, table)
  <2>1. /\ Thinner(V!T.e, V!T.e) /\ V!Swept(V!T) \in Shelf /\ Thinner(V!Swept(V!T).e, V!T.e)
    BY <1>2, TableThins
  <2>2. V!Beneath(V!Swept(V!T)) \in Shelf /\ Thinner(V!Beneath(V!Swept(V!T)).e, V!Swept(V!T).e)
    BY <2>1, TableThins
  <2>3. Thinner(V!Beneath(V!Swept(V!T)).e, V!T.e)
    BY <1>2, <2>1, <2>2, ThinnerTwice DEF Shelf
  <2> QED
    BY <1>2, <2>1, <2>2, <2>3
<1> HIDE DEF s
<1>4. /\ r.t \in Shelf /\ Thinner(r.t.e, s.e) /\ r.ok \in BOOLEAN
      /\ r.ok <=> r.t.e["challenge"][k] # V!Absent \/ ~V!Full(r.t)
  <2>1. r = V!Room(s, "challenge", k)
    OBVIOUS
  <2> HIDE DEF r
  <2> QED
    BY <1>1, <1>3, <2>1, RoomMade
<1>5. table' = u.e /\ pace' = u.pace /\ UNCHANGED <<ruled, rung, gauge, blocked, flooded, spared>>
  BY DEF V!Challenge, V!Commit, s
<1> HIDE DEF r
<1>6. Thinner(r.t.e, table)
  BY <1>2, <1>3, <1>4, ThinnerTwice DEF Shelf
<1>7. ASSUME NEW t \in Shelf, Thinner(t.e, table)
      PROVE  /\ t.e \in Rows /\ t.pace \in Paces
             /\ IsFiniteSet(V!Entries(t.e)) /\ Cardinality(V!Entries(t.e)) <= MaxEntries
             /\ Cardinality(V!Challenges(t.e)) <= MaxEntries \div 2
             /\ \A x \in V!Key : \/ t.e["deny"][x] = table["deny"][x]
                                 \/ t.e["deny"][x] = V!Absent /\ ~(table["deny"][x] > 0)
  <2>1. t.e \in Rows /\ t.pace \in Paces
    BY <1>7 DEF Shelf
  <2>2. \A x \in V!Key : \/ t.e["deny"][x] = table["deny"][x]
                         \/ t.e["deny"][x] = V!Absent /\ ~(table["deny"][x] > 0)
    BY <1>1, <1>7 DEF Thinner
  <2> QED
    BY <1>2, <1>7, <2>1, <2>2, ThinnerSmaller
<1>8. blocked' \in [V!Key -> 0..Ttl] /\ blocked' = blocked
  BY <1>5 DEF V!IInv, V!Typed, V!TypeOK
<1>9. ASSUME u \in Shelf, Thinner(u.e, table)  PROVE V!IInv'
  <2> HIDE DEF u
  <2>1. V!BlocksLanded'
    BY <1>5, <1>7, <1>8, <1>9, BlocksKept
  <2> QED
    BY <1>5, <1>7, <1>8, <1>9, <2>1, TableStep
<1>10. CASE ~V!ShareTaken(s, k) /\ r.ok
  <2>1. u = p
    BY <1>10
  <2>2. /\ p \in Shelf
        /\ \A n \in V!Kinds, x \in V!Key : p.e[n][x] = IF n = "challenge" /\ x = k THEN span ELSE r.t.e[n][x]
        /\ IsFiniteSet(V!Entries(p.e)) /\ Cardinality(V!Entries(p.e)) <= MaxEntries
    <3>1. r.t.e["challenge"][k] # V!Absent \/ ~V!Full(r.t)
      BY <1>4, <1>10
    <3> QED
      BY <1>1, <1>4, <1>6, <1>7, <3>1, PutFits
  <2>3. V!Challenges(p.e) = V!Challenges(r.t.e) \cup {k}
    BY <1>1, <2>2 DEF V!Challenges, V!Absent
  <2>4. Cardinality(V!Challenges(p.e)) <= MaxEntries \div 2
    <3>1. IsFiniteSet(V!Challenges(r.t.e)) /\ IsFiniteSet(V!Challenges(s.e))
      BY <1>3, <1>4, <1>6, <1>7, ChallengesFinite
    <3>2. V!Challenges(r.t.e) \in SUBSET V!Challenges(s.e)
      BY <1>1, <1>4 DEF Thinner, V!Challenges
    <3>3. /\ Cardinality(V!Challenges(r.t.e)) \in Nat /\ Cardinality(V!Challenges(s.e)) \in Nat
          /\ Cardinality(V!Challenges(r.t.e)) <= Cardinality(V!Challenges(s.e))
          /\ Cardinality(V!Challenges(r.t.e) \cup {k}) = IF k \in V!Challenges(r.t.e)
               THEN Cardinality(V!Challenges(r.t.e)) ELSE Cardinality(V!Challenges(r.t.e)) + 1
      BY <3>1, <3>2, FS_Subset, FS_CardinalityType, FS_AddElement
    <3>4. MaxEntries \div 2 \in Nat
      BY <1>2
    <3>5. s.e["challenge"][k] # V!Absent \/ Cardinality(V!Challenges(s.e)) < MaxEntries \div 2
      BY <1>10, <3>3, <3>4, VerdictsCounted DEF V!ShareTaken
    <3>6. CASE s.e["challenge"][k] # V!Absent
      <4>1. k \in V!Challenges(s.e)
        BY <1>1, <3>6 DEF V!Challenges
      <4>2. V!Challenges(r.t.e) \cup {k} \in SUBSET V!Challenges(s.e)
        BY <3>2, <4>1
      <4>3. Cardinality(V!Challenges(r.t.e) \cup {k}) <= Cardinality(V!Challenges(s.e))
        BY <3>1, <4>2, FS_Subset
      <4>4. Cardinality(V!Challenges(s.e)) <= MaxEntries \div 2
        BY <1>3, <1>7
      <4>5. Cardinality(V!Challenges(r.t.e) \cup {k}) \in Nat
        BY <3>3
      <4> DEFINE y == Cardinality(V!Challenges(s.e))
                 z == Cardinality(V!Challenges(r.t.e) \cup {k})
                 h == MaxEntries \div 2
      <4>6. z \in Nat /\ y \in Nat /\ h \in Nat /\ z <= y /\ y <= h
        BY <3>3, <3>4, <4>3, <4>4, <4>5
      <4> HIDE DEF y, z, h
      <4>7. z <= h
        BY <4>6
      <4> QED
        BY <2>3, <4>7 DEF z, h
    <3>7. CASE Cardinality(V!Challenges(s.e)) < MaxEntries \div 2
      <4> DEFINE x == Cardinality(V!Challenges(r.t.e))
                 y == Cardinality(V!Challenges(s.e))
                 z == Cardinality(V!Challenges(r.t.e) \cup {k})
                 h == MaxEntries \div 2
      <4>1. x \in Nat /\ y \in Nat /\ h \in Nat /\ x <= y /\ y < h /\ (z = x \/ z = x + 1)
        BY <3>3, <3>4, <3>7
      <4> HIDE DEF x, y, z, h
      <4>2. z <= h
        BY <4>1
      <4> QED
        BY <2>3, <4>2 DEF z, h
    <3> QED
      BY <3>5, <3>6, <3>7
  <2>5. table' \in Rows /\ pace' \in Paces /\ table' = p.e
    BY <1>5, <2>1, <2>2 DEF Shelf
  <2> HIDE DEF p, u
  <2>6. V!BlocksLanded'
    <3>1. \A x \in V!Key : p.e["deny"][x] = r.t.e["deny"][x]
      BY <1>1, <2>2
    <3>2. \A x \in V!Key : \/ p.e["deny"][x] = table["deny"][x]
                           \/ p.e["deny"][x] = V!Absent /\ ~(table["deny"][x] > 0)
      BY <1>4, <1>6, <1>7, <3>1
    <3> QED
      BY <1>8, <2>5, <3>2, BlocksKept
  <2> QED
    BY <1>5, <1>8, <2>2, <2>4, <2>5, <2>6, TableStep
<1>11. CASE V!ShareTaken(s, k)
  BY <1>3, <1>9, <1>11
<1>12. CASE ~V!ShareTaken(s, k) /\ ~r.ok
  BY <1>4, <1>6, <1>9, <1>12
<1> QED
  BY <1>4, <1>10, <1>11, <1>12

\* A mark is never a challenge and takes no block's place.
LEMMA VerdictsMark ==
  ASSUME V!VerdictsAssumption, V!IInv, NEW k \in Target, NEW span \in 1..Ttl, V!Mark(k, span)
  PROVE  V!IInv'
<1> DEFINE r == V!Room(V!T, "mark", k)
           p == V!Put(r.t, "mark", k, span)
           u == IF r.ok THEN p ELSE r.t
<1>1. k \in V!Key /\ "deny" \in V!Kinds /\ "challenge" \in V!Kinds /\ "mark" \in V!Kinds
  BY VerdictKinds DEF V!VerdictsAssumption, V!Key
<1>2. /\ V!T \in Shelf /\ V!T.e = table /\ table \in Rows /\ MaxEntries \in Nat
      /\ IsFiniteSet(V!Entries(table)) /\ Cardinality(V!Entries(table)) <= MaxEntries
      /\ Cardinality(V!Challenges(table)) <= MaxEntries \div 2
  BY TableKnown DEF Shelf, V!VerdictsAssumption
<1>3. /\ r.t \in Shelf /\ Thinner(r.t.e, table) /\ r.ok \in BOOLEAN
      /\ r.ok <=> r.t.e["mark"][k] # V!Absent \/ ~V!Full(r.t)
  <2>1. r = V!Room(V!T, "mark", k)
    OBVIOUS
  <2> HIDE DEF r
  <2> QED
    BY <1>1, <1>2, <2>1, RoomMade
<1>4. table' = u.e /\ pace' = u.pace /\ UNCHANGED <<ruled, rung, gauge, blocked, flooded, spared>>
  BY DEF V!Mark, V!Commit
<1> HIDE DEF r
<1>5. /\ r.t.e \in Rows /\ r.t.pace \in Paces
      /\ IsFiniteSet(V!Entries(r.t.e)) /\ Cardinality(V!Entries(r.t.e)) <= MaxEntries
      /\ Cardinality(V!Challenges(r.t.e)) <= MaxEntries \div 2
      /\ \A x \in V!Key : \/ r.t.e["deny"][x] = table["deny"][x]
                          \/ r.t.e["deny"][x] = V!Absent /\ ~(table["deny"][x] > 0)
  <2>1. r.t.e \in Rows /\ r.t.pace \in Paces
    BY <1>3 DEF Shelf
  <2>2. \A x \in V!Key : \/ r.t.e["deny"][x] = table["deny"][x]
                         \/ r.t.e["deny"][x] = V!Absent /\ ~(table["deny"][x] > 0)
    BY <1>1, <1>3 DEF Thinner
  <2> QED
    BY <1>2, <1>3, <2>1, <2>2, ThinnerSmaller
<1>6. blocked' \in [V!Key -> 0..Ttl] /\ blocked' = blocked
  BY <1>4 DEF V!IInv, V!Typed, V!TypeOK
<1>7. CASE ~r.ok
  <2>1. table' = r.t.e /\ pace' = r.t.pace
    BY <1>4, <1>7
  <2>2. V!BlocksLanded'
    BY <1>5, <1>6, <2>1, BlocksKept
  <2> QED
    BY <1>4, <1>5, <1>6, <2>1, <2>2, TableStep
<1>8. CASE r.ok
  <2>1. table' = p.e /\ pace' = p.pace
    BY <1>4, <1>8
  <2>2. /\ p \in Shelf
        /\ \A n \in V!Kinds, x \in V!Key : p.e[n][x] = IF n = "mark" /\ x = k THEN span ELSE r.t.e[n][x]
        /\ IsFiniteSet(V!Entries(p.e)) /\ Cardinality(V!Entries(p.e)) <= MaxEntries
    BY <1>1, <1>3, <1>5, <1>8, PutFits
  <2> HIDE DEF p
  <2>3. V!Challenges(p.e) = V!Challenges(r.t.e)
    BY <1>1, <2>2 DEF V!Challenges
  <2>4. p.e \in Rows /\ p.pace \in Paces
    BY <2>2 DEF Shelf
  <2>5. \A x \in V!Key : p.e["deny"][x] = r.t.e["deny"][x]
    BY <1>1, <2>2
  <2>6. V!BlocksLanded'
    BY <1>5, <1>6, <2>1, <2>4, <2>5, BlocksKept
  <2> QED
    BY <1>4, <1>5, <1>6, <2>1, <2>2, <2>3, <2>4, <2>6, TableStep
<1> QED
  BY <1>3, <1>7, <1>8

\* A cleared key has no verdict and no block.
LEMMA VerdictsClear ==
  ASSUME V!VerdictsAssumption, V!IInv, NEW k \in Target, V!Clear(k)
  PROVE  V!IInv'
<1>1. k \in V!Key /\ "deny" \in V!Kinds /\ Ttl \in Nat /\ MaxEntries \in Nat
  BY VerdictKinds DEF V!VerdictsAssumption, V!Key
<1>2. /\ table \in Rows /\ pace \in Paces
      /\ IsFiniteSet(V!Entries(table)) /\ Cardinality(V!Entries(table)) <= MaxEntries
      /\ Cardinality(V!Challenges(table)) <= MaxEntries \div 2
  BY TableKnown DEF Shelf
<1>3. /\ table' = [m \in V!Kinds |-> [table[m] EXCEPT ![k] = V!Absent]]
      /\ blocked' = [blocked EXCEPT ![k] = 0] /\ UNCHANGED <<ruled, rung, gauge, pace, flooded, spared>>
  BY DEF V!Clear
<1>4. \A m \in V!Kinds : table[m] \in [V!Key -> V!Absent..Ttl]
  BY <1>2 DEF Rows
<1>5. /\ table' \in Rows
      /\ \A m \in V!Kinds, x \in V!Key : table'[m][x] = IF x = k THEN V!Absent ELSE table[m][x]
  <2>1. \A m \in V!Kinds : table'[m] \in [V!Key -> V!Absent..Ttl]
    BY <1>1, <1>3, <1>4 DEF V!Absent
  <2>2. table' = [m \in V!Kinds |-> table'[m]]
    BY <1>3
  <2>3. table' \in Rows
    BY <2>1, <2>2 DEF Rows
  <2> QED
    BY <1>3, <1>4, <2>3
<1>6. IsFiniteSet(V!Entries(table')) /\ Cardinality(V!Entries(table')) <= MaxEntries
  <2>1. V!Entries(table') \in SUBSET V!Entries(table)
    BY <1>5 DEF V!Entries
  <2> QED
    BY <1>1, <1>2, <2>1, FS_Subset, FS_CardinalityType
<1>7. Cardinality(V!Challenges(table')) <= MaxEntries \div 2
  <2>1. V!Challenges(table') \in SUBSET V!Challenges(table)
    BY <1>5, VerdictKinds DEF V!Challenges
  <2>2. IsFiniteSet(V!Challenges(table))
    BY <1>2, ChallengesFinite
  <2> QED
    BY <1>1, <1>2, <2>1, <2>2, FS_Subset, FS_CardinalityType
<1>8. /\ blocked' \in [V!Key -> 0..Ttl]
      /\ \A x \in V!Key : blocked'[x] = IF x = k THEN 0 ELSE blocked[x]
  BY <1>1, <1>3 DEF V!IInv, V!Typed, V!TypeOK
<1>9. V!BlocksLanded'
  BY <1>1, <1>5, <1>8 DEF V!IInv, V!BlocksLanded, V!Absent
<1> QED
  BY <1>2, <1>3, <1>5, <1>6, <1>7, <1>8, <1>9, TableStep

\* A zone's rung: its file's mode, an override and a flip, each with what is left of it.
Rung == [mode : V!Mode, override : [mode : V!Mode, left : 0..Ttl], flip : [on : BOOLEAN, left : 0..Ttl]]

\* The type invariant and the flips, spelt out.
LEMMA RungsKnown ==
  ASSUME V!VerdictsAssumption, V!IInv
  PROVE  /\ rung \in [Zone -> Rung] /\ gauge \in [Zone -> BOOLEAN] /\ ruled \subseteq Zone
         /\ flooded \in [Zone -> 0..Ttl] /\ blocked \in [V!Key -> 0..Ttl]
         /\ \A z \in Zone :
              /\ gauge[z] <=> rung[z].flip.on
              /\ flooded[z] > 0 => /\ V!ModeOf(rung[z]) = "auto"
                                   /\ rung[z].flip.on /\ rung[z].flip.left = flooded[z]
  BY DEF V!IInv, V!Typed, V!TypeOK, V!FlipsHeld, Rung

\* What remains to be shown of a step.
LEMMA VerdictStep ==
  ASSUME V!VerdictsAssumption, V!IInv, UNCHANGED spared,
         ruled' \subseteq Zone, rung' \in [Zone -> Rung], gauge' \in [Zone -> BOOLEAN],
         flooded' \in [Zone -> 0..Ttl],
         \A z \in Zone :
           /\ gauge'[z] <=> rung'[z].flip.on
           /\ flooded'[z] > 0 => /\ V!ModeOf(rung'[z]) = "auto"
                                 /\ rung'[z].flip.on /\ rung'[z].flip.left = flooded'[z],
         table' \in Rows, pace' \in Paces, blocked' \in [V!Key -> 0..Ttl], V!BlocksLanded',
         V!Entries(table') \in SUBSET V!Entries(table)
  PROVE  V!IInv'
<1>1. V!Typed'
  BY DEF V!Typed, V!TypeOK, Rows, Paces, Rung
<1>2. V!FlipsHeld'
  BY DEF V!FlipsHeld, V!ModeOf
<1>3. spared' = FALSE
  BY DEF V!IInv
<1>4. V!TableBounded'
  <2>1. /\ IsFiniteSet(V!Entries(table)) /\ Cardinality(V!Entries(table)) <= MaxEntries
        /\ Cardinality(V!Challenges(table)) <= MaxEntries \div 2 /\ MaxEntries \in Nat
    BY TableKnown DEF V!VerdictsAssumption
  <2>2. IsFiniteSet(V!Entries(table')) /\ Cardinality(V!Entries(table')) <= MaxEntries
    BY <2>1, FS_Subset, FS_CardinalityType
  <2>3. V!Challenges(table') \in SUBSET V!Challenges(table)
    <3>1. ASSUME NEW k \in V!Challenges(table')  PROVE k \in V!Challenges(table)
      <4>1. k \in V!Key /\ <<"challenge", k>> \in V!Entries(table')
        BY VerdictKinds DEF V!Challenges, V!Entries
      <4>2. <<"challenge", k>> \in V!Entries(table)
        BY <4>1
      <4> QED
        BY <4>1, <4>2 DEF V!Challenges, V!Entries
    <3> QED
      BY <3>1
  <2>4. Cardinality(V!Challenges(table')) <= MaxEntries \div 2
    BY <2>1, <2>3, ChallengesFinite, FS_Subset, FS_CardinalityType
  <2>5. V!Entries(table)' = V!Entries(table') /\ V!Challenges(table)' = V!Challenges(table')
    BY DEF V!Entries, V!Challenges
  <2>6. V!TableBounded' <=> /\ V!IsFiniteSet(V!Entries(table')) /\ V!Cardinality(V!Entries(table')) <= MaxEntries
                            /\ V!Cardinality(V!Challenges(table')) <= MaxEntries \div 2
    BY <2>5 DEF V!TableBounded
  <2> QED
    BY <2>2, <2>4, <2>6, VerdictsCounted
<1> QED
  BY <1>1, <1>2, <1>3, <1>4 DEF V!IInv

\* Retiring lapsed flips takes none that stands, and unreports those it takes.
LEMMA FlipsRetired ==
  ASSUME V!VerdictsAssumption, V!IInv, NEW S, V!Retire(S), UNCHANGED flooded
  PROVE  /\ rung' \in [Zone -> Rung] /\ gauge' \in [Zone -> BOOLEAN] /\ flooded' \in [Zone -> 0..Ttl]
         /\ \A z \in Zone :
              /\ gauge'[z] <=> rung'[z].flip.on
              /\ flooded'[z] > 0 => /\ V!ModeOf(rung'[z]) = "auto"
                                    /\ rung'[z].flip.on /\ rung'[z].flip.left = flooded'[z]
<1> DEFINE out == {z \in S : V!Stale(rung[z])}
<1>1. /\ rung \in [Zone -> Rung] /\ gauge \in [Zone -> BOOLEAN]
      /\ flooded \in [Zone -> 0..Ttl] /\ Ttl \in Nat
      /\ \A z \in Zone :
           /\ gauge[z] <=> rung[z].flip.on
           /\ flooded[z] > 0 => /\ V!ModeOf(rung[z]) = "auto"
                                /\ rung[z].flip.on /\ rung[z].flip.left = flooded[z]
  BY RungsKnown DEF V!VerdictsAssumption
<1>2. ASSUME NEW z \in Zone
      PROVE  /\ [rung[z] EXCEPT !.flip = V!Quiet] \in Rung
             /\ [rung[z] EXCEPT !.flip = V!Quiet].flip.on = FALSE
  <2>1. rung[z] \in Rung /\ V!Quiet \in [on : BOOLEAN, left : 0..Ttl] /\ V!Quiet.on = FALSE
    BY <1>1 DEF V!Quiet
  <2> QED
    BY <2>1 DEF Rung
<1>3. /\ rung' = [z \in Zone |-> IF z \in out THEN [rung[z] EXCEPT !.flip = V!Quiet] ELSE rung[z]]
      /\ gauge' = [z \in Zone |-> gauge[z] /\ z \notin out]
  BY DEF V!Retire
<1>4. \A z \in out \cap Zone : ~(flooded[z] > 0)
  BY <1>1 DEF V!Stale
<1> HIDE DEF out
<1>5. rung' \in [Zone -> Rung] /\ gauge' \in [Zone -> BOOLEAN]
  BY <1>1, <1>2, <1>3
<1>6. ASSUME NEW z \in Zone
      PROVE  /\ gauge'[z] <=> rung'[z].flip.on
             /\ flooded'[z] > 0 => /\ V!ModeOf(rung'[z]) = "auto"
                                   /\ rung'[z].flip.on /\ rung'[z].flip.left = flooded'[z]
  <2>1. CASE z \in out
    BY <1>2, <1>3, <1>4, <2>1
  <2>2. CASE z \notin out
    <3>1. rung'[z] = rung[z] /\ (gauge'[z] <=> gauge[z])
      BY <1>3, <2>2
    <3> QED
      BY <1>1, <3>1
  <2> QED
    BY <2>1, <2>2
<1> QED
  BY <1>1, <1>5, <1>6

\* A flip is taken, or given up, with its report.
LEMMA VerdictsSetZoneChallenge ==
  ASSUME V!VerdictsAssumption, V!IInv, NEW z \in Zone, NEW on \in BOOLEAN, NEW span \in 1..Ttl,
         V!SetZoneChallenge(z, on, span)
  PROVE  V!IInv'
<1>1. /\ rung \in [Zone -> Rung] /\ gauge \in [Zone -> BOOLEAN] /\ ruled \subseteq Zone
      /\ flooded \in [Zone -> 0..Ttl] /\ blocked \in [V!Key -> 0..Ttl] /\ Ttl \in Nat
      /\ \A y \in Zone :
           /\ gauge[y] <=> rung[y].flip.on
           /\ flooded[y] > 0 => /\ V!ModeOf(rung[y]) = "auto"
                                /\ rung[y].flip.on /\ rung[y].flip.left = flooded[y]
  BY RungsKnown DEF V!VerdictsAssumption
<1>2. /\ on => V!ModeOf(rung[z]) = "auto"
      /\ rung' = [rung EXCEPT ![z] = [rung[z] EXCEPT !.flip = [on |-> on, left |-> span]]]
      /\ gauge' = [gauge EXCEPT ![z] = on]
      /\ flooded' = [flooded EXCEPT ![z] = IF on THEN span ELSE 0]
      /\ UNCHANGED <<ruled, table, pace, blocked, spared>>
  BY DEF V!SetZoneChallenge
<1> DEFINE r == [rung[z] EXCEPT !.flip = [on |-> on, left |-> span]]
<1>3. r \in Rung /\ r.flip.on = on /\ r.flip.left = span /\ r.mode = rung[z].mode /\ r.override = rung[z].override
  BY <1>1 DEF Rung
<1> HIDE DEF r
<1>4. /\ rung' \in [Zone -> Rung] /\ gauge' \in [Zone -> BOOLEAN] /\ flooded' \in [Zone -> 0..Ttl]
      /\ \A y \in Zone : /\ rung'[y] = IF y = z THEN r ELSE rung[y]
                         /\ gauge'[y] = IF y = z THEN on ELSE gauge[y]
                         /\ flooded'[y] = IF y = z THEN IF on THEN span ELSE 0 ELSE flooded[y]
  BY <1>1, <1>2, <1>3 DEF r
<1>5. V!ModeOf(r) = V!ModeOf(rung[z])
  BY <1>3 DEF V!ModeOf
<1>6. ASSUME NEW y \in Zone
      PROVE  /\ gauge'[y] <=> rung'[y].flip.on
             /\ flooded'[y] > 0 => /\ V!ModeOf(rung'[y]) = "auto"
                                   /\ rung'[y].flip.on /\ rung'[y].flip.left = flooded'[y]
  <2>1. CASE y = z
    BY <1>2, <1>3, <1>4, <1>5, <2>1
  <2>2. CASE y # z
    <3>1. rung'[y] = rung[y] /\ gauge'[y] = gauge[y] /\ flooded'[y] = flooded[y]
      BY <1>4, <2>2
    <3> QED
      BY <1>1, <3>1
  <2> QED
    BY <2>1, <2>2
<1>7. /\ table' \in Rows /\ pace' \in Paces /\ blocked' \in [V!Key -> 0..Ttl]
      /\ V!Entries(table') \in SUBSET V!Entries(table)
  BY <1>1, <1>2, TableKnown DEF Shelf
<1>8. V!BlocksLanded'
  BY <1>2 DEF V!IInv, V!BlocksLanded
<1> QED
  BY <1>1, <1>2, <1>4, <1>6, <1>7, <1>8, VerdictStep

\* A document keeps the flip, and its report, of a zone it leaves auto.
LEMMA VerdictsSetZones ==
  ASSUME V!VerdictsAssumption, V!IInv, V!SetZones
  PROVE  V!IInv'
<1>1. /\ rung \in [Zone -> Rung] /\ gauge \in [Zone -> BOOLEAN] /\ ruled \subseteq Zone
      /\ flooded \in [Zone -> 0..Ttl] /\ blocked \in [V!Key -> 0..Ttl] /\ Ttl \in Nat \ {0}
      /\ \A y \in Zone :
           /\ gauge[y] <=> rung[y].flip.on
           /\ flooded[y] > 0 => /\ V!ModeOf(rung[y]) = "auto"
                                /\ rung[y].flip.on /\ rung[y].flip.left = flooded[y]
  BY RungsKnown DEF V!VerdictsAssumption
<1>2. PICK S \in SUBSET Zone, given \in [Zone -> V!Told] :
        /\ ruled' = S
        /\ rung' = [z \in Zone |-> IF z \in S \cap ruled
                     THEN [given[z] EXCEPT !.flip = V!Carried(rung[z], given[z])] ELSE given[z]]
        /\ gauge' = [z \in Zone |-> gauge[z] /\ (z \in S \cap ruled /\ V!ModeOf(given[z]) = "auto")]
        /\ flooded' = [z \in Zone |-> IF z \in S \cap ruled /\ V!ModeOf(given[z]) = "auto" THEN flooded[z] ELSE 0]
        /\ UNCHANGED <<table, pace, blocked, spared>>
  BY Zenon DEF V!SetZones
<1>3. ASSUME NEW d \in V!Told  PROVE d \in Rung /\ d.flip = V!Quiet
  <2>1. V!Gone \in Rung /\ V!Gone.flip = V!Quiet
    BY <1>1 DEF V!Gone, V!NoOverride, V!Quiet, V!Mode, Rung
  <2>2. V!NoOverride \in [mode : V!Mode, left : 0..Ttl] /\ V!Quiet \in [on : BOOLEAN, left : 0..Ttl]
    BY <1>1 DEF V!NoOverride, V!Quiet, V!Mode
  <2>3. [mode : Levers, left : {Ttl}] \subseteq [mode : V!Mode, left : 0..Ttl]
    BY <1>1 DEF V!VerdictsAssumption
  <2>4. CASE d \in [mode : V!Mode, override : {V!NoOverride} \cup [mode : Levers, left : {Ttl}], flip : {V!Quiet}]
    BY <2>2, <2>3, <2>4 DEF Rung
  <2> QED
    BY <2>1, <2>4 DEF V!Told
<1>4. ASSUME NEW z \in Zone
      PROVE  LET d == given[z]
                 e == [given[z] EXCEPT !.flip = V!Carried(rung[z], given[z])]
             IN  /\ d \in Rung /\ d.flip = V!Quiet /\ e \in Rung /\ V!ModeOf(e) = V!ModeOf(d)
                 /\ e.flip = IF V!ModeOf(d) = "auto" THEN rung[z].flip ELSE V!Quiet
  <2> DEFINE d == given[z]
             c == V!Carried(rung[z], given[z])
             e == [d EXCEPT !.flip = c]
  <2>1. d \in Rung /\ d.flip = V!Quiet
    BY <1>3
  <2>2. c = (IF V!ModeOf(d) = "auto" THEN rung[z].flip ELSE V!Quiet)
    BY DEF V!Carried
  <2>3. c \in [on : BOOLEAN, left : 0..Ttl]
    <3>1. rung[z].flip \in [on : BOOLEAN, left : 0..Ttl] /\ V!Quiet \in [on : BOOLEAN, left : 0..Ttl]
      BY <1>1 DEF Rung, V!Quiet
    <3> QED
      BY <2>2, <3>1
  <2> HIDE DEF c, d
  <2>4. e \in Rung /\ e.flip = c /\ e.mode = d.mode /\ e.override = d.override
    BY <2>1, <2>3 DEF Rung
  <2>5. V!ModeOf(e) = V!ModeOf(d)
    BY <2>4 DEF V!ModeOf
  <2> QED
    BY <2>1, <2>2, <2>4, <2>5 DEF c, d
<1>5. V!Quiet.on = FALSE
  BY DEF V!Quiet
<1>6. /\ rung' \in [Zone -> Rung] /\ gauge' \in [Zone -> BOOLEAN] /\ flooded' \in [Zone -> 0..Ttl]
  BY <1>1, <1>2, <1>4
<1>7. ASSUME NEW z \in Zone
      PROVE  /\ gauge'[z] <=> rung'[z].flip.on
             /\ flooded'[z] > 0 => /\ V!ModeOf(rung'[z]) = "auto"
                                   /\ rung'[z].flip.on /\ rung'[z].flip.left = flooded'[z]
  <2>1. CASE z \in S \cap ruled /\ V!ModeOf(given[z]) = "auto"
    <3>1. /\ rung'[z].flip = rung[z].flip /\ V!ModeOf(rung'[z]) = "auto"
          /\ (gauge'[z] <=> gauge[z]) /\ flooded'[z] = flooded[z]
      BY <1>2, <1>4, <2>1
    <3> QED
      BY <1>1, <3>1
  <2>2. CASE ~(z \in S \cap ruled /\ V!ModeOf(given[z]) = "auto")
    <3>1. rung'[z].flip = V!Quiet /\ gauge'[z] = FALSE /\ flooded'[z] = 0
      BY <1>2, <1>4, <2>2
    <3> QED
      BY <1>5, <3>1
  <2> QED
    BY <2>1, <2>2
<1>8. /\ table' \in Rows /\ pace' \in Paces /\ blocked' \in [V!Key -> 0..Ttl]
      /\ V!Entries(table') \in SUBSET V!Entries(table)
  BY <1>1, <1>2, TableKnown DEF Shelf
<1>9. V!BlocksLanded'
  BY <1>2 DEF V!IInv, V!BlocksLanded
<1> QED
  BY <1>2, <1>6, <1>7, <1>8, <1>9, VerdictStep

\* A step that only takes expired entries from the table, or those of no block.
LEMMA EntriesGo ==
  ASSUME V!VerdictsAssumption, V!IInv, NEW e \in Rows,
         \A m \in V!Kinds, k \in V!Key : e[m][k] # V!Absent => table[m][k] # V!Absent
  PROVE  V!Entries(e) \in SUBSET V!Entries(table)
  BY DEF V!Entries

\* A request deletes expired entries and retires a lapsed flip, nothing that stands.
LEMMA VerdictsDecide ==
  ASSUME V!VerdictsAssumption, V!IInv, NEW k \in V!Key, V!DecideRequest(k)
  PROVE  V!IInv'
<1>1. /\ rung \in [Zone -> Rung] /\ gauge \in [Zone -> BOOLEAN] /\ ruled \subseteq Zone
      /\ flooded \in [Zone -> 0..Ttl] /\ blocked \in [V!Key -> 0..Ttl] /\ Ttl \in Nat
      /\ \A y \in Zone :
           /\ gauge[y] <=> rung[y].flip.on
           /\ flooded[y] > 0 => /\ V!ModeOf(rung[y]) = "auto"
                                /\ rung[y].flip.on /\ rung[y].flip.left = flooded[y]
  BY RungsKnown DEF V!VerdictsAssumption
<1>2. table \in Rows /\ pace \in Paces
  BY TableKnown DEF Shelf
<1> DEFINE met == V!Met(k)
<1>3. /\ table' = [m \in V!Kinds |-> [x \in V!Key |->
                     IF <<m, x>> \in met /\ table[m][x] = 0 THEN V!Absent ELSE table[m][x]]]
      /\ UNCHANGED <<rung, gauge>> \/ V!Retire({k[1]})
      /\ UNCHANGED <<ruled, pace, blocked, flooded, spared>>
  BY DEF V!DecideRequest
<1> HIDE DEF met
<1>4. /\ table' \in Rows
      /\ \A m \in V!Kinds, x \in V!Key :
           table'[m][x] = table[m][x] \/ (table'[m][x] = V!Absent /\ table[m][x] = 0)
  BY <1>1, <1>2, <1>3 DEF Rows, V!Absent
<1>5. V!Entries(table') \in SUBSET V!Entries(table)
  BY <1>4, EntriesGo DEF V!Absent
<1>6. V!BlocksLanded'
  <2>1. \A x \in V!Key : \/ table'["deny"][x] = table["deny"][x]
                         \/ table'["deny"][x] = V!Absent /\ ~(table["deny"][x] > 0)
    BY <1>4, VerdictKinds
  <2> QED
    BY <1>3, <1>4, <2>1, BlocksKept
<1>7. CASE UNCHANGED <<rung, gauge>>
  BY <1>1, <1>2, <1>3, <1>4, <1>5, <1>6, <1>7, VerdictStep
<1>8. CASE V!Retire({k[1]})
  BY <1>1, <1>2, <1>3, <1>4, <1>5, <1>6, <1>8, FlipsRetired, VerdictStep
<1> QED
  BY <1>3, <1>7, <1>8

\* The sweep takes lapsed flips, expired entries, and the zones that are gone.
LEMMA VerdictsSweep ==
  ASSUME V!VerdictsAssumption, V!IInv, V!Sweep
  PROVE  V!IInv'
<1>1. /\ ruled \subseteq Zone /\ blocked \in [V!Key -> 0..Ttl] /\ Ttl \in Nat /\ FullEvery \in Nat
  BY RungsKnown DEF V!VerdictsAssumption
<1>2. table \in Rows /\ pace \in Paces
  BY TableKnown DEF Shelf
<1>3. /\ V!Retire(ruled)
      /\ table' = [m \in V!Kinds |-> [k \in V!Key |->
                     IF k[1] \in ruled \cup {Every} /\ table[m][k] > 0 THEN table[m][k] ELSE V!Absent]]
      /\ pace' = [pace EXCEPT !.sweep = 0]
      /\ blocked' = [k \in V!Key |-> IF k[1] \in ruled \cup {Every} THEN blocked[k] ELSE 0]
      /\ UNCHANGED <<ruled, flooded, spared>>
  BY DEF V!Sweep
<1>4. /\ table' \in Rows
      /\ \A m \in V!Kinds, k \in V!Key :
           table'[m][k] = IF k[1] \in ruled \cup {Every} /\ table[m][k] > 0 THEN table[m][k] ELSE V!Absent
  BY <1>1, <1>2, <1>3 DEF Rows, V!Absent
<1>5. V!Entries(table') \in SUBSET V!Entries(table)
  BY <1>4, EntriesGo DEF V!Absent
<1>6. pace' \in Paces /\ blocked' \in [V!Key -> 0..Ttl]
  BY <1>1, <1>2, <1>3 DEF Paces
<1>7. V!BlocksLanded'
  <2>1. \A k \in V!Key : IF blocked[k] > 0 THEN table["deny"][k] = blocked[k] ELSE table["deny"][k] <= 0
    BY DEF V!IInv, V!BlocksLanded
  <2>2. \A k \in V!Key : /\ blocked[k] \in 0..Ttl
                         /\ blocked'[k] = IF k[1] \in ruled \cup {Every} THEN blocked[k] ELSE 0
                         /\ table'["deny"][k] = IF k[1] \in ruled \cup {Every} /\ table["deny"][k] > 0
                                                THEN table["deny"][k] ELSE V!Absent
    BY <1>1, <1>3, <1>4, VerdictKinds
  <2> QED
    BY <2>1, <2>2 DEF V!BlocksLanded, V!Absent
<1> QED
  BY <1>1, <1>3, <1>4, <1>5, <1>6, <1>7, FlipsRetired, VerdictStep

\* Time shortens a block, its entry, a flip and what is left of it alike.
LEMMA VerdictsTime ==
  ASSUME V!VerdictsAssumption, V!IInv, V!TimePasses
  PROVE  V!IInv'
<1>1. /\ rung \in [Zone -> Rung] /\ gauge \in [Zone -> BOOLEAN] /\ ruled \subseteq Zone
      /\ flooded \in [Zone -> 0..Ttl] /\ blocked \in [V!Key -> 0..Ttl] /\ Ttl \in Nat /\ FullEvery \in Nat
      /\ \A y \in Zone :
           /\ gauge[y] <=> rung[y].flip.on
           /\ flooded[y] > 0 => /\ V!ModeOf(rung[y]) = "auto"
                                /\ rung[y].flip.on /\ rung[y].flip.left = flooded[y]
  BY RungsKnown DEF V!VerdictsAssumption
<1>2. table \in Rows /\ pace \in Paces
  BY TableKnown DEF Shelf
<1>3. /\ table' = [m \in V!Kinds |-> [k \in V!Key |-> V!Less(table[m][k])]]
      /\ pace' = [p \in DOMAIN pace |-> V!Least(pace[p] + 1, FullEvery)]
      /\ rung' = [z \in Zone |-> [rung[z] EXCEPT !.override.left = V!Less(@), !.flip.left = V!Less(@)]]
      /\ blocked' = [k \in V!Key |-> V!Less(blocked[k])]
      /\ flooded' = [z \in Zone |-> IF V!ModeOf(rung'[z]) = "auto" THEN V!Less(flooded[z]) ELSE 0]
      /\ UNCHANGED <<ruled, gauge, spared>>
  BY DEF V!TimePasses
<1>4. \A x \in V!Absent..Ttl : /\ V!Less(x) \in V!Absent..Ttl /\ (V!Less(x) # V!Absent => x # V!Absent)
                               /\ (x > 0 => V!Less(x) = x - 1) /\ (~(x > 0) => V!Less(x) = x)
  BY <1>1 DEF V!Less, V!Absent
<1>5. /\ table' \in Rows
      /\ \A m \in V!Kinds, k \in V!Key : table'[m][k] = V!Less(table[m][k]) /\ table[m][k] \in V!Absent..Ttl
  BY <1>2, <1>3, <1>4 DEF Rows
<1>6. V!Entries(table') \in SUBSET V!Entries(table)
  BY <1>4, <1>5, EntriesGo
<1>7. pace' \in Paces
  <2>1. \A n \in 0..FullEvery : V!Least(n + 1, FullEvery) \in 0..FullEvery
    BY <1>1 DEF V!Least
  <2> QED
    BY <1>2, <1>3, <2>1 DEF Paces
<1>8. /\ blocked' \in [V!Key -> 0..Ttl]
      /\ \A k \in V!Key : blocked'[k] = V!Less(blocked[k]) /\ blocked[k] \in 0..Ttl
  <2>1. \A x \in 0..Ttl : V!Less(x) \in 0..Ttl
    BY <1>1 DEF V!Less
  <2> QED
    BY <1>1, <1>3, <2>1
<1>9. V!BlocksLanded'
  <2>1. \A k \in V!Key : IF blocked[k] > 0 THEN table["deny"][k] = blocked[k] ELSE table["deny"][k] <= 0
    BY DEF V!IInv, V!BlocksLanded
  <2>2. \A k \in V!Key : /\ blocked'[k] = V!Less(blocked[k]) /\ blocked[k] \in 0..Ttl
                         /\ table'["deny"][k] = V!Less(table["deny"][k]) /\ table["deny"][k] \in V!Absent..Ttl
    BY <1>5, <1>8, VerdictKinds
  <2> QED
    BY <2>1, <2>2 DEF V!BlocksLanded, V!Less, V!Absent
<1>10. \A x \in 0..Ttl : V!Less(x) \in 0..Ttl /\ (V!Less(x) > 0 => x > 0)
  BY <1>1 DEF V!Less
<1>11. ASSUME NEW z \in Zone
       PROVE  /\ rung'[z] \in Rung /\ rung'[z].flip.on = rung[z].flip.on
              /\ rung'[z].flip.left = V!Less(rung[z].flip.left)
  <2> DEFINE o == [rung[z].override EXCEPT !.left = V!Less(rung[z].override.left)]
             f == [rung[z].flip EXCEPT !.left = V!Less(rung[z].flip.left)]
  <2>1. /\ rung[z] \in Rung /\ rung[z].override \in [mode : V!Mode, left : 0..Ttl]
        /\ rung[z].flip \in [on : BOOLEAN, left : 0..Ttl]
    BY <1>1 DEF Rung
  <2>2. /\ o \in [mode : V!Mode, left : 0..Ttl]
        /\ f \in [on : BOOLEAN, left : 0..Ttl] /\ f.on = rung[z].flip.on /\ f.left = V!Less(rung[z].flip.left)
    BY <1>10, <2>1
  <2>3. rung'[z] = [[rung[z] EXCEPT !.override = o] EXCEPT !.flip = f]
    BY <1>3, <2>1 DEF Rung
  <2> HIDE DEF o, f
  <2> QED
    BY <2>1, <2>2, <2>3 DEF Rung
<1>12. rung' \in [Zone -> Rung] /\ flooded' \in [Zone -> 0..Ttl]
  <2>1. rung' \in [Zone -> Rung]
    <3>1. rung' = [z \in Zone |-> rung'[z]]
      BY <1>3
    <3> QED
      BY <1>11, <3>1
  <2>2. flooded' \in [Zone -> 0..Ttl]
    <3>1. \A z \in Zone : V!Less(flooded[z]) \in 0..Ttl /\ 0 \in 0..Ttl
      BY <1>1, <1>10
    <3>2. \A z \in Zone : flooded'[z] \in 0..Ttl
      BY <1>3, <3>1
    <3>3. flooded' = [z \in Zone |-> flooded'[z]]
      BY <1>3
    <3> QED
      BY <3>2, <3>3
  <2> QED
    BY <2>1, <2>2
<1>13. ASSUME NEW z \in Zone
       PROVE  /\ gauge'[z] <=> rung'[z].flip.on
              /\ flooded'[z] > 0 => /\ V!ModeOf(rung'[z]) = "auto"
                                    /\ rung'[z].flip.on /\ rung'[z].flip.left = flooded'[z]
  <2>1. flooded'[z] = IF V!ModeOf(rung'[z]) = "auto" THEN V!Less(flooded[z]) ELSE 0
    BY <1>3
  <2>2. flooded[z] \in 0..Ttl /\ gauge' = gauge
    BY <1>1, <1>3
  <2> QED
    BY <1>1, <1>10, <1>11, <2>1, <2>2
<1> QED
  BY <1>1, <1>3, <1>5, <1>6, <1>7, <1>8, <1>9, <1>12, <1>13, VerdictStep

\* The first live verdict a request meets is a block if and only if there is a live block, of
\* its zone or of every zone.
LEMMA BlockMet ==
  ASSUME V!VerdictsAssumption, V!IInv, NEW k \in V!Key
  PROVE  V!Strongest(k) = "deny" <=> table["deny"][k] > 0 \/ table["deny"][<<Every, k[2]>>] > 0
<1> DEFINE q == V!Visits(k)
           w == <<Every, k[2]>>
           I == {i \in 1..6 : V!At(q[i]) > 0}
<1>1. /\ q[1] = <<"deny", k>> /\ q[2] = <<"deny", w>>
      /\ \A i \in 3..6 : q[i][1] \in {"challenge", "mark"}
  <2>1. q = [i \in 1..6 |-> <<V!Kind[(i + 1) \div 2], IF i % 2 = 1 THEN k ELSE w>>]
    BY DEF V!Visits
  <2> HIDE DEF q, w
  <2>2. \A i \in 1..6 : q[i] = <<V!Kind[(i + 1) \div 2], IF i % 2 = 1 THEN k ELSE w>>
    BY <2>1
  <2>3. /\ (1 + 1) \div 2 = 1 /\ (2 + 1) \div 2 = 1 /\ 1 % 2 = 1 /\ 2 % 2 = 0
        /\ \A i \in 3..6 : (i + 1) \div 2 \in {2, 3}
    OBVIOUS
  <2>4. q[1] = <<V!Kind[(1 + 1) \div 2], IF 1 % 2 = 1 THEN k ELSE w>>
    BY <2>2
  <2>5. q[2] = <<V!Kind[(2 + 1) \div 2], IF 2 % 2 = 1 THEN k ELSE w>>
    BY <2>2
  <2>6. \A i \in 3..6 : q[i][1] = V!Kind[(i + 1) \div 2]
    BY <2>2
  <2>7. \A i \in 3..6 : V!Kind[(i + 1) \div 2] \in {"challenge", "mark"}
    BY <2>3, VerdictKinds
  <2> QED
    BY <2>3, <2>4, <2>5, <2>6, <2>7, VerdictKinds
<1>2. Len(q) = 6
  BY DEF V!Visits
<1>3. V!Found(k) = IF I # {} THEN V!Min(I) ELSE 0
  BY <1>2 DEF V!Found, V!SelectInSeq
<1>4. I # {} => V!Min(I) \in I /\ \A i \in I : V!Min(I) <= i
  <2> SUFFICES ASSUME I # {} PROVE V!Min(I) \in I /\ \A i \in I : V!Min(I) <= i
    OBVIOUS
  <2>1. I \in SUBSET Nat
    OBVIOUS
  <2> HIDE DEF I
  <2>2. \E x \in I : \A y \in I : x <= y
    BY <2>1, LeastNatural
  <2> QED
    BY <2>2 DEF V!Min
<1>5. /\ 1 \in I <=> table["deny"][k] > 0
      /\ 2 \in I <=> table["deny"][w] > 0
  BY <1>1 DEF V!At
<1>6. I \in SUBSET (1..6)
  OBVIOUS
<1>7. V!Strongest(k) = IF V!Found(k) = 0 THEN "none" ELSE q[V!Found(k)][1]
  BY DEF V!Strongest
<1> HIDE DEF I, q
<1>8. CASE 1 \in I \/ 2 \in I
  <2>1. V!Found(k) \in {1, 2}
    <3>1. PICK i \in I : i \in {1, 2}
      BY <1>8
    <3>2. V!Found(k) = V!Min(I) /\ V!Min(I) \in I /\ \A j \in I : V!Min(I) <= j
      BY <1>3, <1>4, <3>1
    <3>3. V!Found(k) \in 1..6
      BY <1>6, <3>2
    <3>4. V!Found(k) <= i
      BY <3>1, <3>2
    <3> QED
      BY <3>1, <3>3, <3>4
  <2> QED
    BY <1>1, <1>5, <1>7, <1>8, <2>1
<1>9. CASE ~(1 \in I \/ 2 \in I)
  <2>1. V!Found(k) = 0 \/ V!Found(k) \in 3..6
    <3>1. CASE I = {}
      BY <1>3, <3>1
    <3>2. CASE I # {}
      <4>1. V!Found(k) \in I
        BY <1>3, <1>4, <3>2
      <4>2. V!Found(k) \in 1..6 /\ V!Found(k) # 1 /\ V!Found(k) # 2
        BY <1>6, <1>9, <4>1
      <4> QED
        BY <4>2
    <3> QED
      BY <3>1, <3>2
  <2>2. V!Strongest(k) # "deny"
    BY <1>1, <1>7, <2>1
  <2> QED
    BY <1>5, <1>9, <2>2
<1> QED
  BY <1>8, <1>9

\* The invariant is what the table promises.
LEMMA VerdictsHonest ==
  ASSUME V!VerdictsAssumption, V!IInv
  PROVE  V!TypeOK /\ V!VerdictsStand
<1>1. /\ rung \in [Zone -> Rung] /\ gauge \in [Zone -> BOOLEAN] /\ ruled \subseteq Zone
      /\ flooded \in [Zone -> 0..Ttl] /\ blocked \in [V!Key -> 0..Ttl] /\ Ttl \in Nat
      /\ \A y \in Zone :
           /\ gauge[y] <=> rung[y].flip.on
           /\ flooded[y] > 0 => /\ V!ModeOf(rung[y]) = "auto"
                                /\ rung[y].flip.on /\ rung[y].flip.left = flooded[y]
  BY RungsKnown DEF V!VerdictsAssumption
<1>2. ASSUME NEW k \in V!Key
      PROVE  blocked[k] > 0 <=> table["deny"][k] > 0
  <2>1. IF blocked[k] > 0 THEN table["deny"][k] = blocked[k] ELSE table["deny"][k] <= 0
    BY DEF V!IInv, V!BlocksLanded
  <2>2. blocked[k] \in 0..Ttl /\ table \in Rows
    BY <1>1, TableKnown DEF Shelf
  <2>3. table["deny"][k] \in V!Absent..Ttl
    BY <2>2, VerdictKinds DEF Rows
  <2> QED
    BY <1>1, <2>1, <2>2, <2>3 DEF V!Absent
<1>3. ASSUME NEW k \in V!Requests
      PROVE  /\ k \in V!Key /\ <<Every, k[2]>> \in V!Key /\ k[1] \in Zone
  BY <1>1 DEF V!Requests, V!Key
<1>4. ASSUME NEW k \in V!Requests
      PROVE  (blocked[k] > 0 \/ blocked[<<Every, k[2]>>] > 0) <=> V!Said(k) = "deny"
  <2>1. V!Said(k) = "deny" <=> V!Strongest(k) = "deny"
    BY DEF V!Said
  <2> QED
    BY <1>2, <1>3, <2>1, BlockMet
<1>5. ASSUME NEW k \in V!Requests, flooded[k[1]] > 0
      PROVE  V!Said(k) # "pass"
  <2>1. flooded[k[1]] \in 0..Ttl /\ V!ModeOf(rung[k[1]]) = "auto" /\ rung[k[1]].flip.on
        /\ rung[k[1]].flip.left = flooded[k[1]]
    BY <1>1, <1>3, <1>5
  <2>2. V!InForce(rung[k[1]], V!Strongest(k))
    BY <1>5, <2>1 DEF V!InForce, V!Stale
  <2> QED
    BY <2>2 DEF V!Said
<1> QED
  BY <1>1, <1>4, <1>5 DEF V!VerdictsStand, V!IInv, V!Typed, V!TableBounded

\* Every step keeps the invariant of the table.
LEMMA VerdictsStep ==
  ASSUME V!VerdictsAssumption, V!IInv, [V!Next]_V!vars
  PROVE  V!IInv'
<1>1. ASSUME UNCHANGED V!vars  PROVE V!IInv'
  BY <1>1 DEF V!vars, V!IInv, V!Typed, V!TypeOK, V!BlocksLanded, V!FlipsHeld, V!TableBounded,
              V!Entries, V!Challenges, V!ModeOf
<1> QED
  BY <1>1, VerdictsDeny, VerdictsChallenge, VerdictsMark, VerdictsClear, VerdictsSetZoneChallenge,
     VerdictsSetZones, VerdictsDecide, VerdictsSweep, VerdictsTime DEF V!Next

---------------------------------------------------------------------------
(* The edge.                                                               *)

\* The invariant of the edge: those of the parts.
EdgeInv == E!IInv /\ K!IInv /\ V!IInv /\ C!IInv /\ W!IInv /\ L!IInv /\ X!IInv

\* Every part starts in its invariant.
LEMMA EdgeInit ==
  ASSUME Init
  PROVE  EdgeInv
<1>1. E!Init /\ K!Init /\ V!Init /\ C!Init /\ W!Init /\ L!Init /\ X!Init
  BY DEF Init
<1>2. E!IInv /\ K!IInv /\ V!IInv
  BY <1>1, EdgeAssumption, NodeInit, KeysInit, VerdictsInit DEF EdgeAssumption
<1>3. C!IInv /\ W!IInv /\ L!IInv /\ X!IInv
  BY <1>1, EdgeAssumption, CeilingsInit, LogInit, LadderInit, ExporterInit DEF EdgeAssumption
<1> QED
  BY <1>2, <1>3 DEF EdgeInv

\* A step of the edge is, for each part, a step of that part or none.
LEMMA EdgeMoves ==
  ASSUME [Next]_vars
  PROVE  /\ [E!Next]_E!vars /\ [K!Next]_K!vars /\ [V!Next]_V!vars /\ [C!Next]_C!vars
         /\ [W!Next]_W!vars /\ [L!Next]_L!vars /\ [X!Next]_X!vars
<1>1. /\ UNCHANGED nodeVars => UNCHANGED E!vars
      /\ UNCHANGED keyVars => UNCHANGED K!vars
      /\ UNCHANGED verdictVars => UNCHANGED V!vars
  BY DEF nodeVars, E!vars, E!brain, E!disk, keyVars, K!vars, verdictVars, V!vars
<1>2. /\ UNCHANGED ceilingVars => UNCHANGED C!vars
      /\ UNCHANGED logVars => UNCHANGED W!vars
      /\ UNCHANGED ruleVars => UNCHANGED L!vars
      /\ UNCHANGED exporterVars => UNCHANGED X!vars
  BY DEF ceilingVars, C!vars, logVars, W!vars, ruleVars, L!vars, exporterVars, X!vars, X!tailVars, X!postVars, X!ghosts
<1>3. E!Next \/ UNCHANGED nodeVars
  BY DEF Next, vars, ServingNode, Holds, Keyring, Deciding, Ceilings, Counting, Judging, Following
<1>4. K!Next \/ UNCHANGED keyVars
  BY DEF Next, vars, ServingNode, Holds, Keyring, Deciding, Ceilings, Counting, Judging, Following
<1>5. V!Next \/ UNCHANGED verdictVars
  BY DEF Next, vars, ServingNode, Holds, Keyring, Deciding, Ceilings, Counting, Judging, Following
<1>6. W!Next \/ UNCHANGED logVars
  BY DEF Next, vars, ServingNode, Holds, Keyring, Deciding, Ceilings, Counting, Judging, Following
<1>7. L!Next \/ UNCHANGED ruleVars
  BY DEF Next, vars, ServingNode, Holds, Keyring, Deciding, Ceilings, Counting, Judging, Following
<1>8. X!Next \/ UNCHANGED exporterVars
  BY DEF Next, vars, ServingNode, Holds, Keyring, Deciding, Ceilings, Counting, Judging, Following
<1>9. C!Next \/ UNCHANGED ceilingVars
  BY DEF Next, vars, ServingNode, Holds, Keyring, Deciding, Ceilings, Counting, Judging, Following
<1> QED
  BY <1>1, <1>2, <1>3, <1>4, <1>5, <1>6, <1>7, <1>8, <1>9

\* Every step of the edge keeps the invariant of every part.
LEMMA EdgeStep ==
  ASSUME EdgeInv, [Next]_vars
  PROVE  EdgeInv'
<1>1. E!IInv' /\ K!IInv' /\ V!IInv'
  BY EdgeAssumption, EdgeMoves, NodeStep, KeysStep, VerdictsStep DEF EdgeAssumption, EdgeInv
<1>2. C!IInv' /\ W!IInv' /\ L!IInv' /\ X!IInv'
  BY EdgeAssumption, EdgeMoves, CeilingsStep, LogStep, LadderStep, ExporterStep DEF EdgeAssumption, EdgeInv
<1> QED
  BY <1>1, <1>2 DEF EdgeInv

\* The invariant holds of every behaviour of the edge.
THEOREM EdgeInvariant == Spec => []EdgeInv
<1>1. Init => EdgeInv
  BY EdgeInit
<1>2. EdgeInv /\ [Next]_vars => EdgeInv'
  BY EdgeStep
<1> QED
  BY <1>1, <1>2, PTL DEF Spec

\* The terminator only ever loads a document the brain published and the terminator's own
\* test has passed, through failed writes, tests, reloads and kills: the node implements
\* TestedGate (apply.go, "a failing candidate is never installed").
THEOREM GateImplemented == Spec => ImplementsGate
<1>1. Init => E!Gate!Init
  BY DEF Init, E!Init, E!Gate!Init
<1>2. EdgeInv /\ [Next]_vars => [E!Gate!Next]_<<published, serving>>
  BY EdgeAssumption, EdgeMoves, NodePassesGate DEF EdgeAssumption, EdgeInv
<1> QED
  BY <1>1, <1>2, EdgeInvariant, PTL DEF Spec, ImplementsGate, E!ImplementsGate, E!Gate!Spec

\* A node the brain answers "not modified" holds the brain's document, or one torn on disk
\* by a kill and misled by a step back (saveCached, acceptDocument).
THEOREM NotModifiedTrue == Spec => []NotModifiedIsCurrent
<1>1. EdgeInv => NotModifiedIsCurrent
  BY NodeCurrent DEF EdgeInv, NotModifiedIsCurrent
<1> QED
  BY <1>1, EdgeInvariant, PTL

\* A cleared visitor stays cleared at every up-to-date node for the cookie's whole life,
\* across midnights, reloads, failed saves and restarts (clearanceStore.keys, ensure).
THEOREM ClearanceKept == Spec => []ClearanceHonoured
<1>1. EdgeInv => ClearanceHonoured
  BY EdgeAssumption, KeysHonour DEF EdgeAssumption, EdgeInv, ClearanceHonoured
<1> QED
  BY <1>1, EdgeInvariant, PTL

\* A landed block and a flood's flip stand for their time whatever the table must make room
\* for, and a challenged source's block always lands (setDeny, room, dropBeneath).
THEOREM VerdictsStood == Spec => []VerdictsStand
<1>1. EdgeInv => VerdictsStand
  BY EdgeAssumption, VerdictsHonest DEF EdgeAssumption, EdgeInv, VerdictsStand
<1> QED
  BY <1>1, EdgeInvariant, PTL

\* Every record is counted once, whole, and who would be refused is not told short of the
\* truth (Observe, rank); a flood is answered, the rung before the block, and a block is not
\* lengthened by the flood it stops (apply); the exporter misses no line of a log that is
\* rotated and glues no two, and its blocks have no gap (Tailer.drain, Loop.post).
THEOREM FloodsAnswered == Spec => []FloodsJudged
<1>1. EdgeInv => FloodsJudged
  BY DEF EdgeInv, FloodsJudged, W!IInv, L!IInv, X!IInv
<1> QED
  BY <1>1, EdgeInvariant, PTL

\* The ceilings are honest whatever the sweeps, the quotas and the zones do: a zone is
\* charged for what it holds, no eviction lets a source spend what it has not earned, and
\* the concurrency ceiling counts no more than requests that may be in flight (Service.take,
\* count, open, Complete, sweep).
THEOREM CeilingsKept == Spec => []CeilingsHonest
<1>1. EdgeInv => CeilingsHonest
  BY DEF EdgeInv, CeilingsHonest, C!IInv
<1> QED
  BY <1>1, EdgeInvariant, PTL
=============================================================================
