------------------------------ MODULE Dataplane ------------------------------
(***************************************************************************)
(* The policy maps of the XDP data plane and their two writers: a manager   *)
(* that reloads the static policy by building the idle generation and       *)
(* flipping to it (dataplane/manager.go), and an installer that puts one    *)
(* victim's rules into the live generation (dataplane/installer_linux.go).  *)
(* The maps are pinned: they outlive the process, which adopts them.        *)
(*                                                                         *)
(* One mutex serialises the writers, but not the packets and not a crash,   *)
(* so every write they could see between two others is a step of its own.   *)
(***************************************************************************)
EXTENDS Integers, FiniteSets

CONSTANTS
  Victim,     \* the prefixes a ban may cover
  Slots,      \* policy blocks per generation (PolicyStride)
  Profiles,   \* rate-limit profiles in the dynamic band
  Rate,       \* the ceilings a ban may ask for; NoRate is a plain discard
  Policy,     \* the static policies a configuration may hold
  NoVictim, NoPolicy,
  MayFail     \* the map writes that may fail: "victim" (AddVictim, DeleteVictim)

Slot == 1..Slots
Profile == 1..Profiles
Gens == {0, 1}
NoRate == 0
NoSlot == 0
NoProfile == 0

DataplaneAssumption ==
  /\ Slots \in Nat \ {0} /\ Profiles \in Nat \ {0}
  /\ Rate \subseteq Nat /\ NoVictim \notin Victim /\ NoPolicy \notin Policy

VARIABLES
  gen, statics, block, trie, rate,      \* the pinned maps
  held, taken, ceiling, interned, known, \* the installer's memory
  opts, next, stage,                    \* the manager's memory
  doing,                                \* the installer's call in progress
  want                                  \* what the last installs asked for (ghost)

maps == <<gen, statics, block, trie, rate>>
memory == <<held, taken, ceiling, interned, known>>
vars == <<maps, memory, opts, next, stage, doing, want>>

Empty == [victim |-> NoVictim, profile |-> NoProfile, live |-> FALSE]
Unwanted == [on |-> FALSE, rate |-> NoRate, own |-> FALSE]
Quiet == [op |-> "none", victim |-> NoVictim, slot |-> NoSlot, fresh |-> FALSE, rate |-> NoRate]

Ready == stage = "idle" /\ doing = Quiet
Live == block[gen]

---------------------------------------------------------------------------
(* The installer's allocators, as functions of a candidate memory.         *)

\* What one process knows of the maps: its slots, references and rates.
Memory == [held |-> held, taken |-> taken, ceiling |-> ceiling,
           interned |-> interned, rate |-> rate]

\* Wrong variant: the slot goes while other victims still use it.
ReleasedOutright(m, v) ==
  LET p == m.ceiling[v]
  IN IF p = NoProfile THEN m
     ELSE [m EXCEPT !.ceiling[v] = NoProfile, !.interned[p] = NoRate, !.rate[p] = NoRate]

\* The last reference zeroes the profile and frees its slot.
Released(m, v) ==
  LET p == m.ceiling[v]
      shared == \E w \in Victim \ {v} : m.ceiling[w] = p
  IN IF p = NoProfile THEN m
     ELSE IF shared THEN [m EXCEPT !.ceiling[v] = NoProfile]
     ELSE [m EXCEPT !.ceiling[v] = NoProfile, !.interned[p] = NoRate, !.rate[p] = NoRate]

Least(S) == CHOOSE x \in S : \A y \in S : x <= y

\* The profile of a ceiling: the one that already holds it, or the first free.
ProfileFor(m, r) ==
  LET same == {p \in Profile : m.interned[p] = r}
      free == {p \in Profile : m.interned[p] = NoRate}
  IN IF same # {} THEN Least(same) ELSE IF free # {} THEN Least(free) ELSE NoProfile

Interned(m, v, r) ==
  LET p == ProfileFor(m, r)
  IN IF r = NoRate \/ p = NoProfile THEN m
     ELSE [m EXCEPT !.ceiling[v] = p, !.interned[p] = r, !.rate[p] = r]

SlotFor(m, v) ==
  LET free == Slot \ m.taken
  IN IF m.held[v] # NoSlot THEN m.held[v] ELSE IF free # {} THEN Least(free) ELSE NoSlot

Unbound(m, v, fresh) ==
  IF fresh THEN [m EXCEPT !.held[v] = NoSlot, !.taken = @ \ {m.held[v]}] ELSE m

Remember(m) ==
  /\ held' = m.held /\ taken' = m.taken /\ ceiling' = m.ceiling
  /\ interned' = m.interned /\ rate' = m.rate

---------------------------------------------------------------------------
(* Adoption, once, before the installer's first call.                      *)

InTrie == {v \in Victim : trie[v] # NoSlot}
Dead == {v \in InTrie : ~Live[trie[v]].live}
Reaped == {trie[v] : v \in Dead}

\* Wrong variant: an adopted victim's block is not marked taken.
AdoptedTakenNone == {}

AdoptedTaken == {trie[v] : v \in InTrie \ Dead}

AdoptLocked ==
  /\ stage = "idle" /\ ~known
  /\ trie' = [v \in Victim |-> IF v \in Dead THEN NoSlot ELSE trie[v]]
  /\ block' = [block EXCEPT ![gen] = [i \in Slot |-> IF i \in Reaped THEN Empty ELSE @[i]]]
  /\ held' = [v \in Victim |-> IF v \in Dead THEN NoSlot ELSE trie[v]]
  /\ taken' = AdoptedTaken
  /\ known' = TRUE
  /\ UNCHANGED <<gen, statics, rate, ceiling, interned, opts, next, stage, doing, want>>

---------------------------------------------------------------------------
(* Install and Withdraw.                                                   *)

Lost(v) == [want EXCEPT ![v] = Unwanted]

\* No slot, or no profile: refused before anything is written, but the old
\* ceiling's reference is already released.
InstallRefused(v, r) ==
  LET t == Released(Memory, v)
  IN /\ Ready /\ known
     /\ \/ SlotFor(Memory, v) = NoSlot /\ UNCHANGED <<memory, rate>>
        \/ /\ SlotFor(Memory, v) # NoSlot /\ r # NoRate /\ ProfileFor(t, r) = NoProfile
           /\ Remember(t) /\ UNCHANGED known
     /\ want' = Lost(v)
     /\ UNCHANGED <<gen, statics, block, trie, opts, next, stage, doing>>

\* The block, before the entry that will point at it.
InstallBlock(v, r) ==
  LET i == SlotFor(Memory, v)
      m == Interned(Released(Memory, v), v, r)
  IN /\ Ready /\ known
     /\ i # NoSlot /\ r # NoRate => ProfileFor(Released(Memory, v), r) # NoProfile
     /\ i # NoSlot
     /\ Remember([m EXCEPT !.held[v] = i, !.taken = @ \cup {i}])
     /\ block' = [block EXCEPT ![gen][i] =
                    [victim |-> v, profile |-> m.ceiling[v], live |-> TRUE]]
     /\ doing' = [op |-> "install", victim |-> v, slot |-> i, fresh |-> held[v] = NoSlot, rate |-> r]
     /\ UNCHANGED <<gen, statics, trie, known, opts, next, stage, want>>

InstallVictim ==
  /\ doing.op = "install"
  /\ trie' = [trie EXCEPT ![doing.victim] = doing.slot]
  /\ want' = [want EXCEPT ![doing.victim] = [on |-> TRUE, rate |-> doing.rate, own |-> TRUE]]
  /\ doing' = Quiet
  /\ UNCHANGED <<gen, statics, block, rate, memory, opts, next, stage>>

\* The rollback takes an earlier rule set of the victim with it.
InstallRolledBack ==
  LET v == doing.victim
      m == Unbound(Released(Memory, v), v, doing.fresh)
  IN /\ doing.op = "install" /\ "victim" \in MayFail
     /\ trie' = [trie EXCEPT ![v] = NoSlot]
     /\ block' = [block EXCEPT ![gen][doing.slot] = Empty]
     /\ Remember(m) /\ UNCHANGED known
     /\ want' = Lost(v) /\ doing' = Quiet
     /\ UNCHANGED <<gen, statics, opts, next, stage>>

\* The entry goes first; when that fails its slot is leaked, not reused.
WithdrawVictim(v) ==
  /\ Ready /\ known /\ held[v] # NoSlot
  /\ want' = Lost(v)
  /\ \/ /\ trie' = [trie EXCEPT ![v] = NoSlot]
        /\ doing' = [op |-> "withdraw", victim |-> v, slot |-> held[v], fresh |-> TRUE, rate |-> NoRate]
     \/ /\ "victim" \in MayFail /\ UNCHANGED trie
        /\ doing' = [op |-> "withdraw", victim |-> v, slot |-> held[v], fresh |-> FALSE, rate |-> NoRate]
  /\ UNCHANGED <<gen, statics, block, rate, memory, opts, next, stage>>

\* Wrong variant: the slot is freed although an entry still points at it.
FreedAnyway(m, v, unpointed) == [m EXCEPT !.held[v] = NoSlot, !.taken = @ \ {m.held[v]}]

Freed(m, v, unpointed) ==
  [m EXCEPT !.held[v] = NoSlot, !.taken = IF unpointed THEN @ \ {m.held[v]} ELSE @]

WithdrawBlock ==
  LET v == doing.victim
  IN /\ doing.op = "withdraw"
     /\ block' = [block EXCEPT ![gen][doing.slot] = Empty]
     /\ Remember(Freed(Released(Memory, v), v, doing.fresh)) /\ UNCHANGED known
     /\ doing' = Quiet
     /\ UNCHANGED <<gen, statics, trie, opts, next, stage, want>>

---------------------------------------------------------------------------
(* The static policy.                                                      *)

Reload(p) ==
  /\ Ready /\ p # opts
  /\ next' = p /\ stage' = "build"
  /\ UNCHANGED <<maps, memory, opts, doing, want>>

\* Wrong variant: the generation packets are using.
ActiveGeneration == gen

InactiveGeneration == 1 - gen

PutStatics ==
  /\ stage = "build"
  /\ statics' = [statics EXCEPT ![InactiveGeneration] = next]
  /\ stage' = "mirror"
  /\ UNCHANGED <<gen, block, trie, rate, memory, opts, next, doing, want>>

\* Wrong variant: the live rules are not carried over.
MirroredNot == block

Mirrored == [block EXCEPT ![InactiveGeneration] = block[gen]]

MirrorPolicyBlocks ==
  /\ stage = "mirror"
  /\ block' = Mirrored
  /\ stage' = "publish"
  /\ UNCHANGED <<gen, statics, trie, rate, memory, opts, next, doing, want>>

\* Nobody reads the blocks of an idle generation before a mirror has rewritten
\* them all, so the model forgets what they hold.
Idled(g) == [block EXCEPT ![g] = [i \in Slot |-> Empty]]

\* The options are committed only now.
Activate ==
  /\ stage = "publish"
  /\ gen' = 1 - gen /\ opts' = next /\ stage' = "idle" /\ next' = NoPolicy
  /\ block' = Idled(gen)
  /\ UNCHANGED <<statics, trie, rate, memory, doing, want>>

\* An error before Activate leaves the idle generation half built.
ReloadFailed ==
  /\ stage \in {"build", "mirror", "publish"}
  /\ opts # NoPolicy
  /\ stage' = "idle" /\ next' = NoPolicy
  /\ block' = Idled(1 - gen)
  /\ UNCHANGED <<gen, statics, trie, rate, memory, opts, doing, want>>

---------------------------------------------------------------------------
(* The process.                                                            *)

Forget ==
  /\ held' = [v \in Victim |-> NoSlot] /\ taken' = {}
  /\ ceiling' = [v \in Victim |-> NoProfile]
  /\ interned' = [p \in Profile |-> NoRate]
  /\ known' = FALSE /\ opts' = NoPolicy /\ next' = NoPolicy /\ doing' = Quiet

Fresh ==
  /\ gen' = 0 /\ statics' = [g \in Gens |-> NoPolicy]
  /\ block' = [g \in Gens |-> [i \in Slot |-> Empty]]
  /\ trie' = [v \in Victim |-> NoSlot] /\ rate' = [p \in Profile |-> NoRate]

\* A crash or Close(keep): the maps stay, also in the middle of any call.
Stop ==
  /\ stage # "down" /\ stage' = "down"
  /\ Forget
  /\ want' = [v \in Victim |-> [want[v] EXCEPT !.own = FALSE]]
  /\ block' = Idled(1 - gen)
  /\ UNCHANGED <<gen, statics, trie, rate>>

\* Close(detach), and an open that rejects the pins, start from nothing.
Detach ==
  /\ Ready /\ stage' = "down"
  /\ Forget /\ Fresh
  /\ want' = [v \in Victim |-> Unwanted]

\* The pins are adopted, or rejected and rebuilt; either way the static policy
\* of this process is built and published before anything else runs.
Open(p, adopt) ==
  /\ stage = "down" /\ stage' = "build"
  /\ next' = p
  /\ IF adopt THEN UNCHANGED <<maps, want>>
     ELSE Fresh /\ want' = [v \in Victim |-> Unwanted]
  /\ UNCHANGED <<memory, opts, doing>>

\* A deadline passes: the rules are dead where they are, in either generation.
\* (Rules last longer than the call that writes them.)
Expire(v) ==
  /\ doing.victim # v
  /\ \E g \in Gens, i \in Slot : block[g][i].victim = v /\ block[g][i].live
  /\ block' = [g \in Gens |-> [i \in Slot |->
                 [block[g][i] EXCEPT !.live = @ /\ block[g][i].victim # v]]]
  /\ want' = Lost(v)
  /\ UNCHANGED <<gen, statics, trie, rate, memory, opts, next, stage, doing>>

Init ==
  /\ gen = 0 /\ statics = [g \in Gens |-> NoPolicy]
  /\ block = [g \in Gens |-> [i \in Slot |-> Empty]]
  /\ trie = [v \in Victim |-> NoSlot] /\ rate = [p \in Profile |-> NoRate]
  /\ held = [v \in Victim |-> NoSlot] /\ taken = {}
  /\ ceiling = [v \in Victim |-> NoProfile]
  /\ interned = [p \in Profile |-> NoRate]
  /\ known = FALSE /\ opts = NoPolicy /\ next = NoPolicy
  /\ stage = "down" /\ doing = Quiet
  /\ want = [v \in Victim |-> Unwanted]

Next ==
  \/ AdoptLocked
  \/ \E v \in Victim, r \in Rate \cup {NoRate} : InstallRefused(v, r) \/ InstallBlock(v, r)
  \/ InstallVictim
  \/ InstallRolledBack
  \/ \E v \in Victim : WithdrawVictim(v)
  \/ WithdrawBlock
  \/ \E p \in Policy : Reload(p)
  \/ PutStatics
  \/ MirrorPolicyBlocks
  \/ Activate
  \/ ReloadFailed
  \/ Stop
  \/ Detach
  \/ \E p \in Policy, adopt \in BOOLEAN : Open(p, adopt)
  \/ \E v \in Victim : Expire(v)

Spec == Init /\ [][Next]_vars

---------------------------------------------------------------------------
(* Properties.                                                             *)

TypeOK ==
  /\ gen \in Gens /\ statics \in [Gens -> Policy \cup {NoPolicy}]
  /\ trie \in [Victim -> Slot \cup {NoSlot}]
  /\ rate \in [Profile -> Rate \cup {NoRate}]
  /\ held \in [Victim -> Slot \cup {NoSlot}] /\ taken \subseteq Slot
  /\ ceiling \in [Victim -> Profile \cup {NoProfile}]
  /\ opts \in Policy \cup {NoPolicy} /\ next \in Policy \cup {NoPolicy}
  /\ stage \in {"down", "idle", "build", "mirror", "publish"}

\* No reload, no crash in the middle of one and no restart un-mitigates a
\* victim: the live generation always holds the block its entry points at, with
\* its rules in it (mirrorPolicyBlocks; WithMaps; adoptLocked).
DynamicRulesLive ==
  \A v \in Victim : want[v].on =>
     /\ trie[v] # NoSlot
     /\ Live[trie[v]].victim = v /\ Live[trie[v]].live

\* No packet of one victim meets another victim's rules: whatever was withdrawn,
\* leaked, rolled back or adopted, an entry points at its own block or at an
\* empty one (Withdraw, allocPolicyLocked).
NoForeignBlock ==
  \A v \in InTrie : Live[trie[v]].victim \in {v, NoVictim}

\* A rule set this process installed is capped by its own ceiling, however many
\* victims share the profile and however often they change rates
\* (internProfileLocked, releaseProfileLocked).
OwnCeiling ==
  \A v \in Victim : (want[v].on /\ want[v].own /\ doing.victim # v) =>
     LET p == Live[trie[v]].profile
     IN IF p = NoProfile THEN want[v].rate = NoRate ELSE rate[p] = want[v].rate

\* The manager describes what the kernel enforces: its options are the live
\* static policy, whichever reloads failed half way (Reload: "a failed reload
\* must leave the manager describing what is actually in the kernel").
OptionsAreLive == opts # NoPolicy => statics[gen] = opts
\* What makes them inductive: no two entries share a block, nor does an entry with
\* another victim's slot, and what is pointed at or bound is taken; an installer that has
\* not adopted knows nothing; a call in progress has what it was given; a profile in use
\* holds its rate, and a rule set of this process names its victim's profile; and a
\* reload has built what it is to publish.
Typed ==
  /\ TypeOK
  /\ block \in [Gens -> [Slot -> [victim : Victim \cup {NoVictim}, profile : Profile \cup {NoProfile},
                                  live : BOOLEAN]]]
  /\ interned \in [Profile -> Rate \cup {NoRate}] /\ known \in BOOLEAN
  /\ doing \in [op : {"none", "install", "withdraw"}, victim : Victim \cup {NoVictim},
                slot : Slot \cup {NoSlot}, fresh : BOOLEAN, rate : Rate \cup {NoRate}]
  /\ want \in [Victim -> [on : BOOLEAN, rate : Rate \cup {NoRate}, own : BOOLEAN]]

SlotsApart ==
  /\ \A v, w \in Victim : v # w =>
       /\ trie[v] # NoSlot => trie[v] # trie[w] /\ trie[v] # held[w]
       /\ held[v] # NoSlot => held[v] # held[w]
  /\ known => \A v \in Victim : trie[v] \in taken \cup {NoSlot} /\ held[v] \in taken \cup {NoSlot}

KnowsNothing ==
  /\ ~known => \A v \in Victim : held[v] = NoSlot /\ ceiling[v] = NoProfile /\ ~want[v].own
  /\ stage = "down" => ~known /\ opts = NoPolicy

InProgress ==
  doing # Quiet =>
    LET v == doing.victim
    IN /\ stage = "idle" /\ known /\ v \in Victim /\ doing.slot # NoSlot /\ held[v] = doing.slot
       /\ doing.op = "install" =>
            /\ Live[doing.slot] = [victim |-> v, profile |-> ceiling[v], live |-> TRUE]
            /\ doing.rate = IF ceiling[v] = NoProfile THEN NoRate ELSE interned[ceiling[v]]
       /\ doing.op = "withdraw" => ~want[v].on /\ (doing.fresh => trie[v] = NoSlot)

ProfilesHeld ==
  \A v \in Victim :
    /\ ceiling[v] # NoProfile => interned[ceiling[v]] # NoRate /\ rate[ceiling[v]] = interned[ceiling[v]]
    /\ want[v].on /\ want[v].own /\ doing.victim # v =>
         /\ Live[trie[v]].profile = ceiling[v]
         /\ want[v].rate = IF ceiling[v] = NoProfile THEN NoRate ELSE interned[ceiling[v]]

Building ==
  /\ stage \in {"mirror", "publish"} => statics[1 - gen] = next
  /\ stage = "publish" => block[1 - gen] = block[gen]

IInv ==
  /\ Typed /\ SlotsApart /\ KnowsNothing /\ InProgress /\ ProfilesHeld /\ Building
  /\ DynamicRulesLive /\ NoForeignBlock /\ OptionsAreLive
=============================================================================
