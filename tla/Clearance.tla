----------------------------- MODULE Clearance ------------------------------
(***************************************************************************)
(* The clearance keys of the edge's proof-of-work rung: the brain draws one *)
(* master per UTC day and keeps it in a state file (api/edge_clearance.go), *)
(* every node gets the keys with the zone document, issues cookies under    *)
(* the newest (edge/clearance/page) and verifies them under any that is     *)
(* live (edge/clearance).  One zone: a master stands for its key.           *)
(***************************************************************************)
EXTENDS Integers, FiniteSets

CONSTANTS
  Path,       \* the state files a configuration may name
  Foreign,    \* those whose content is somebody else's
  Node,
  Secret,     \* what a draw may return: more naturals than are ever in use
  Epoch,      \* clearanceEpoch: a day
  MaxTtl      \* the longest cookie_ttl_seconds a zones file may ask for

Memory == "memory"
No == 0
Age == {0, 1}    \* today's master and yesterday's: two epochs live

ClearanceAssumption ==
  /\ Memory \notin Path /\ Foreign \subseteq Path
  /\ IsFiniteSet(Path) /\ IsFiniteSet(Node) /\ Secret \subseteq Nat \ {No}
  /\ IsFiniteSet(Secret) => Cardinality(Secret) > 2 * (Cardinality(Path) + Cardinality(Node)) + 3
  /\ Epoch \in Nat \ {0} /\ MaxTtl \in 1..Epoch

VARIABLES
  clock,    \* time since midnight
  setting,  \* edge.state_file of the live configuration, or Memory
  ring,     \* the brain's masters
  ringFile, \* where they are kept: path, and whether memory is ahead of it
  saved,    \* saved[p]: the masters in file p
  keys,     \* keys[n]: the keys of the document n holds
  cookie    \* a visitor's clearance: the age and secret of its key, its time left

vars == <<clock, setting, ring, ringFile, saved, keys, cookie>>

Empty == [a \in Age |-> No]
NoCookie == [age |-> 0, secret |-> No, left |-> 0]
Unread == [path |-> Memory, loaded |-> FALSE, unusable |-> FALSE, dirty |-> FALSE]

---------------------------------------------------------------------------
(* The keyring: one snapshot of the document.                              *)

\* Wrong variant: the file's master replaces the one the nodes hold.
MergedFileWins(r, f) == [a \in Age |-> IF f[a] # No THEN f[a] ELSE r[a]]

\* Memory wins: its masters are the ones nodes hold.
Merged(r, f) == [a \in Age |-> IF r[a] # No THEN r[a] ELSE f[a]]

\* Wrong variant: only a conflict makes the file stale, not what it lacks.
AheadOnConflict(r, f) == \E a \in Age : r[a] # No /\ f[a] # No /\ f[a] # r[a]

Ahead(r, f) == \E a \in Age : r[a] # No /\ f[a] # r[a]

\* setPath: a file is read once per path, and never overwritten if it is not ours.
Adopted ==
  LET fresh == [Unread EXCEPT !.path = setting, !.loaded = TRUE]
  IN IF ringFile.loaded /\ ringFile.path = setting THEN [ring |-> ring, file |-> ringFile]
     ELSE IF setting = Memory THEN [ring |-> ring, file |-> fresh]
     ELSE IF setting \in Foreign THEN [ring |-> ring, file |-> [fresh EXCEPT !.unusable = TRUE]]
     ELSE [ring |-> Merged(ring, saved[setting]),
           file |-> [fresh EXCEPT !.dirty = Ahead(ring, saved[setting])]]

InUse ==
  {ring[a] : a \in Age} \cup {saved[p][a] : p \in Path, a \in Age}
    \cup {keys[n][a] : n \in Node, a \in Age} \cup {cookie.secret}

Drawn == CHOOSE s \in Secret \ InUse : TRUE

\* ensureLocked: today's master exists.
Ensured(k) ==
  IF k.ring[0] # No THEN k
  ELSE [ring |-> [k.ring EXCEPT ![0] = Drawn], file |-> [k.file EXCEPT !.dirty = TRUE]]

Writable(k) == k.file.dirty /\ k.file.path # Memory /\ ~k.file.unusable

\* A node's poll: the snapshot brings the ring and its file up to date, then the
\* keys go out.  A save that fails is tried again by the next snapshot.
Poll(n) ==
  LET k == Ensured(Adopted)
  IN /\ ring' = k.ring
     /\ keys' = [keys EXCEPT ![n] = k.ring]
     /\ \/ /\ Writable(k)
           /\ saved' = [saved EXCEPT ![k.file.path] = k.ring]
           /\ ringFile' = [k.file EXCEPT !.dirty = FALSE]
        \/ ringFile' = k.file /\ UNCHANGED saved
     /\ UNCHANGED <<clock, setting, cookie>>

---------------------------------------------------------------------------
(* Cookies.                                                                *)

\* Wrong variant: the oldest key that is still live.
IssuingKeyOldest(r) == IF r[1] # No THEN 1 ELSE 0

\* The newest live key of the document.
IssuingKey(r) == IF r[0] # No THEN 0 ELSE 1

Verifies(r, c) == r[c.age] = c.secret

\* The document the brain serves now, whoever asks next.
Current == Ensured(Adopted).ring

\* A visitor solves a puzzle at a node whose document is the brain's.  (Without
\* any fleet key the node issues under its own, for itself only.)
Issue(n, ttl) ==
  /\ keys[n] = Current
  /\ cookie' = [age |-> IssuingKey(keys[n]), secret |-> keys[n][IssuingKey(keys[n])], left |-> ttl]
  /\ UNCHANGED <<clock, setting, ring, ringFile, saved, keys>>

---------------------------------------------------------------------------
(* Reload, restart, time.                                                  *)

\* Only a snapshot looks at a path.  A brain pointed away from its file before its
\* first snapshot has not read it: that is a fleet re-keyed, as below.
Reload ==
  /\ setting' \in (Path \cup {Memory}) \ {setting}
  /\ cookie' = IF ringFile.loaded THEN cookie ELSE NoCookie
  /\ UNCHANGED <<clock, ring, ringFile, saved, keys>>

\* The brain knows the file has all its masters.
Kept ==
  ringFile.loaded /\ ringFile.path = setting /\ setting # Memory
    /\ ~ringFile.unusable /\ ~ringFile.dirty

\* A restart that the brain had said would re-key the fleet makes every visitor
\* solve a puzzle again: that cookie is not followed further.
Restart ==
  /\ ring' = Empty /\ ringFile' = Unread
  /\ cookie' = IF Kept THEN cookie ELSE NoCookie
  /\ UNCHANGED <<clock, setting, saved, keys>>

\* A master is honoured for two epochs.
Older(r) == [a \in Age |-> IF a = 0 THEN No ELSE r[0]]

Tick ==
  /\ clock' = (clock + 1) % Epoch
  /\ IF clock' = 0
     THEN /\ ring' = Older(ring)
          /\ saved' = [p \in Path |-> Older(saved[p])]
          /\ keys' = [n \in Node |-> Older(keys[n])]
     ELSE UNCHANGED <<ring, saved, keys>>
  /\ cookie' = IF cookie.left <= 1 THEN NoCookie
               ELSE [cookie EXCEPT !.left = @ - 1, !.age = IF clock' = 0 THEN @ + 1 ELSE @]
  /\ UNCHANGED <<setting, ringFile>>

Init ==
  /\ clock = 0 /\ setting \in Path \cup {Memory}
  /\ ring = Empty /\ ringFile = Unread
  /\ saved = [p \in Path |-> Empty] /\ keys = [n \in Node |-> Empty]
  /\ cookie = NoCookie

Next ==
  \/ \E n \in Node : Poll(n)
  \/ \E n \in Node, ttl \in 1..MaxTtl : Issue(n, ttl)
  \/ Reload
  \/ Restart
  \/ Tick

Spec == Init /\ [][Next]_vars

---------------------------------------------------------------------------
(* Properties.                                                             *)

TypeOK ==
  /\ clock \in 0..(Epoch - 1) /\ setting \in Path \cup {Memory}
  /\ ring \in [Age -> Secret \cup {No}]
  /\ saved \in [Path -> [Age -> Secret \cup {No}]]
  /\ keys \in [Node -> [Age -> Secret \cup {No}]]
  /\ cookie \in [age : Age, secret : Secret \cup {No}, left : 0..MaxTtl]

\* A cleared visitor stays cleared for the whole life of the cookie, at every
\* node that holds the brain's document: across midnights, files adopted, left
\* and found again by reloads, saves that failed, and restarts of a brain that
\* had its masters on disk (clearanceKeyring: "the ETag moves exactly when an
\* epoch begins or ends, never because a key was re-drawn").
ClearanceHonoured ==
  cookie # NoCookie => cookie.age \in Age /\ Verifies(Current, cookie)

\* What makes it inductive.  A brain that has read no file has no masters; its file has
\* those it does not know itself to be ahead in; and when it lacks today's, so do all files.
Typed ==
  TypeOK /\ ringFile \in [path : Path \cup {Memory}, loaded : BOOLEAN, unusable : BOOLEAN, dirty : BOOLEAN]

RingKept ==
  /\ ~ringFile.loaded => ring = Empty
  /\ ringFile.loaded /\ ringFile.path \in Foreign => ringFile.unusable
  /\ ringFile.loaded /\ ringFile.path \in Path \ Foreign /\ ~ringFile.dirty
       => \A a \in Age : ring[a] # No => saved[ringFile.path][a] = ring[a]
  /\ ringFile.loaded /\ ring[0] = No => \A p \in Path : saved[p][0] = No

\* The cookie's master is in memory, or in the file the brain will read; and it expires
\* before the epoch of that master does.
CookieHeld ==
  cookie # NoCookie =>
    /\ cookie.secret # No /\ cookie.left > 0
    /\ cookie.age = 1 => clock + cookie.left <= MaxTtl
    /\ ringFile.loaded => ring[cookie.age] = cookie.secret
    /\ ~ringFile.loaded => /\ setting \in Path \ Foreign
                           /\ saved[setting][cookie.age] = cookie.secret

IInv == Typed /\ RingKept /\ CookieHeld
=============================================================================
