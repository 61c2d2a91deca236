------------------------------- MODULE Exporter -------------------------------
(***************************************************************************)
(* kapkan nginx-exporter (exporter/exporter.go, tail.go): it tails an access *)
(* log through rotations, and posts a block for every source that is hot in  *)
(* a window, again before the block lapses.                                 *)
(*                                                                         *)
(* The log is written in halves of lines, which is what a reader can race.   *)
(* The channel between the tailer and the loop is left out, and whether a    *)
(* source is hot is chosen: of the lines, only which ones arrive matters.    *)
(* A post takes no time: one that does delays the windows behind it.         *)
(***************************************************************************)
EXTENDS Integers, Sequences, SequencesExt, FiniteSets

CONSTANTS
  Lines,      \* written in all
  Rotations,  \* of the log, of either kind
  Window, Ttl, \* of the measurement, and of a block
  None

ExporterAssumption ==
  /\ Lines \in Nat /\ Rotations \in Nat /\ Window \in Nat \ {0}
  /\ Ttl \in Nat /\ Ttl >= 2 * Window   \* Validate
  /\ None \notin Nat

VARIABLES
  content,        \* of each inode: its half lines
  path, nginx,    \* the inode the log's name is, and the one nginx writes to
  written, rotations,
  fd, off, partial, \* the tailer
  fresh,          \* the file a rotation has been noticed by
  got, glued,     \* lines that came, and those made of the halves of two (ghost)
  left,           \* of each inode: its length when the tailer left it (ghost)
  truncated,      \* the log has been truncated in place (ghost)
  mine, brain,    \* the exporter's word of how long the block has to run, and the brain's
  retry, due,     \* ticks before another attempt, and before the window closes
  steady          \* hot in every window, with every post taken, since the first (ghost)

ghosts == <<got, glued, left, truncated>>
tailVars == <<content, path, nginx, written, rotations, fd, off, partial, fresh, ghosts>>
postVars == <<mine, brain, retry, due, steady>>
vars == <<tailVars, postVars>>

Inode == 1..(Rotations + 1)
Half == [line : 1..Lines, part : {1, 2}]

---------------------------------------------------------------------------
(* nginx and logrotate.                                                    *)

Unfinished == written # 0 /\ \E i \in Inode : content[i] # <<>> /\ Last(content[i]).part = 1

\* A line in two writes, or the second half of one.
Write ==
  /\ IF Unfinished THEN UNCHANGED written ELSE written < Lines /\ written' = written + 1
  /\ LET half == [line |-> written', part |-> IF Unfinished THEN 2 ELSE 1]
         to == IF Unfinished THEN CHOOSE i \in Inode : content[i] # <<>> /\ Last(content[i]).part = 1 ELSE nginx
     IN content' = [content EXCEPT ![to] = Append(@, half)]
  /\ UNCHANGED <<path, nginx, rotations, fd, off, partial, fresh, ghosts, postVars>>

\* The log is renamed and created anew; nginx goes on in the old one until it reopens.
Create ==
  /\ rotations < Rotations /\ rotations' = rotations + 1
  /\ path = nginx /\ path' = path + 1
  /\ UNCHANGED <<content, nginx, written, fd, off, partial, fresh, ghosts, postVars>>

Reopen ==
  /\ nginx # path /\ ~Unfinished /\ nginx' = path
  /\ UNCHANGED <<content, path, written, rotations, fd, off, partial, fresh, ghosts, postVars>>

\* copytruncate.
Truncate ==
  /\ rotations < Rotations /\ rotations' = rotations + 1
  /\ path = nginx
  /\ content' = [content EXCEPT ![path] = <<>>]
  /\ truncated' = TRUE
  /\ UNCHANGED <<path, nginx, written, fd, off, partial, fresh, got, glued, left, postVars>>

---------------------------------------------------------------------------
(* The tailer.                                                             *)

\* drain: complete lines, and what is left of one; a half glued to another's is no line.
\* What comes without its first half is one only if that was kept.
Rest == SubSeq(content[fd], off + 1, Len(content[fd]))
Arrived == {k \in DOMAIN Rest : Rest[k].part = 2}
FirstHalf(k) == IF k > 1 THEN {Rest[k - 1].line} ELSE partial

Drained ==
  /\ got' = got \cup {Rest[k].line : k \in {j \in Arrived : FirstHalf(j) = {Rest[j].line}}}
  /\ glued' = glued \cup {Rest[k].line : k \in {j \in Arrived : FirstHalf(j) \notin {{}, {Rest[j].line}}}}

\* What the drain leaves of a line.
Fragment == IF Rest = <<>> THEN partial ELSE IF Last(Rest).part = 1 THEN {Last(Rest).line} ELSE {}

Drain ==
  /\ fresh = None /\ Rest # <<>>
  /\ Drained /\ partial' = Fragment /\ off' = off + Len(Rest)
  /\ UNCHANGED <<content, path, nginx, written, rotations, fd, fresh, left, truncated, postVars>>

\* detectRotation: another file, or one that is shorter than what was read of it.
Detect ==
  /\ fresh = None
  /\ path # fd \/ Len(content[fd]) < off
  /\ fresh' = path
  /\ UNCHANGED <<content, path, nginx, written, rotations, fd, off, partial, ghosts, postVars>>

\* Wrong variant: the old file is left as it was last read.
ReadBefore == UNCHANGED <<got, glued>>

\* The last drain of the old file.
FinalDrain == Drained

\* swapTo: the new file from its start; a fragment of the old one is dropped.
Swap ==
  /\ fresh # None /\ fresh' = None
  /\ FinalDrain /\ left' = [left EXCEPT ![fd] = Len(content[fd])]
  /\ fd' = fresh /\ off' = 0 /\ partial' = {}
  /\ UNCHANGED <<content, path, nginx, written, rotations, truncated, postVars>>

---------------------------------------------------------------------------
(* The loop, for one pair.                                                 *)

\* A pair is posted unless more than half of its block is ahead, or a failure is near.
MayPost == ~(2 * mine > Ttl) /\ retry = 0

\* The window closes: hot or not, and the brain takes the post or does not.
CloseWindow(hot, taken) ==
  /\ due = 0 /\ due' = Window
  /\ IF hot /\ MayPost
     THEN /\ mine' = IF taken THEN Ttl ELSE mine
          /\ brain' = IF taken THEN Ttl ELSE brain
          /\ retry' = IF taken THEN 0 ELSE 2 * Window
     ELSE UNCHANGED <<mine, brain, retry>>
  /\ steady' = (hot /\ taken /\ (steady \/ MayPost))
  /\ UNCHANGED tailVars

Less(n) == IF n = 0 THEN 0 ELSE n - 1

Tick ==
  /\ due > 0 /\ due' = due - 1
  /\ mine' = Less(mine) /\ brain' = Less(brain) /\ retry' = Less(retry)
  /\ UNCHANGED <<steady, tailVars>>

\* It starts at the end of a log that is there.
Init ==
  /\ content = [i \in Inode |-> <<>>] /\ path = 1 /\ nginx = 1 /\ written = 0 /\ rotations = 0
  /\ fd = 1 /\ off = 0 /\ partial = {} /\ fresh = None
  /\ got = {} /\ glued = {} /\ left = [i \in Inode |-> 0] /\ truncated = FALSE
  /\ mine = 0 /\ brain = 0 /\ retry = 0 /\ due = Window /\ steady = FALSE

Next ==
  \/ Write \/ Create \/ Reopen \/ Truncate
  \/ Drain \/ Detect \/ Swap
  \/ \E hot, taken \in BOOLEAN : CloseWindow(hot, taken)
  \/ Tick

Spec == Init /\ [][Next]_vars

---------------------------------------------------------------------------
(* Properties.                                                             *)

TypeOK ==
  /\ content \in [Inode -> Seq(Half)] /\ written \in 0..Lines
  /\ fd \in Inode /\ path \in 1..(rotations + 1) /\ rotations \in 0..Rotations /\ nginx \in Inode
  /\ fresh \in Inode \cup {None} /\ off \in Nat /\ left \in [Inode -> Nat] /\ got \subseteq 1..Lines
  /\ mine \in 0..Ttl /\ brain \in 0..Ttl /\ retry \in 0..(2 * Window) /\ due \in 0..Window

\* No request is made up of two: a fragment is completed by its own rest or dropped
\* with its file, unless the log was truncated in place (drain, swapTo).
NothingGlued == ~truncated => glued = {}

\* Whatever reached a file before the tailer left it came, however it was rotated and
\* wherever a read fell within a line (detectRotation, pump's last drain).
Whole(i, n) == {content[i][k].line : k \in {j \in 1..n : content[i][j].part = 2}}
NothingMissed ==
  ~truncated => \A i \in Inode : Whole(i, IF i = fd THEN off ELSE left[i]) \subseteq got

\* A source hot in every window, whose posts the brain takes, is blocked there without
\* a gap, though it is not posted in every window (the refresh, Validate's bound).
BlockHolds == steady => brain > 0

LogFollowed == TypeOK /\ NothingGlued /\ NothingMissed /\ BlockHolds

---------------------------------------------------------------------------
(* What makes them inductive.                                              *)

\* A second half follows its first, and only the last line written may lack it.
Paired ==
  \A i \in Inode : \A k \in DOMAIN content[i] :
    IF content[i][k].part = 2
    THEN k > 1 /\ content[i][k - 1] = [line |-> content[i][k].line, part |-> 1]
    ELSE k = Len(content[i]) => content[i][k].line = written

\* The tailer is within its file, with the half it has read last, and within those it left.
Reading ==
  ~truncated =>
    /\ off <= Len(content[fd]) /\ \A i \in Inode : left[i] <= Len(content[i])
    /\ partial = IF off > 0 /\ content[fd][off].part = 1 THEN {content[fd][off].line} ELSE {}

\* A block that is kept up outlasts the window it is kept up in.
Refreshed == mine = brain /\ (steady => brain > due /\ retry = 0)

IInv == LogFollowed /\ Paired /\ Reading /\ Refreshed
=============================================================================
