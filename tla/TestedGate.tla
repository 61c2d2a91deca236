----------------------------- MODULE TestedGate -----------------------------
(***************************************************************************)
(* What an edge node promises of its terminator (edge/apply, edge/node):    *)
(* the terminator only ever loads a configuration rendered from a document  *)
(* the brain has published and that the terminator's own test accepts; any  *)
(* other document leaves it on the one it serves.                           *)
(***************************************************************************)
CONSTANTS
  Doc,      \* the documents a brain may publish
  Valid,    \* those whose rendering passes the terminator's test
  NoDoc     \* nothing published, nothing loaded yet

GateAssumption == Valid \subseteq Doc /\ NoDoc \notin Doc

VARIABLES
  published,  \* every document published so far
  serving     \* the document of the configuration the terminator runs

Init == published = {} /\ serving = NoDoc

Publish(d) == published' = published \cup {d} /\ UNCHANGED serving

Load(d) ==
  /\ d \in published \cap Valid
  /\ serving' = d /\ UNCHANGED published

Next == \E d \in Doc : Publish(d) \/ Load(d)

Spec == Init /\ [][Next]_<<published, serving>>
=============================================================================
