------------------------------- MODULE MCEdge -------------------------------
(* One node's pipeline, two nodes polling, one holding keys, one zone's table
   and log, two flooders, an access log of two lines rotated twice. *)
EXTENDS Edge, TLC

CONSTANTS n1, n2, z1, s1, s2, f1, f2

\* A reload drops a node, or takes the zone away from it.
MCConfSet == {
  [nodes |-> {n1, n2}, placed |-> {n1, n2}],
  [nodes |-> {n1}, placed |-> {n1, n2}],
  [nodes |-> {n1, n2}, placed |-> {n1}]}

\* Verdicts for a source in a zone, and in every zone.
MCTarget == {<<z1, s1>>, <<Every, s1>>}

\* A window over its zone's rate or not; each flooder silent, within its ceiling, over
\* it, or over it having met the rung.
MCClosed ==
  LET Of(decided, over, served) == [decided |-> decided, over |-> over, served |-> served]
      Calm == Of(10, 2, FALSE)
      Flood == Of(10, 3, FALSE)
  IN {[load |-> l, of |-> (f1 :> a @@ f2 :> b)] : l \in {0, 1},
        a \in {Of(0, 0, FALSE), Calm, Flood, Of(10, 9, TRUE)}, b \in {Of(0, 0, FALSE), Flood, Of(10, 9, TRUE)}}

---------------------------------------------------------------------------
\* The node reads the brain's document at a poll and nowhere else: what is published
\* while it is down or busy is the same to it as what is published when it is about to
\* poll, and only that is explored.
PublishedAtPoll == latest' # latest => phase = "run" /\ poll = E!NoPoll
=============================================================================
