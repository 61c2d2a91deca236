------------------------------ MODULE MCBrain -------------------------------
(* What the brain keeps beside its pipeline, on small instances. *)
EXTENDS Brain

CONSTANTS h1, s1, s2, v1, v2, d1, g1, a1, a2, a6, own1, site1, cl1, cl2, 
          sec1, sec2, box1, box2

MCMembers == [p \in {} |-> {}]
MCSpan == [t \in {h1} |-> 1]

\* Kernel rules, for which a blackhole route may stand in where they could not be installed.
Enforcing == [
  dryRun |-> FALSE, whitelist |-> {}, networks |-> {h1}, ttl |-> 1,
  fallback |-> TRUE, banEnabled |-> TRUE,
  ladder |-> << [after |-> 0, action |-> "dataplane"] >>,
  carpet |-> "alert", maxActive |-> 1, maxPrefix |-> 1, maxAddresses |-> 0,
  maxPerWindow |-> 0, window |-> 1 ]

\* What a restart may find instead: dry-run, or the host whitelisted.
MCConfig == {Enforcing, [Enforcing EXCEPT !.dryRun = TRUE], [Enforcing EXCEPT !.whitelist = {h1}]}

\* Two pairs of one source, and another source's.
MCPair == {<<s1, v1>>, <<s1, v2>>, <<s2, v1>>}

Blocking == [dryRun |-> FALSE, refused |-> {}]
MCPolicies == {Blocking, [dryRun |-> TRUE, refused |-> {<<s1, v1>>, <<s2, v1>>}]}

\* The host judged by itself, where one packet a second is learned and three are an attack by what
\* was learned; summed, under a lower limit; or its network withdrawn.
Each == [ inside |-> {d1}, spared |-> {}, group |-> [h \in {d1} |-> g1], total |-> {},
          limit |-> 3, learn |-> TRUE ]
MCSetting == {Each, [Each EXCEPT !.total = {g1}, !.limit = 1], [Each EXCEPT !.inside = {}]}

---------------------------------------------------------------------------
(* What the two files may say. *)

Step(t, a) == [after |-> t, action |-> a]
Climb == <<Step(0, "dataplane"), Step(1, "divert"), Step(2, "blackhole")>>
Web == [name |-> "web", total |-> FALSE, networks |-> {{a2}}, method |-> "", flow |-> None,
        escalation |-> None, hop |-> FALSE, hop6 |-> FALSE, tenant |-> "t1", ban |-> ""]
Plane == [enabled |-> TRUE, ifaces |-> {"e0"}, rules |-> 16, fingerprint |-> FALSE, sample |-> 1,
          profiles |-> {}, statics |-> <<>>]
Node(n, six, gs) == [name |-> n, hop6 |-> six, groups |-> gs]
Sane == [
  sound |-> TRUE, fixed |-> 1, tenant |-> "", networks |-> {{a1, a2}, {a6}},
  method |-> "", flow |-> None, escalation |-> Climb, groups |-> <<Web>>,
  scrub |-> [hop |-> FALSE, hop6 |-> FALSE, nodes |-> <<Node("s1", TRUE, {})>>, lost |-> ""],
  dataplane |-> Plane, carpet |-> None,
  ban |-> [ttl |-> 1, maxActive |-> 1, fallback |-> "", perWindow |-> 0, window |-> 0, stateFile |-> "bans"],
  edge |-> [nodes |-> <<[name |-> "e1", groups |-> {"web"}], [name |-> "e2", groups |-> {}]>>,
            stateFile |-> "keys", zonesFile |-> "zones"],
  tokens |-> << [name |-> "k1", role |-> "agent", tenant |-> "", node |-> "e1"],
                [name |-> "k2", role |-> "viewer", tenant |-> "t2", node |-> None] >> ]

MCFiles == {
  Sane,
  \* the node serves one group only; then with a next-hop for the others, in one family or both
  [Sane EXCEPT !.scrub.nodes = <<Node("s1", TRUE, {"web"})>>],
  [Sane EXCEPT !.scrub = [@ EXCEPT !.nodes = <<Node("s1", TRUE, {"web"})>>, !.hop = TRUE]],
  [Sane EXCEPT !.scrub = [@ EXCEPT !.nodes = <<Node("s1", FALSE, {"web"})>>, !.hop = TRUE, !.hop6 = TRUE]],
  \* a ladder of one rung, with and without an action for the rules a lost node needs
  [Sane EXCEPT !.escalation = <<>>, !.method = "divert", !.scrub.lost = "flowspec",
               !.flow = [action |-> "rate_limit", rate |-> 1]],
  [Sane EXCEPT !.escalation = <<>>, !.method = "divert", !.flow = [action |-> "rate_limit", rate |-> 0]],
  \* a total group inherits what it cannot do
  [Sane EXCEPT !.groups = <<[Web EXCEPT !.total = TRUE]>>,
               !.escalation = <<Step(0, "flowspec"), Step(1, "divert")>>],
  [Sane EXCEPT !.groups = <<[Web EXCEPT !.total = TRUE, !.method = "divert"]>>, !.escalation = <<>>],
  \* it backs off
  [Sane EXCEPT !.groups[1].escalation = <<Step(0, "blackhole"), Step(1, "flowspec")>>],
  \* a restart's business: the plane switched off, another device; and a change of nothing in use
  [Sane EXCEPT !.dataplane.enabled = FALSE, !.escalation = <<Step(0, "blackhole")>>],
  [Sane EXCEPT !.fixed = 2],
  [Sane EXCEPT !.dataplane.sample = 2],
  \* the caps and the map
  [Sane EXCEPT !.ban.maxActive = 3],
  [Sane EXCEPT !.ban.maxActive = 2, !.carpet = [method |-> "dataplane", cap |-> 1]],
  \* tokens, tenants and scopes
  [Sane EXCEPT !.tokens[1].node = None],
  [Sane EXCEPT !.tokens[1].node = None, !.edge.nodes[1].groups = {}],
  [Sane EXCEPT !.groups = <<>>, !.edge.nodes[1].groups = {}],
  \* a bare one: blackhole, and nothing else configured
  [Sane EXCEPT !.edge = None, !.tokens = <<>>, !.groups = <<>>, !.scrub.nodes = <<>>,
               !.escalation = <<>>, !.method = "blackhole"],
  [Sane EXCEPT !.sound = FALSE] }

MCZoneFiles == {
  [sound |-> TRUE, zones |-> {[hostgroup |-> "web", tenant |-> "t1"], [hostgroup |-> "", tenant |-> "t2"]}],
  [sound |-> TRUE, zones |-> {[hostgroup |-> "", tenant |-> "t2"]}],
  [sound |-> TRUE, zones |-> {[hostgroup |-> "web", tenant |-> "t2"]}],
  [sound |-> FALSE, zones |-> {}] }
---------------------------------------------------------------------------
(* Who may ask. *)

Token(name, secret, role, tenant, node) ==
  [name |-> name, secret |-> secret, role |-> role, tenant |-> tenant, node |-> node]
Shop == [ tokens |-> << Token("op", sec1, "operator", "t1", None), Token("agent", sec2, "agent", "", box1) >>,
          nodes |-> {box1}, owner |-> [t \in {own1, site1} |-> "t1"] ]
MCApiConf == {
  Shop,
  \* unbound and unscoped; the host is another tenant's, the zone gone from the file
  [Shop EXCEPT !.tokens = << Token("op", sec1, "operator", "", None), Token("agent", sec2, "agent", "", None) >>,
               !.owner = [h \in {own1, site1} |-> IF h = own1 THEN "t2" ELSE None]],
  \* the lever's secret of two principals, the agent another node's, the zone gone
  [Shop EXCEPT !.tokens = << Token("op", sec1, "operator", "", None), Token("agent", sec2, "agent", "", box2),
                             Token("spare", sec1, "viewer", "", None) >>,
               !.nodes = {}, !.owner[site1] = None],
  [Shop EXCEPT !.tokens = <<>>] }
MCBears == [k \in {cl1, cl2} |-> IF k = cl1 THEN {sec1, sec2} ELSE {sec2}]

\* One edge node, two zones, and a reload that moves the second away.
MCPlacing == {
  [file |-> {1, 2}, serves |-> [n \in {box1} |-> {1, 2}]],
  [file |-> {1, 2}, serves |-> [n \in {box1} |-> {1}]] }
MCCloses == [z \in {1, 2} |-> 2 - z]
=============================================================================
