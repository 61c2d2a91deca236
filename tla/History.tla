------------------------------- MODULE History -------------------------------
(***************************************************************************)
(* What the brain writes down of its edge nodes (api/edge_history.go,       *)
(* edge_zones_status.go, edge/node/node.go's report and report_zones.go):   *)
(* a node reports what it holds, cut to a size; the brain stores the report,*)
(* diffs it with the one before and appends windows and events; a ticker    *)
(* tells which nodes it lost.  None of it outlives the process, so the      *)
(* first report after a start only sets the baseline.                       *)
(*                                                                         *)
(* A node sends one report at a time and keeps no memory of it: one that is *)
(* lost was never sent.  A node-wide fact (version, generation, HTTP/3) is  *)
(* told as the challenge of a zone that is never cut.                       *)
(***************************************************************************)
EXTENDS Integers, FiniteSets, FiniteSetsExt

CONSTANTS
  Node, Zone,     \* zones are numbers: lists are in their order
  ConfSet,        \* [file |-> zones, serves |-> [Node -> zones]]
  Changes,        \* how often a node's facts change
  Windows,        \* of each zone: windows that close
  NoReport

\* A certificate, a report and one that waits to be diffed.
Cert == [held : BOOLEAN, count : Nat]
Reports == [certs : SUBSET Zone, certsCut : BOOLEAN, zones : SUBSET Zone, zonesCut : BOOLEAN,
            windows : SUBSET Zone, cert : [Zone -> Cert], chal : [Zone -> Nat], win : [Zone -> Nat]]
Unread == [base : Reports \cup {NoReport}, rep : Reports]

HistoryAssumption ==
  /\ Zone \subseteq Nat /\ Changes \in Nat /\ Windows \in [Zone -> Nat]
  /\ ConfSet \subseteq [file : SUBSET Zone, serves : [Node -> SUBSET Zone]]
  /\ NoReport \notin Reports \cup Unread

VARIABLES
  conf,                        \* the store's snapshot
  doc, cert, chal, win, changes, \* of each node: what it has and renders
  report, unread, lastAt,     \* of each node: what the brain keeps of it
  told, gap, alarms, written, twice \* ghosts: the log, and what it should be

nodeVars == <<doc, cert, chal, win, changes>>
reportVars == <<report, unread, lastAt>>
ghosts == <<told, gap, alarms, written, twice>>
vars == <<conf, nodeVars, reportVars, ghosts>>

On(count) == count % 2 = 1
Held(n) == {z \in Zone : cert[n][z].held}

Served(n, z) == z \in conf.file /\ z \in conf.serves[n]

---------------------------------------------------------------------------
(* The node.                                                               *)

Change(n) == changes < Changes /\ changes' = changes + 1

\* A certificate is issued, renewed or removed.
CertChanges(n, z, held) ==
  /\ Change(n) /\ (cert[n][z].held \/ held)
  /\ cert' = [cert EXCEPT ![n][z] = [held |-> held, count |-> @.count + 1]]
  /\ UNCHANGED <<conf, doc, chal, win, reportVars, ghosts>>

\* A zone-wide challenge starts, or ends.
ChallengeChanges(n, z) ==
  /\ Change(n)
  /\ chal' = [chal EXCEPT ![n][z] = @ + 1]
  /\ UNCHANGED <<conf, doc, cert, win, reportVars, ghosts>>

\* keepWindow: the aggregator closed a window.
KeepWindow(n, z) ==
  /\ win[n][z] < Windows[z]
  /\ win' = [win EXCEPT ![n][z] = @ + 1]
  /\ UNCHANGED <<conf, doc, cert, chal, changes, reportVars, ghosts>>

\* trimReport: certificates go from the tail, and zones only when none is left.
Cut(n, certs, zones) ==
  /\ certs \subseteq Held(n) /\ zones \subseteq doc[n]
  /\ \A z \in certs, y \in Held(n) : y < z => y \in certs
  /\ \A z \in zones, y \in doc[n] : y < z => y \in zones
  /\ zones # doc[n] => certs = {}

\* buildReport, trimmed: a window older than two has its zone reported quiet.
Report(n, certs, zones, quiet) ==
  [ certs |-> certs, certsCut |-> Held(n) \ certs # {},
    zones |-> zones, zonesCut |-> doc[n] \ zones # {},
    windows |-> {z \in zones : ~quiet /\ win[n][z] > 0},
    \* what it says of each (the counts are the model's)
    cert |-> cert[n], chal |-> chal[n], win |-> win[n] ]

---------------------------------------------------------------------------
(* The brain takes a report: put, and then observe under whatever            *)
(* configuration is live by then.                                          *)

\* handleEdgeNodeReport and put.  A report is no presence.
Put(n, certs, zones, quiet) ==
  /\ unread[n] = NoReport /\ Cut(n, certs, zones)
  /\ LET rep == Report(n, certs, zones, quiet)
     IN /\ report' = [report EXCEPT ![n] = rep]
        /\ unread' = [unread EXCEPT ![n] = [base |-> report[n], rep |-> rep]]
  /\ UNCHANGED <<conf, nodeVars, lastAt, ghosts>>

\* One row of each window.  The rule is equality with the last one written.
NewWindows(n, rep) == {z \in rep.windows : Served(n, z) /\ lastAt[n][z] # rep.win[z]}

\* Wrong variant: what a zone the list was cut before is new.
IssuedIfAbsent(n, base, rep) == {z \in rep.certs \ base.certs : Served(n, z)}

\* diffReports.  Absent from a list that was cut is unknown: not new, nor gone.
Issued(n, base, rep) == {z \in rep.certs \ base.certs : Served(n, z) /\ ~base.certsCut}

Renewed(n, base, rep) ==
  {z \in rep.certs \cap base.certs : Served(n, z) /\ rep.cert[z].count # base.cert[z].count}

GoneCerts(n, base, rep) == {z \in base.certs \ rep.certs : Served(n, z) /\ ~rep.certsCut}

\* A challenge has no such rule for the list before.
Active(r) == {z \in r.zones : On(r.chal[z])}
Started(n, base, rep) == {z \in Active(rep) \ Active(base) : Served(n, z)}
Ended(n, base, rep) ==
  {z \in Active(base) \ Active(rep) : Served(n, z) /\ (z \in rep.zones \/ ~rep.zonesCut)}

Events(n, base, rep) ==
  [ cert |-> Issued(n, base, rep) \cup Renewed(n, base, rep) \cup GoneCerts(n, base, rep),
    chal |-> Started(n, base, rep) \cup Ended(n, base, rep) ]

\* observe: rows, the skew's transitions, and the events; the first report is silent.
Observe(n) ==
  LET base == unread[n].base
      rep == unread[n].rep
      new == NewWindows(n, rep)
      ev == IF base = NoReport THEN [cert |-> {}, chal |-> {}] ELSE Events(n, base, rep)
      Known(S) == base = NoReport \/ S
  IN /\ unread[n] # NoReport
     /\ unread' = [unread EXCEPT ![n] = NoReport]
     /\ lastAt' = [lastAt EXCEPT ![n] = [z \in Zone |-> IF z \in new THEN rep.win[z] ELSE @[z]]]
     /\ told' = [told EXCEPT ![n] = [z \in Zone |->
          [ cert |-> IF Known(z \in ev.cert) THEN rep.cert[z] ELSE @[z].cert,
            chal |-> IF Known(z \in ev.chal) THEN rep.chal[z] ELSE @[z].chal ]]]
     /\ alarms' = alarms
          \cup {<<"cert", z>> : z \in {y \in ev.cert : rep.cert[y].count = told[n][y].cert.count}}
          \cup {<<"chal", z>> : z \in {y \in ev.chal : rep.chal[y] = told[n][y].chal}}
     /\ gap' = [gap EXCEPT ![n] = @ \/ rep.certsCut \/ rep.zonesCut
                                    \/ \E z \in Zone : ~Served(n, z) \/ z \notin rep.zones]
     /\ written' = [written EXCEPT ![n] = @ \cup {<<z, rep.win[z]>> : z \in new}]
     /\ twice' = (twice \/ \E z \in new : <<z, rep.win[z]>> \in written[n])
     /\ UNCHANGED <<conf, nodeVars, report>>

\* A poll ends with the document of now.
Fetch(n) ==
  /\ doc' = [doc EXCEPT ![n] = conf.serves[n] \cap conf.file]
  /\ UNCHANGED <<conf, cert, chal, win, changes, reportVars, ghosts>>

---------------------------------------------------------------------------
(* The zones' status: what the nodes that are alive say of them.            *)

\* mergeEdgeZonesServed: a zone that is not in the file has no placement.
Claims(alive, z) ==
  {n \in alive : report[n] # NoReport /\ (z \in conf.file => Served(n, z))}
Reporting(alive, z) == {n \in Claims(alive, z) : z \in report[n].zones}
Holders(alive, z) == {n \in Claims(alive, z) : z \in report[n].certs}
Placed(z) == {n \in Node : Served(n, z)}
Unserved(alive, z) == Placed(z) # {} /\ Placed(z) \cap alive = {}

---------------------------------------------------------------------------

Reload ==
  /\ \E c \in ConfSet : c # conf /\ conf' = c
  /\ UNCHANGED <<nodeVars, reportVars, ghosts>>

NothingTold == [z \in Zone |-> [cert |-> [held |-> FALSE, count |-> 0], chal |-> 0]]

\* The brain starts over, and knows no node.
Restart ==
  /\ report' = [n \in Node |-> NoReport] /\ unread' = [n \in Node |-> NoReport]
  /\ lastAt' = [n \in Node |-> [z \in Zone |-> 0]]
  /\ told' = [n \in Node |-> NothingTold] /\ gap' = [n \in Node |-> FALSE]
  /\ written' = [n \in Node |-> {}]
  /\ UNCHANGED <<conf, nodeVars, alarms, twice>>

Init ==
  /\ conf \in ConfSet
  /\ doc = [n \in Node |-> conf.serves[n] \cap conf.file]
  /\ cert = [n \in Node |-> [z \in Zone |-> [held |-> FALSE, count |-> 0]]]
  /\ chal = [n \in Node |-> [z \in Zone |-> 0]] /\ win = [n \in Node |-> [z \in Zone |-> 0]]
  /\ changes = 0
  /\ report = [n \in Node |-> NoReport] /\ unread = [n \in Node |-> NoReport]
  /\ lastAt = [n \in Node |-> [z \in Zone |-> 0]]
  /\ told = [n \in Node |-> NothingTold] /\ gap = [n \in Node |-> FALSE]
  /\ alarms = {} /\ written = [n \in Node |-> {}] /\ twice = FALSE

Next ==
  \/ Reload \/ Restart
  \/ \E n \in Node :
       \/ \E z \in Zone :
            \/ \E held \in BOOLEAN : CertChanges(n, z, held)
            \/ ChallengeChanges(n, z) \/ KeepWindow(n, z)
       \/ \E certs, zones \in SUBSET Zone, quiet \in BOOLEAN : Put(n, certs, zones, quiet)
       \/ Observe(n) \/ Fetch(n)

Spec == Init /\ [][Next]_vars

---------------------------------------------------------------------------
(* Properties.                                                             *)

TypeOK ==
  /\ conf \in ConfSet /\ changes \in 0..Changes
  /\ \A n \in Node :
       /\ doc[n] \subseteq Zone /\ \A z \in Zone : win[n][z] \in 0..Windows[z]

\* An event of a certificate tells a change nobody has told yet: not one that a cut
\* list, a moved zone or a start of the brain makes up (diffReports).
NoFalseAlarm == \A a \in alarms : a[1] = "chal"

\* The same of challenges, as diffReports' comment says: false, as the zone of a
\* challenge that a cut list left out is told to start again.
StartedOnce == alarms = {}

\* A window is written once in a run of the brain, however often it is reported.
WrittenOnce == ~twice

\* Without a cut list or a zone the node does not serve, the log's last word of a
\* certificate or a challenge is the stored report's.
LogIsCurrent ==
  \A n \in Node : unread[n] = NoReport /\ report[n] # NoReport /\ ~gap[n] =>
    \A z \in Zone :
      /\ told[n][z].cert.held = report[n].cert[z].held
      /\ told[n][z].cert.held => told[n][z].cert.count = report[n].cert[z].count
      /\ On(told[n][z].chal) = On(report[n].chal[z])

\* Of a zone that is placed and unserved, nobody claims anything, whoever is alive.
UnservedSilent ==
  \A alive \in SUBSET Node, z \in conf.file :
    Unserved(alive, z) => Reporting(alive, z) \cup Holders(alive, z) = {}

HistoryHonest == NoFalseAlarm /\ WrittenOnce /\ LogIsCurrent /\ UnservedSilent

\* What makes it inductive: a report is of a moment of the node that has not come back
\* since; the log has no certificate newer than the report last diffed, and no window
\* later than the one last written; and that report, without a gap, is whole and the log's.
Typed ==
  /\ TypeOK /\ doc \in [Node -> SUBSET Zone] /\ cert \in [Node -> [Zone -> Cert]]
  /\ chal \in [Node -> [Zone -> Nat]] /\ win \in [Node -> [Zone -> Nat]]
  /\ report \in [Node -> Reports \cup {NoReport}] /\ unread \in [Node -> Unread \cup {NoReport}]
  /\ lastAt \in [Node -> [Zone -> Nat]] /\ told \in [Node -> [Zone -> [cert : Cert, chal : Nat]]]
  /\ gap \in [Node -> BOOLEAN] /\ written \in [Node -> SUBSET (Zone \X Nat)]

Earlier(c, d) == c.count <= d.count /\ (c.count = d.count => c = d)

Exact(r) ==
  /\ \A z \in r.certs : r.cert[z].held
  /\ ~r.certsCut => \A z \in Zone : r.cert[z].held => z \in r.certs

Diffed(n) == IF unread[n] = NoReport THEN report[n] ELSE unread[n].base

Dated(n) ==
  /\ report[n] # NoReport =>
       Exact(report[n]) /\ \A z \in Zone : Earlier(report[n].cert[z], cert[n][z])
  /\ unread[n] # NoReport =>
       /\ unread[n].rep = report[n]
       /\ \A z \in Zone : lastAt[n][z] <= unread[n].rep.win[z] /\ unread[n].rep.win[z] <= win[n][z]
       /\ unread[n].base # NoReport =>
            Exact(unread[n].base) /\ \A z \in Zone : Earlier(unread[n].base.cert[z], report[n].cert[z])
  /\ \A z \in Zone : lastAt[n][z] <= win[n][z]

Logged(n) ==
  /\ \A c \in written[n] : c[2] <= lastAt[n][c[1]]
  /\ Diffed(n) # NoReport =>
       \A z \in Zone : told[n][z].cert.count <= Diffed(n).cert[z].count
  /\ Diffed(n) # NoReport /\ ~gap[n] =>
       /\ ~Diffed(n).certsCut /\ Diffed(n).zones = Zone
       /\ \A z \in Zone :
            /\ told[n][z].cert.held = Diffed(n).cert[z].held
            /\ told[n][z].cert.held => told[n][z].cert.count = Diffed(n).cert[z].count
            /\ On(told[n][z].chal) = On(Diffed(n).chal[z])

IInv == Typed /\ NoFalseAlarm /\ WrittenOnce /\ \A n \in Node : Dated(n) /\ Logged(n)
=============================================================================
