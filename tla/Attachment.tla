----------------------------- MODULE Attachment -----------------------------
(***************************************************************************)
(* What keeps the XDP program on its interfaces: opening the pinned maps or *)
(* rebuilding them, attaching or adopting the pinned links, the watcher     *)
(* that notices a replaced netdevice, and the two ways of closing           *)
(* (dataplane/manager.go, pins_linux.go, attach_linux.go).                  *)
(*                                                                         *)
(* An interface is a name; the netdevice behind it is an index that changes *)
(* when it comes back.  A link belongs to one index, one mode and one set   *)
(* of maps, and outlives the process through its pin.                       *)
(***************************************************************************)
EXTENDS Integers, FiniteSets

CONSTANTS
  Iface,      \* the interface names
  Index,      \* ifindexes a name may come back with (0: no such device)
  Build,      \* the builds a restart may run (program tag, map layout)
  Mode,       \* the attach modes a driver offers
  AutoMode,   \* xdp_mode: auto accepts them all
  Backoff     \* the longest wait between two attempts

Gone == 0
NoMaps == 0

AttachmentAssumption ==
  /\ Index \subseteq Nat \ {Gone} /\ Build \subseteq Nat \ {NoMaps}
  /\ Backoff \in Nat \ {0} /\ AutoMode \notin Mode

VARIABLES
  dev,      \* dev[i]: the ifindex the name resolves to
  busy,     \* busy[i]: the driver or another program refuses an attach
  link,     \* link[i]: the kernel's pinned link of the name
  pins,     \* the build whose maps and program are pinned
  objs,     \* the build of the running process
  mode,     \* its xdp_mode
  named,    \* the interfaces of its configuration
  att,      \* att[i]: attached, with the next attempt and the backoff
  stage,    \* "down" | "open" | "up"
  todo      \* interfaces AttachAll has not come to

kernel == <<dev, busy, link, pins>>
vars == <<kernel, objs, mode, named, att, stage, todo>>

NoLink == [index |-> Gone, maps |-> NoMaps, mode |-> AutoMode]
Detached == [on |-> FALSE, wait |-> 0, backoff |-> 1]
Attached == [on |-> TRUE, wait |-> 0, backoff |-> 1]

---------------------------------------------------------------------------
(* Opening.                                                                *)

\* Wrong variant: the maps go and the pinned links stay.
LinksLeft == link

\* removeOurPins lets go of every pinned link before the maps.
LinksRemoved == [i \in Iface |-> NoLink]

\* Pins of another build are rejected and rebuilt.
Open ==
  \E b \in Build, m \in Mode \cup {AutoMode}, S \in SUBSET Iface :
     /\ stage = "down" /\ S # {}
     /\ stage' = "open" /\ objs' = b /\ mode' = m /\ named' = S /\ todo' = Iface
     /\ att' = [i \in Iface |-> Detached]
     /\ pins' = b
     /\ link' = IF pins = b THEN link ELSE LinksRemoved
     /\ UNCHANGED <<dev, busy>>

\* Wrong variant: whichever device the pinned link is on.
UsableAnyDevice(i) == link[i] # NoLink /\ mode \in {AutoMode, link[i].mode}

\* Wrong variant: auto accepts no mode a link can have.
UsableExactMode(i) == link[i].index = dev[i] /\ link[i] # NoLink /\ mode = link[i].mode

\* A pinned link is adopted if it is on what the name means now and in a mode
\* the configuration accepts.
Usable(i) == link[i].index = dev[i] /\ link[i] # NoLink /\ mode \in {AutoMode, link[i].mode}

\* The wait doubles with every failure.
Failed(i) ==
  att' = [att EXCEPT ![i] =
            [on |-> FALSE, wait |-> att[i].backoff,
             backoff |-> IF 2 * att[i].backoff > Backoff THEN Backoff ELSE 2 * att[i].backoff]]

Discard(i) == link' = [link EXCEPT ![i] = NoLink] /\ UNCHANGED att

AttachFresh(i) ==
  \E m \in IF mode = AutoMode THEN Mode ELSE {mode} :
     /\ link' = [link EXCEPT ![i] = [index |-> dev[i], maps |-> objs, mode |-> m]]
     /\ att' = [att EXCEPT ![i] = Attached]

\* Detaching a link the configuration or the device has outgrown is a moment of
\* its own: packets pass unfiltered until the attach that follows.
AttachLocked(i) ==
  \/ dev[i] = Gone /\ Failed(i) /\ UNCHANGED link
  \/ /\ dev[i] # Gone /\ Usable(i)
     /\ att' = [att EXCEPT ![i] = Attached] /\ UNCHANGED link
  \/ dev[i] # Gone /\ link[i] # NoLink /\ ~Usable(i) /\ Discard(i)
  \/ dev[i] # Gone /\ link[i] = NoLink /\ ~busy[i] /\ AttachFresh(i)
  \/ dev[i] # Gone /\ link[i] = NoLink /\ busy[i] /\ Failed(i) /\ UNCHANGED link

\* Links of interfaces the configuration dropped go before any attach.
DropUnnamed ==
  /\ stage = "open" /\ todo \ named # {}
  /\ link' = [i \in Iface |-> IF i \in named THEN link[i] ELSE NoLink]
  /\ todo' = named
  /\ UNCHANGED <<dev, busy, pins, objs, mode, named, att, stage>>

AttachNext(i) ==
  /\ stage = "open" /\ todo \subseteq named /\ i \in todo
  /\ AttachLocked(i)
  /\ todo' = IF att' = att /\ link' # link THEN todo ELSE todo \ {i}
  /\ UNCHANGED <<dev, busy, pins, objs, mode, named, stage>>

\* One attached interface is enough to start, degraded; with none Open fails and
\* the process gives up.
Serve ==
  /\ stage = "open" /\ todo = {}
  /\ IF \E i \in named : att[i].on
     THEN stage' = "up" /\ UNCHANGED <<objs, att>>
     ELSE stage' = "down" /\ objs' = NoMaps /\ att' = [i \in Iface |-> Detached]
  /\ UNCHANGED <<kernel, mode, named, todo>>

---------------------------------------------------------------------------
(* The watcher.                                                            *)

\* Wrong variant: a link that exists is a link that filters.
LinkLiveIfHeld(i) == link[i] # NoLink

\* The kernel reports index 0 for a link whose netdevice is gone.
LinkLive(i) == link[i].index # Gone /\ link[i].index = dev[i]

\* A dead link is dropped and retried at once, an unattached interface when its
\* wait is over.
Reconcile(i) ==
  /\ stage = "up" /\ i \in named
  /\ \/ /\ att[i].on /\ ~LinkLive(i)
        /\ link' = [link EXCEPT ![i] = NoLink]
        /\ att' = [att EXCEPT ![i] = Detached]
     \/ ~att[i].on /\ att[i].wait = 0 /\ AttachLocked(i)
  /\ UNCHANGED <<dev, busy, pins, objs, mode, named, stage, todo>>

Tick ==
  /\ att' = [i \in Iface |-> [att[i] EXCEPT !.wait = IF @ > 0 THEN @ - 1 ELSE 0]]
  /\ UNCHANGED <<kernel, objs, mode, named, stage, todo>>

---------------------------------------------------------------------------
(* Closing, and the world.                                                 *)

Exit == stage' = "down" /\ objs' = NoMaps /\ att' = [i \in Iface |-> Detached] /\ todo' = {}

\* Close(keep), or a crash: the pins hold everything.
CloseKeep ==
  /\ stage # "down" /\ Exit
  /\ UNCHANGED <<kernel, mode, named>>

CloseDetach ==
  /\ stage = "up" /\ Exit
  /\ link' = LinksRemoved /\ pins' = NoMaps
  /\ UNCHANGED <<dev, busy, mode, named>>

\* A netdevice goes away, leaving its link at index 0, comes back as another, or
\* another one takes its name.
DeviceGone(i) ==
  /\ dev[i] # Gone
  /\ dev' = [dev EXCEPT ![i] = Gone]
  /\ link' = [link EXCEPT ![i].index = Gone]
  /\ UNCHANGED <<busy, pins, objs, mode, named, att, stage, todo>>

DeviceSwapped(i) ==
  /\ dev' \in {[dev EXCEPT ![i] = x] : x \in Index \ {dev[i]}}
  /\ UNCHANGED <<busy, link, pins, objs, mode, named, att, stage, todo>>

\* Only one program can own a hook, so none can take it from a live link.
Hook(i) ==
  /\ ~LinkLive(i)
  /\ busy' = [busy EXCEPT ![i] = ~@]
  /\ UNCHANGED <<dev, link, pins, objs, mode, named, att, stage, todo>>

Init ==
  /\ dev \in [Iface -> Index] /\ busy = [i \in Iface |-> FALSE]
  /\ link = [i \in Iface |-> NoLink] /\ pins = NoMaps
  /\ objs = NoMaps /\ mode = AutoMode /\ named = {}
  /\ att = [i \in Iface |-> Detached] /\ stage = "down" /\ todo = {}

Next ==
  \/ Open
  \/ DropUnnamed
  \/ \E i \in Iface : AttachNext(i)
  \/ Serve
  \/ \E i \in Iface : Reconcile(i)
  \/ Tick
  \/ CloseKeep
  \/ CloseDetach
  \/ \E i \in Iface : DeviceGone(i)
  \/ \E i \in Iface : DeviceSwapped(i)
  \/ \E i \in Iface : Hook(i)

\* The watcher's ticker keeps firing.
Fairness == WF_vars(Tick) /\ \A i \in Iface : WF_vars(Reconcile(i))

Spec == Init /\ [][Next]_vars /\ Fairness

---------------------------------------------------------------------------
(* Properties.                                                             *)

TypeOK ==
  /\ dev \in [Iface -> Index \cup {Gone}] /\ busy \in [Iface -> BOOLEAN]
  /\ link \in [Iface -> [index : Index \cup {Gone}, maps : Build \cup {NoMaps},
                         mode : Mode \cup {AutoMode}]]
  /\ pins \in Build \cup {NoMaps} /\ objs \in Build \cup {NoMaps}
  /\ mode \in Mode \cup {AutoMode} /\ named \subseteq Iface /\ todo \subseteq Iface
  /\ att \in [Iface -> [on : BOOLEAN, wait : 0..Backoff, backoff : 1..Backoff]]
  /\ stage \in {"down", "open", "up"}

Filtered(i) == link[i].index # Gone /\ link[i].index = dev[i]

\* What filters an interface the manager calls attached is the program that
\* reads this manager's maps, and in the mode its configuration accepts: never a
\* link an earlier build left pinned, whose maps nobody writes any more (load,
\* removeOurPins, attachLocked).
FilteredByOwnMaps ==
  \A i \in Iface : att[i].on => link[i].maps = objs /\ mode \in {AutoMode, link[i].mode}

\* The moment an interface is called attached, it is: no adoption believes a
\* pinned link whose netdevice has been replaced (adoptLink: "would leave the
\* interface unfiltered while every status field said attached").
AttachedFilters ==
  [][\A i \in Iface : att'[i].on /\ ~att[i].on => link'[i].index = dev'[i]]_vars

\* A restart of the same build, crash included, opens no gap: an interface that
\* was filtered stays so for every packet, unless its device goes, the operator
\* detaches or drops it, or asks for another mode or build.
RestartLeavesNoGap ==
  [][\A i \in Iface :
       Filtered(i) /\ dev'[i] = dev[i] /\ link'[i].index # dev[i] =>
         \/ CloseDetach
         \/ Open /\ objs' # pins
         \/ i \notin named
         \/ mode \notin {AutoMode, link[i].mode}]_vars

\* An interface that is there and lets programs attach is filtered again and
\* again, however often its netdevice was replaced (watch, reconcileOneLocked).
Refiltered ==
  \A i \in Iface :
     <>[](stage = "up" /\ i \in named /\ dev[i] # Gone /\ ~busy[i]) => []<>Filtered(i)

\* What makes the above inductive: a link's maps are the pinned ones, which while a
\* process runs are its own; nothing is called attached while the process is down or
\* before its turn in AttachAll; and the links that are dropped go before any attach.
LinksPinned ==
  \A i \in Iface :
    link[i].maps \in {NoMaps, pins} /\ (link[i].maps = NoMaps => link[i] = NoLink)

AttachedInTurn ==
  /\ stage = "down" => \A i \in Iface : ~att[i].on
  /\ stage # "down" => objs = pins /\ pins # NoMaps
  /\ stage = "open" => /\ \A i \in todo : ~att[i].on
                       /\ todo \subseteq named \/ todo = Iface

IInv == TypeOK /\ FilteredByOwnMaps /\ LinksPinned /\ AttachedInTurn
=============================================================================
