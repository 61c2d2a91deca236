-------------------------- MODULE MitigatorProofs --------------------------
(***************************************************************************)
(* Theorems about the Mitigator for every set of hosts, prefixes, callers   *)
(* and configurations, every ladder and every pattern of backend failures:  *)
(* its types; and the caps of the two ban tables and the blast radius they  *)
(* share, for every span of a prefix and every reload of the caps           *)
(* themselves.  Each limit is its own inductive invariant: a ban is added   *)
(* by one caller at a time, below the limits of the configuration it holds, *)
(* and everything else only takes bans away.                                *)
(*                                                                          *)
(* And, provided that no reload flips dry_run, that the backends enforce    *)
(* what the ban tables say.  The invariant says of each target that its     *)
(* enforcement record matches the method its ban is really on, that the     *)
(* ban is on a rung of its ladder, and that its frozen dry-run flag is the  *)
(* one announces look at.  That flag is a parameter: across restarts it is  *)
(* another one (BrainPartProofs).                                           *)
(*                                                                          *)
(* And that kernel rules are renewed in time for attacks that are beaten    *)
(* every second: they were installed with almost a whole ttl, and not much  *)
(* more than half a ttl ago.                                                *)
(***************************************************************************)
EXTENDS Mitigator, TLAPS, FiniteSetTheorems

---------------------------------------------------------------------------
(* Types of the backend calls.                                             *)

\* Every configuration a caller may hold is well-formed.
LEMMA ConfigTyped ==
  ASSUME NEW c \in Config
  PROVE  c \in ConfigType /\ c # NoConfig
  BY ConfigAssumption

\* An announce that goes through, and an install with time to live, leave a
\* typed enforcement record.
LEMMA InstalledTyped ==
  ASSUME NEW e \in EnvType, NEW m \in Method \ {"alert"}, NEW left \in -1..Horizon,
         m = "dataplane" => left > 0
  PROVE  Installed(e, m, left) \in EnvType
<1>1. CASE m \in Unicast
  BY <1>1 DEF EnvType, Installed, Unicast
<1>2. CASE m = "flowspec"
  BY <1>2 DEF EnvType, Installed, Unicast
<1>3. CASE m = "dataplane"
  <2>1. left \in 0..Horizon
    BY <1>3, ConfigAssumption
  <2> QED
    BY <1>3, <2>1 DEF EnvType, Installed, Unicast
<1> QED
  BY <1>1, <1>2, <1>3 DEF Method, Unicast

\* A removal that failed leaves a typed enforcement record.
LEMMA LeakedTyped ==
  ASSUME NEW e \in EnvType, NEW f \in Family
  PROVE  Leaked(e, f) \in EnvType
<1>1. e.leaked \cup {f} \in SUBSET Family
  BY DEF EnvType
<1> QED
  BY <1>1 DEF EnvType, Leaked

\* A removal that went through leaves a typed enforcement record.
LEMMA ClearedTyped ==
  ASSUME NEW e \in EnvType, NEW f \in Family
  PROVE  Cleared(e, f) \in EnvType
<1>1. CASE f = "unicast"
  BY <1>1 DEF EnvType, Cleared
<1>2. CASE f = "flowspec"
  BY <1>2 DEF EnvType, Cleared
<1>3. CASE f = "dataplane"
  <2>1. 0 \in 0..Horizon
    BY ConfigAssumption
  <2> QED
    BY <1>3, <2>1 DEF EnvType, Cleared
<1> QED
  BY <1>1, <1>2, <1>3 DEF Family

---------------------------------------------------------------------------
(* Outcomes of the backend calls.                                          *)

\* A data-plane install goes through with time to live, or leaves what was
\* there, or leaves nothing of it.
LEMMA InstallDataplaneCases ==
  ASSUME NEW e, NEW left \in -1..Horizon, NEW o \in InstallDataplane(e, left)
  PROVE  \/ left > 0 /\ o.ok = TRUE /\ o.env = Installed(e, "dataplane", left)
         \/ o.ok = FALSE /\ (o.env = e \/ o.env = Cleared(e, "dataplane"))
<1>1. CASE left <= 0
  BY <1>1 DEF InstallDataplane
<1>2. CASE ~(left <= 0)
  <2>1. \/ o = [ok |-> TRUE, env |-> Installed(e, "dataplane", left)]
        \/ \E x \in {e, Cleared(e, "dataplane")} : o = [ok |-> FALSE, env |-> x]
    BY <1>2 DEF InstallDataplane
  <2>2. left > 0
    BY <1>2, ConfigAssumption
  <2> QED
    BY <2>1, <2>2
<1> QED
  BY <1>1, <1>2

\* An announce does nothing under dry-run or for an alert, or goes through, or
\* fails; a failed one touches only what was there of its own family.
LEMMA AnnounceMethodCases ==
  ASSUME NEW e \in EnvType, NEW m \in Method, NEW c \in Config,
         NEW left \in -1..Horizon, NEW o \in AnnounceMethod(e, m, c, left)
  PROVE  \/ (m = "alert" \/ c.dryRun) /\ o.ok = TRUE /\ o.env = e
         \/ /\ m # "alert" /\ ~c.dryRun /\ o.ok = TRUE /\ o.env = Installed(e, m, left)
            /\ m = "dataplane" => left > 0
         \/ /\ m # "alert" /\ ~c.dryRun /\ o.ok = FALSE
            /\ \/ o.env = e
               \/ m = "flowspec" /\ o.env = Cleared(e, "flowspec")
               \/ m = "flowspec" /\ o.env = Leaked([e EXCEPT !.flowspec = TRUE], "flowspec")
               \/ m = "dataplane" /\ o.env = Cleared(e, "dataplane")
<1>1. CASE m = "alert" \/ c.dryRun
  <2>1. AnnounceMethod(e, m, c, left) = {[ok |-> TRUE, env |-> e]}
    BY <1>1 DEF AnnounceMethod
  <2> QED
    BY <1>1, <2>1
<1>2. CASE m = "dataplane" /\ ~c.dryRun
  <2>1. o \in InstallDataplane(e, left)
    BY <1>2 DEF AnnounceMethod
  <2> QED
    BY <1>2, <2>1, InstallDataplaneCases
<1>3. CASE m \notin {"alert", "dataplane"} /\ ~c.dryRun
  <2>1. o \in Announce(e, m, left)
    BY <1>3 DEF AnnounceMethod
  <2>2. PICK x : \/ o = [ok |-> TRUE, env |-> x] /\ x = Installed(e, m, left)
                 \/ o = [ok |-> FALSE, env |-> x] /\ x \in AfterFailure(e, m)
    BY <2>1 DEF Announce
  <2>3. CASE o = [ok |-> TRUE, env |-> x] /\ x = Installed(e, m, left)
    BY <1>3, <2>3
  <2>4. CASE o = [ok |-> FALSE, env |-> x] /\ x \in AfterFailure(e, m)
    <3>1. \/ x = e
          \/ m = "flowspec" /\ x = Cleared(e, "flowspec")
          \/ m = "flowspec" /\ x = Leaked([e EXCEPT !.flowspec = TRUE], "flowspec")
      BY <2>4 DEF AfterFailure
    <3> QED
      BY <1>3, <2>4, <3>1
  <2> QED
    BY <2>2, <2>3, <2>4
<1> QED
  BY <1>1, <1>2, <1>3

\* Every outcome of an announce is typed.
LEMMA AnnounceMethodTyped ==
  ASSUME NEW e \in EnvType, NEW m \in Method, NEW c \in Config,
         NEW left \in -1..Horizon, NEW o \in AnnounceMethod(e, m, c, left)
  PROVE  o.ok \in BOOLEAN /\ o.env \in EnvType
<1>1. [e EXCEPT !.flowspec = TRUE] \in EnvType
  BY DEF EnvType
<1>2. "flowspec" \in Family
  BY DEF Family
<1>3. m # "alert" /\ (m = "dataplane" => left > 0) => Installed(e, m, left) \in EnvType
  BY InstalledTyped
<1>4. Cleared(e, "flowspec") \in EnvType /\ Cleared(e, "dataplane") \in EnvType
  BY ClearedTyped DEF Family
<1>5. Leaked([e EXCEPT !.flowspec = TRUE], "flowspec") \in EnvType
  BY <1>1, <1>2, LeakedTyped
<1>6. \/ (m = "alert" \/ c.dryRun) /\ o.ok = TRUE /\ o.env = e
      \/ /\ m # "alert" /\ ~c.dryRun /\ o.ok = TRUE /\ o.env = Installed(e, m, left)
         /\ m = "dataplane" => left > 0
      \/ /\ m # "alert" /\ ~c.dryRun /\ o.ok = FALSE
         /\ \/ o.env = e
            \/ m = "flowspec" /\ o.env = Cleared(e, "flowspec")
            \/ m = "flowspec" /\ o.env = Leaked([e EXCEPT !.flowspec = TRUE], "flowspec")
            \/ m = "dataplane" /\ o.env = Cleared(e, "dataplane")
  BY AnnounceMethodCases, ZenonT(60)
<1> QED
  BY <1>3, <1>4, <1>5, <1>6

\* A stage goes up by its own method, or by the fallback, or not at all.
LEMMA AnnounceStageCases ==
  ASSUME NEW e, NEW m, NEW c, NEW left, NEW o \in AnnounceStage(e, m, c, left)
  PROVE  \E r \in AnnounceMethod(e, m, c, left) :
           \/ r.ok /\ o = [ok |-> TRUE, method |-> m, env |-> r.env]
           \/ ~r.ok /\ o = [ok |-> FALSE, method |-> m, env |-> r.env]
           \/ /\ ~r.ok
              /\ \E s \in AnnounceMethod(r.env, "blackhole", c, left) :
                   o = [ok |-> s.ok, method |-> IF s.ok THEN "blackhole" ELSE m,
                        env |-> s.env]
<1> DEFINE P == AnnounceMethod(e, m, c, left)
           R(x) == IF FallsBack(m, c) THEN AnnounceMethod(x, "blackhole", c, left)
                   ELSE {[ok |-> FALSE, env |-> x]}
           G(r) == {[ok |-> s.ok, method |-> IF s.ok THEN "blackhole" ELSE m,
                     env |-> s.env] : s \in R(r.env)}
<1>1. \/ \E r \in P : r.ok /\ o = [ok |-> TRUE, method |-> m, env |-> r.env]
      \/ \E r \in P : ~r.ok /\ o \in G(r)
  BY DEF AnnounceStage
<1>2. ASSUME NEW r \in P, ~r.ok, o \in G(r)
      PROVE  \/ o = [ok |-> FALSE, method |-> m, env |-> r.env]
             \/ \E s \in AnnounceMethod(r.env, "blackhole", c, left) :
                   o = [ok |-> s.ok, method |-> IF s.ok THEN "blackhole" ELSE m,
                        env |-> s.env]
  BY <1>2
<1> HIDE DEF G, R
<1> QED
  BY <1>1, <1>2

\* Every outcome of a stage is typed, and names a method.
LEMMA AnnounceStageTyped ==
  ASSUME NEW e \in EnvType, NEW m \in Method, NEW c \in Config,
         NEW left \in -1..Horizon, NEW o \in AnnounceStage(e, m, c, left)
  PROVE  o.ok \in BOOLEAN /\ o.env \in EnvType /\ o.method \in Method
<1>1. PICK r \in AnnounceMethod(e, m, c, left) :
           \/ r.ok /\ o = [ok |-> TRUE, method |-> m, env |-> r.env]
           \/ ~r.ok /\ o = [ok |-> FALSE, method |-> m, env |-> r.env]
           \/ /\ ~r.ok
              /\ \E s \in AnnounceMethod(r.env, "blackhole", c, left) :
                   o = [ok |-> s.ok, method |-> IF s.ok THEN "blackhole" ELSE m,
                        env |-> s.env]
  BY AnnounceStageCases
<1>2. r.env \in EnvType /\ "blackhole" \in Method
  BY AnnounceMethodTyped DEF Method
<1>3. \A s \in AnnounceMethod(r.env, "blackhole", c, left) :
         s.ok \in BOOLEAN /\ s.env \in EnvType
  BY <1>2, AnnounceMethodTyped
<1>4. CASE o = [ok |-> TRUE, method |-> m, env |-> r.env]
  BY <1>2, <1>4
<1>5. CASE o = [ok |-> FALSE, method |-> m, env |-> r.env]
  BY <1>2, <1>5
<1>6. ASSUME NEW s \in AnnounceMethod(r.env, "blackhole", c, left),
             o = [ok |-> s.ok, method |-> IF s.ok THEN "blackhole" ELSE m, env |-> s.env]
      PROVE  o.ok \in BOOLEAN /\ o.env \in EnvType /\ o.method \in Method
  BY <1>2, <1>3, <1>6
<1> QED
  BY <1>1, <1>4, <1>5, <1>6

\* A withdrawal does nothing for an alert or a dry-run ban; otherwise it
\* removes the method's family, or leaves it leaked.
LEMMA WithdrawMethodCases ==
  ASSUME NEW e, NEW m \in Method, NEW dry, NEW x \in WithdrawMethod(e, m, dry)
  PROVE  \/ (m = "alert" \/ dry) /\ x = e
         \/ /\ m # "alert" /\ ~dry /\ FamilyOf(m) \in Family
            /\ x = Cleared(e, FamilyOf(m)) \/ x = Leaked(e, FamilyOf(m))
  BY DEF WithdrawMethod, FamilyOf, Method, Unicast, Family

\* Every outcome of a withdrawal is typed.
LEMMA WithdrawMethodTyped ==
  ASSUME NEW e \in EnvType, NEW m \in Method, NEW dry, NEW x \in WithdrawMethod(e, m, dry)
  PROVE  x \in EnvType
<1>1. \/ x = e
      \/ /\ FamilyOf(m) \in Family
         /\ x = Cleared(e, FamilyOf(m)) \/ x = Leaked(e, FamilyOf(m))
  BY WithdrawMethodCases
<1>2. FamilyOf(m) \in Family =>
         Cleared(e, FamilyOf(m)) \in EnvType /\ Leaked(e, FamilyOf(m)) \in EnvType
  BY ClearedTyped, LeakedTyped
<1> QED
  BY <1>1, <1>2

---------------------------------------------------------------------------
(* Types of ban records and of what a handler makes of one target.         *)

SlotType == [ban : BanType, env : EnvType]

\* The empty entry is a typed ban.
LEMMA NoBanTyped == NoBan \in BanType
<1>1. 0 \in -1..Horizon /\ 0 \in 0..Horizon /\ 0 \in Nat
  BY ConfigAssumption
<1>2. "alert" \in Method /\ <<>> \in Seq(Rung)
  BY DEF Method
<1> QED
  BY <1>1, <1>2 DEF NoBan, BanType

\* A ban moved to a rung is a typed ban.
LEMMA OnRungTyped ==
  ASSUME NEW b \in BanType, NEW i \in Nat, NEW m \in Method, NEW c
  PROVE  OnRung(b, i, m, c) \in BanType
<1>1. 0 \in 0..Horizon
  BY ConfigAssumption
<1> QED
  BY <1>1 DEF OnRung, BanType

\* A withdrawn ban leaves a typed slot.
LEMMA WithdrawTyped ==
  ASSUME NEW b \in BanType, NEW e \in EnvType, NEW s \in Withdraw(b, e)
  PROVE  s \in SlotType
<1>1. b.method \in Method
  BY DEF BanType
<1>2. PICK x \in WithdrawMethod(e, b.method, b.dryRun) : s = Slot(NoBan, x)
  BY DEF Withdraw
<1>3. x \in EnvType
  BY <1>1, WithdrawMethodTyped
<1> QED
  BY <1>2, <1>3, NoBanTyped DEF Slot, SlotType

\* A due rung is a rung of the ban's ladder.
LEMMA DueRungTyped ==
  ASSUME NEW b \in BanType, NEW i \in DueRungs(b)
  PROVE  i \in Nat /\ b.ladder[i].action \in Method
<1>1. b.step \in Nat /\ b.ladder \in Seq(Rung)
  BY DEF BanType
<1>2. i \in 1..Len(b.ladder)
  BY <1>1 DEF DueRungs
<1>3. b.ladder[i] \in Rung
  BY <1>1, <1>2
<1> QED
  BY <1>2, <1>3 DEF Rung

\* A climb to a due rung leaves a typed slot.
LEMMA ClimbToTyped ==
  ASSUME NEW b \in BanType, NEW e \in EnvType, NEW c \in Config,
         NEW i \in DueRungs(b), NEW s \in ClimbTo(i, b, e, c)
  PROVE  s \in SlotType
<1> DEFINE m == b.ladder[i].action
<1>1. i \in Nat /\ m \in Method /\ b.method \in Method /\ b.left \in -1..Horizon
  BY DueRungTyped DEF BanType
<1>2. CASE m = b.method
  <2>1. s = Slot([b EXCEPT !.step = i], e)
    BY <1>2 DEF ClimbTo
  <2> QED
    BY <1>1, <2>1 DEF Slot, SlotType, BanType
<1>3. CASE m # b.method
  <2>1. PICK o \in AnnounceStage(e, m, c, b.left) :
             s \in IF o.ok
                   THEN {Slot(OnRung(b, i, o.method, c), x) : x \in Superseded(b, o)}
                   ELSE {Slot(b, o.env)}
    BY <1>3 DEF ClimbTo
  <2>2. o.ok \in BOOLEAN /\ o.env \in EnvType /\ o.method \in Method
    BY <1>1, AnnounceStageTyped
  <2>3. CASE ~o.ok
    BY <2>1, <2>2, <2>3 DEF Slot, SlotType
  <2>4. CASE o.ok
    <3>1. PICK x \in Superseded(b, o) : s = Slot(OnRung(b, i, o.method, c), x)
      BY <2>1, <2>4
    <3>2. x \in EnvType
      BY <1>1, <2>2, WithdrawMethodTyped DEF Superseded
    <3>3. OnRung(b, i, o.method, c) \in BanType
      BY <1>1, <2>2, OnRungTyped
    <3> QED
      BY <3>1, <3>2, <3>3 DEF Slot, SlotType
  <2> QED
    BY <2>3, <2>4
<1> QED
  BY <1>2, <1>3

\* A sweep leaves a typed slot for each target.
LEMMA SweepOneTyped ==
  ASSUME NEW t \in Target, NEW b \in BanType, NEW e \in EnvType, NEW c \in Config,
         NEW s \in SweepOne(t, b, e, c)
  PROVE  s \in SlotType
<1>1. CASE s = Slot(b, e)
  BY <1>1 DEF Slot, SlotType
<1>2. CASE s \in Withdraw(b, e)
  BY <1>2, WithdrawTyped
<1>3. CASE \E i \in TopDue(b) : s \in ClimbTo(i, b, e, c)
  BY <1>3, ClimbToTyped DEF TopDue
<1> QED
  BY <1>1, <1>2, <1>3 DEF SweepOne, Escalate

\* A heartbeat's renewal leaves a typed slot for each target.
LEMMA RenewalsTyped ==
  ASSUME NEW t \in Target, NEW b \in BanType, NEW e \in EnvType, NEW c \in Config,
         NEW s \in Renewals(t, b, e, c)
  PROVE  s \in SlotType
<1>1. CASE s = Slot(b, e)
  BY <1>1 DEF Slot, SlotType
<1>2. ASSUME NEW o \in InstallDataplane(e, b.left),
             s = Slot(IF o.ok THEN [b EXCEPT !.dpAge = 0] ELSE b, o.env)
      PROVE  s \in SlotType
  <2>1. 0 \in 0..Horizon /\ b.left \in -1..Horizon /\ "dataplane" \in Method \ {"alert"}
    BY ConfigAssumption DEF BanType, Method
  <2>2. /\ b.left > 0 => Installed(e, "dataplane", b.left) \in EnvType
        /\ Cleared(e, "dataplane") \in EnvType
    BY <2>1, InstalledTyped, ClearedTyped DEF Family
  <2>3. [b EXCEPT !.dpAge = 0] \in BanType
    BY <2>1 DEF BanType
  <2>4. o.env \in EnvType
    BY <2>1, <2>2, InstallDataplaneCases
  <2> QED
    BY <1>2, <2>3, <2>4 DEF Slot, SlotType
<1> QED
  BY <1>1, <1>2 DEF Renewals

\* A tick of the clock keeps a ban and its rules typed.
LEMMA AgedTyped ==
  ASSUME NEW b \in BanType, NEW e \in EnvType
  PROVE  Aged(b) \in BanType /\ Lapse(e) \in EnvType
<1>1. /\ b.left \in -1..Horizon /\ b.age \in 0..Horizon /\ b.dpAge \in 0..Horizon
      /\ e.kernel \in 0..Horizon /\ Horizon \in Nat
  BY ConfigAssumption DEF BanType, EnvType
<1>2. /\ Older(b.age) \in 0..Horizon /\ Older(b.dpAge) \in 0..Horizon
      /\ (IF b.left >= 0 THEN b.left - 1 ELSE b.left) \in -1..Horizon
      /\ e.kernel > 1 => e.kernel - 1 \in 0..Horizon
  BY <1>1 DEF Older
<1>3. Aged(b) \in BanType
  BY <1>2 DEF Aged, BanType
<1>4. Cleared(e, "dataplane") \in EnvType
  BY ClearedTyped DEF Family
<1>5. e.kernel > 1 => [e EXCEPT !.kernel = e.kernel - 1] \in EnvType
  BY <1>2 DEF EnvType
<1> QED
  BY <1>1, <1>3, <1>4, <1>5 DEF Lapse

---------------------------------------------------------------------------
(* Type correctness.                                                       *)

\* Putting a typed slot, or one for every target, keeps both tables typed.
LEMMA PutTyped ==
  ASSUME TypeOK, NEW t \in Target, NEW STATE s, s \in SlotType, Put(t, s)
  PROVE  ban' \in [Target -> BanType] /\ env' \in [Target -> EnvType]
  BY DEF TypeOK, SlotType, Put

\* A pass over all targets keeps both tables typed if each of its slots is.
LEMMA EachTyped ==
  ASSUME NEW STATE outcomes, \A t \in Target : outcomes[t] \subseteq SlotType, Each(outcomes)
  PROVE  ban' \in [Target -> BanType] /\ env' \in [Target -> EnvType]
<1>1. PICK f : /\ \A t \in Target : f[t] \in outcomes[t]
               /\ ban' = [t \in Target |-> f[t].ban]
               /\ env' = [t \in Target |-> f[t].env]
  BY DEF Each
<1>2. \A t \in Target : f[t] \in SlotType
  BY <1>1
<1> QED
  BY <1>1, <1>2 DEF SlotType

\* What every handler that returns leaves of the callers' configurations.
LEMMA ReturnsTyped ==
  ASSUME TypeOK, NEW w, Returns(w)
  PROVE  held' \in [Caller -> Config \cup {NoConfig}]
  BY DEF TypeOK, Returns

\* Counting a ban keeps the rate window typed.
LEMMA CountedTyped ==
  ASSUME TypeOK, NEW c \in Config, NEW n \in Nat, CountedIn(c, n)
  PROVE  winAge' \in 0..Horizon /\ winCount' \in Nat
  BY ConfigAssumption DEF TypeOK, CountedIn, WindowCount

\* A refused ban keeps the state typed.
LEMMA RefuseTyped ==
  ASSUME TypeOK, NEW w \in Worker, NEW t \in Target, held[w] # NoConfig, Refuse(w, t)
  PROVE  TypeOK'
<1>1. held[w] \in Config
  BY DEF TypeOK, Caller
<1>2. winAge' \in 0..Horizon /\ winCount' \in Nat
  BY <1>1, CountedTyped DEF Refuse, TypeOK
<1> QED
  BY <1>2, ReturnsTyped DEF TypeOK, Refuse

\* A refreshed ban keeps the state typed.
LEMMA RefreshTyped ==
  ASSUME TypeOK, NEW w \in Worker, NEW t \in Target, NEW dirs \in SUBSET Direction,
         held[w] # NoConfig, Refresh(w, t, dirs)
  PROVE  TypeOK'
<1>1. held[w].ttl \in -1..Horizon
  BY ConfigTyped, ConfigAssumption DEF TypeOK, Caller, ConfigType
<1>2. ban[t] \in BanType
  BY DEF TypeOK
<1>3. [ban[t] EXCEPT !.left = held[w].ttl, !.dirs = @ \cup dirs] \in BanType
  BY <1>1, <1>2 DEF BanType
<1>4. ban' = [ban EXCEPT ![t] = [ban[t] EXCEPT !.left = held[w].ttl, !.dirs = @ \cup dirs]]
  BY <1>2 DEF Refresh, TypeOK, BanType
<1> QED
  BY <1>3, <1>4, ReturnsTyped DEF TypeOK, Refresh

\* A new ban is a typed ban.
LEMMA NewBanTyped ==
  ASSUME NEW c \in Config, NEW ladder \in Seq(Rung), NEW dirs \in SUBSET Direction,
         NEW manual \in BOOLEAN
  PROVE  NewBan(c, ladder, dirs, manual) \in BanType
<1>1. /\ c.ttl \in -1..Horizon /\ c.dryRun \in BOOLEAN
      /\ 0 \in 0..Horizon /\ Horizon \in 0..Horizon /\ "alert" \in Method
  BY ConfigTyped, ConfigAssumption DEF ConfigType, Method
<1> QED
  BY <1>1 DEF NewBan, BanType

\* A new ban, admitted or failed, keeps the state typed.
LEMMA AdmitTyped ==
  ASSUME TypeOK, NEW w \in Worker, NEW t \in Target, NEW ladder \in Seq(Rung),
         ladder[1] \in Rung, NEW dirs \in SUBSET Direction, NEW manual \in BOOLEAN,
         held[w] # NoConfig, Admit(w, t, ladder, dirs, manual)
  PROVE  TypeOK'
<1> DEFINE c == held[w]
           b == NewBan(c, ladder, dirs, manual)
<1>1. c \in Config /\ b \in BanType /\ ladder[1].action \in Method
  BY NewBanTyped DEF TypeOK, Caller, Rung
<1>2. PICK o \in AnnounceStage(env[t], ladder[1].action, c, b.left) :
         IF o.ok
         THEN Put(t, Slot(OnRung(b, 1, o.method, c), o.env)) /\ CountedIn(c, 1)
         ELSE Put(t, Slot(ban[t], o.env)) /\ CountedIn(c, 0)
  BY DEF Admit
<1>3. env[t] \in EnvType /\ ban[t] \in BanType /\ b.left \in -1..Horizon
  BY <1>1 DEF TypeOK, BanType
<1> HIDE DEF b, c
<1>4. o.ok \in BOOLEAN /\ o.env \in EnvType /\ o.method \in Method
  BY <1>1, <1>3, AnnounceStageTyped
<1>5. OnRung(b, 1, o.method, c) \in BanType
  BY <1>1, <1>4, OnRungTyped
<1>6. /\ Slot(OnRung(b, 1, o.method, c), o.env) \in SlotType
      /\ Slot(ban[t], o.env) \in SlotType
  BY <1>3, <1>4, <1>5 DEF Slot, SlotType
<1>7. ban' \in [Target -> BanType] /\ env' \in [Target -> EnvType]
  BY <1>2, <1>6, PutTyped
<1>8. winAge' \in 0..Horizon /\ winCount' \in Nat
  BY <1>1, <1>2, CountedTyped
<1> QED
  BY <1>7, <1>8, ReturnsTyped DEF TypeOK, Admit

\* A heartbeat keeps the state typed.
LEMMA HeartbeatTyped ==
  ASSUME TypeOK, NEW w \in Worker, NEW t \in Target, NEW dirs \in SUBSET Direction,
         Heartbeat(w, t, dirs)
  PROVE  TypeOK'
<1> DEFINE c == held[w]
           Now(u) == IF u = t THEN Kept(t, dirs, c) ELSE ban[u]
           R == [u \in Target |-> Renewals(u, Now(u), env[u], c)]
<1>1. c \in Config
  BY DEF TypeOK, Caller, Heartbeat
<1>2. \A u \in Target : Now(u) \in BanType
  <2>1. c.ttl \in -1..Horizon
    BY <1>1, ConfigTyped, ConfigAssumption DEF ConfigType
  <2>2. \A u \in Target : ban[u] \in BanType
    BY DEF TypeOK
  <2> HIDE DEF c
  <2>3. Kept(t, dirs, c) \in BanType
    BY <2>1, <2>2 DEF Kept, BanType
  <2> QED
    BY <2>2, <2>3
<1>3. \A u \in Target : R[u] \subseteq SlotType
  <2> TAKE u \in Target
  <2>1. env[u] \in EnvType
    BY DEF TypeOK
  <2> HIDE DEF Now, c
  <2> QED
    BY <1>1, <1>2, <2>1, RenewalsTyped
<1>4. Each(R) \/ UNCHANGED <<ban, env>>
  BY DEF Heartbeat
<1> HIDE DEF R
<1>5. ban' \in [Target -> BanType] /\ env' \in [Target -> EnvType]
  BY <1>3, <1>4, EachTyped DEF TypeOK
<1> QED
  BY <1>5, ReturnsTyped DEF TypeOK, Heartbeat

\* A withdrawal keeps both tables typed.
LEMMA WithdrawalTyped ==
  ASSUME TypeOK, NEW t \in Target, \E s \in Withdraw(ban[t], env[t]) : Put(t, s)
  PROVE  ban' \in [Target -> BanType] /\ env' \in [Target -> EnvType]
<1>1. ban[t] \in BanType /\ env[t] \in EnvType
  BY DEF TypeOK
<1> QED
  BY <1>1, WithdrawTyped, PutTyped

\* Each action on its own keeps the state typed.
LEMMA NextTyped ==
  ASSUME TypeOK, [Next]_vars
  PROVE  TypeOK'
<1>1. ASSUME NEW w \in Caller, Begin(w)
      PROVE  TypeOK'
  BY <1>1 DEF TypeOK, Begin
<1>2. ASSUME NEW w \in Worker, NEW h \in Host, NEW d \in Direction, OnAttackStarted(w, h, d)
      PROVE  TypeOK'
  <2>1. h \in Target /\ {d} \in SUBSET Direction /\ held[w] # NoConfig
    BY <1>2 DEF Target, OnAttackStarted
  <2>2. held[w].ladder \in Seq(Rung) /\ held[w].ladder[1] \in Rung
    BY <2>1, ConfigTyped, ConfigAssumption DEF TypeOK, Caller, ConfigType
  <2> QED
    BY <1>2, <2>1, <2>2, RefuseTyped, RefreshTyped, AdmitTyped DEF OnAttackStarted
<1>3. ASSUME NEW w \in Worker, NEW h \in Host, NEW d \in Direction, OnAttackOngoing(w, h, d)
      PROVE  TypeOK'
  BY <1>3, HeartbeatTyped DEF OnAttackOngoing, Target
<1>4. ASSUME NEW h \in Host, NEW d \in Direction, OnAttackEnded(h, d)
      PROVE  TypeOK'
  <2>1. CASE \E s \in Withdraw(ban[h], env[h]) : Put(h, s)
    BY <1>4, <2>1, WithdrawalTyped DEF TypeOK, OnAttackEnded, Target
  <2>2. CASE ban' = [ban EXCEPT ![h].dirs = ban[h].dirs \ {d}] /\ UNCHANGED env
    <3>1. ban[h] \in BanType /\ h \in Target
      BY DEF TypeOK, Target
    <3>2. [ban[h] EXCEPT !.dirs = ban[h].dirs \ {d}] \in BanType
      BY <3>1 DEF BanType
    <3> QED
      BY <1>4, <2>2, <3>1, <3>2 DEF TypeOK, OnAttackEnded
  <2> QED
    BY <1>4, <2>1, <2>2 DEF OnAttackEnded
<1>5. ASSUME NEW w \in Worker, NEW h \in Host, ManualBan(w, h)
      PROVE  TypeOK'
  <2>1. h \in Target /\ {} \in SUBSET Direction /\ held[w] # NoConfig
    BY <1>5 DEF Target, ManualBan
  <2>2. held[w].ladder \in Seq(Rung) /\ held[w].ladder[1] \in Rung
    BY <2>1, ConfigTyped, ConfigAssumption DEF TypeOK, Caller, ConfigType
  <2> QED
    BY <1>5, <2>1, <2>2, RefuseTyped, RefreshTyped, AdmitTyped DEF ManualBan
<1>6. ASSUME NEW h \in Host, ManualUnban(h)
      PROVE  TypeOK'
  BY <1>6, WithdrawalTyped DEF TypeOK, ManualUnban, Target
<1>7. ASSUME NEW w \in Worker, NEW p \in Prefix, OnCarpetStarted(w, p)
      PROVE  TypeOK'
  <2> DEFINE ladder == <<[after |-> 0, action |-> held[w].carpet]>>
  <2>1. p \in Target /\ {} \in SUBSET Direction /\ held[w] # NoConfig
    BY <1>7 DEF Target, OnCarpetStarted
  <2>2. [after |-> 0, action |-> held[w].carpet] \in Rung
    BY <2>1, ConfigTyped, ConfigAssumption DEF TypeOK, Caller, ConfigType, Rung
  <2>3. ladder \in Seq(Rung) /\ ladder[1] \in Rung
    BY <2>2
  <2>4. CASE Returns(w) /\ UNCHANGED <<cfg, ban, env, winAge, winCount>>
    BY <2>4, ReturnsTyped DEF TypeOK
  <2>5. CASE Admit(w, p, ladder, {}, FALSE)
    <3> HIDE DEF ladder
    <3> QED
      BY <2>1, <2>3, <2>5, AdmitTyped
  <2> QED
    BY <1>7, <2>1, <2>4, <2>5, RefuseTyped, RefreshTyped DEF OnCarpetStarted
<1>8. ASSUME NEW w \in Worker, NEW p \in Prefix, OnCarpetOngoing(w, p)
      PROVE  TypeOK'
  BY <1>8, HeartbeatTyped DEF OnCarpetOngoing, Target
<1>9. ASSUME NEW p \in Prefix, OnCarpetEnded(p)
      PROVE  TypeOK'
  BY <1>9, WithdrawalTyped DEF TypeOK, OnCarpetEnded, Target
<1>10. CASE Sweep
  <2> DEFINE c == held[Sweeper]
             S == [t \in Target |-> SweepOne(t, ban[t], env[t], c)]
  <2>1. c \in Config
    BY <1>10 DEF Sweep, TypeOK, Caller
  <2>2. \A t \in Target : S[t] \subseteq SlotType
    BY <2>1, SweepOneTyped DEF TypeOK
  <2>3. Each(S)
    BY <1>10 DEF Sweep
  <2> HIDE DEF S
  <2>4. ban' \in [Target -> BanType] /\ env' \in [Target -> EnvType]
    BY <2>2, <2>3, EachTyped
  <2> QED
    BY <1>10, <2>4, ReturnsTyped DEF Sweep, TypeOK
<1>11. CASE Reload
  BY <1>11 DEF Reload, TypeOK
<1>12. CASE Tick
  <2>1. Older(winAge) \in 0..Horizon
    BY ConfigAssumption DEF TypeOK, Older
  <2>2. \A t \in Target : Aged(ban[t]) \in BanType /\ Lapse(env[t]) \in EnvType
    BY AgedTyped DEF TypeOK
  <2> QED
    BY <1>12, <2>1, <2>2 DEF Tick, TypeOK
<1>13. CASE UNCHANGED vars
  BY <1>13 DEF vars, TypeOK
<1> QED
  BY <1>1, <1>2, <1>3, <1>4, <1>5, <1>6, <1>7, <1>8, <1>9, <1>10, <1>11, <1>12, <1>13
  DEF Next

\* Nothing is banned and nothing is up at the start.
LEMMA InitTyped ==
  ASSUME Init
  PROVE  TypeOK
<1>1. Horizon \in 0..Horizon /\ 0 \in 0..Horizon
  BY ConfigAssumption
<1>2. NothingUp \in EnvType
  BY <1>1 DEF NothingUp, EnvType
<1> QED
  BY <1>1, <1>2, NoBanTyped DEF Init, TypeOK

\* The state stays within its types: no ban ever has more than a fresh ttl to
\* live, whatever refreshes overlap, and no kernel rule is installed for longer
\* than the horizon of the configuration.
THEOREM TypeCorrect == Spec => []TypeOK
<1>1. Init => TypeOK
  BY InitTyped
<1>2. TypeOK /\ [Next]_vars => TypeOK'
  BY NextTyped
<1> QED
  BY <1>1, <1>2, PTL DEF Spec

---------------------------------------------------------------------------
(* Counting addresses.                                                     *)

\* The targets are finitely many.
LEMMA TargetsFinite == IsFiniteSet(Target)
  BY TargetAssumption, FS_Union DEF Target

\* A target covers as many addresses as its span.
LEMMA OneCovers ==
  ASSUME NEW t \in Target
  PROVE  /\ IsFiniteSet({t} \X (1..Span[t]))
         /\ Cardinality({t} \X (1..Span[t])) = Span[t]
<1>1. Span[t] \in Nat
  BY TargetAssumption
<1>2. IsFiniteSet(1..Span[t]) /\ Cardinality(1..Span[t]) = Span[t]
  <2>1. 1 \in Int /\ Span[t] \in Int
    BY <1>1
  <2>2. /\ IsFiniteSet(1..Span[t])
        /\ Cardinality(1..Span[t]) = IF 1 > Span[t] THEN 0 ELSE Span[t] - 1 + 1
    BY <2>1, FS_Interval
  <2> QED
    BY <1>1, <2>2
<1>3. IsFiniteSet({t}) /\ Cardinality({t}) = 1
  BY FS_Singleton
<1>4. /\ IsFiniteSet({t} \X (1..Span[t]))
      /\ Cardinality({t} \X (1..Span[t])) = Cardinality({t}) * Cardinality(1..Span[t])
  BY <1>2, <1>3, FS_Product
<1> QED
  BY <1>1, <1>2, <1>3, <1>4

\* What finitely many targets cover is finite.
LEMMA CoveredFinite ==
  ASSUME NEW X \in SUBSET Target
  PROVE  IsFiniteSet(Covered(X)) /\ Cardinality(Covered(X)) \in Nat
<1> DEFINE Part(t) == {t} \X (1..Span[t])
           Parts == {Part(t) : t \in X}
<1>1. IsFiniteSet(X)
  BY TargetsFinite, FS_Subset
<1>2. \A y \in Parts : IsFiniteSet(y)
  BY OneCovers
<1>3. IsFiniteSet(Parts)
  <2> DEFINE f == [t \in X |-> Part(t)]
  <2>1. f \in Surjection(X, Parts)
    BY DEF Surjection
  <2> QED
    BY <1>1, <2>1, FS_Surjection
<1>4. IsFiniteSet(UNION Parts)
  <2> HIDE DEF Parts
  <2> QED
    BY <1>2, <1>3, FS_UNION
<1> QED
  BY <1>4, FS_CardinalityType DEF Covered

\* Fewer targets cover no more addresses.
LEMMA FewerCoverLess ==
  ASSUME NEW X \in SUBSET Target, NEW Y \in SUBSET X
  PROVE  Cardinality(Covered(Y)) <= Cardinality(Covered(X))
<1>1. Covered(Y) \in SUBSET Covered(X)
  BY DEF Covered
<1> QED
  BY <1>1, CoveredFinite, FS_Subset

\* One more target adds its own addresses, and no target's address is counted for another.
LEMMA OneMoreCovers ==
  ASSUME NEW X \in SUBSET Target, NEW t \in Target \ X
  PROVE  Cardinality(Covered(X \cup {t})) = Cardinality(Covered(X)) + Span[t]
<1> DEFINE own == {t} \X (1..Span[t])
<1>1. Covered(X \cup {t}) = Covered(X) \cup own
  BY DEF Covered
<1>2. Covered(X) \cap own = {}
  BY DEF Covered
<1>3. /\ IsFiniteSet(own) /\ Cardinality(own) = Span[t]
      /\ IsFiniteSet(Covered(X)) /\ Cardinality(Covered(X)) \in Nat
  BY OneCovers, CoveredFinite
<1>4. Span[t] \in Nat
  BY TargetAssumption
<1> HIDE DEF own
<1>5. Cardinality(Covered(X) \cup own)
        = Cardinality(Covered(X)) + Cardinality(own) - Cardinality(Covered(X) \cap own)
  BY <1>3, FS_Union
<1>6. Cardinality(Covered(X) \cap own) = 0
  BY <1>2, FS_EmptySet
<1> DEFINE k == Cardinality(Covered(X))
<1>7. k \in Nat /\ Cardinality(Covered(X \cup {t})) = k + Span[t] - 0
  BY <1>1, <1>3, <1>5, <1>6
<1> HIDE DEF k
<1>8. Cardinality(Covered(X \cup {t})) = k + Span[t]
  BY <1>4, <1>7
<1> QED
  BY <1>8 DEF k

---------------------------------------------------------------------------
(* What a step adds to the tables.                                         *)

\* No target becomes banned.
NoneAdded == \A t \in Target : ban'[t].active => ban[t].active

\* One target becomes banned, below the limits of a caller's configuration.
OneAdded ==
  \E t \in Target, c \in Config :
    /\ ~ban[t].active /\ UnderCap(t, c) /\ UnderFraction(t, c)
    /\ \A u \in Target \ {t} : ban'[u].active => ban[u].active

\* A sweep bans nobody.
LEMMA SweepAddsNone ==
  ASSUME NEW t, NEW b, b.active \in BOOLEAN, NEW e, NEW c, NEW s \in SweepOne(t, b, e, c)
  PROVE  s.ban.active => b.active
<1>1. CASE s = Slot(b, e)
  BY <1>1 DEF Slot
<1>2. CASE s \in Withdraw(b, e)
  BY <1>2 DEF Withdraw, Slot, NoBan
<1>3. CASE ~(s = Slot(b, e))
  BY <1>2, <1>3 DEF SweepOne, Slot
<1> QED
  BY <1>1, <1>3

\* A renewal bans nobody.
LEMMA RenewalsAddNone ==
  ASSUME NEW t, NEW b, NEW e, NEW c, NEW s \in Renewals(t, b, e, c)
  PROVE  s.ban.active = b.active
<1>1. CASE s = Slot(b, e)
  BY <1>1 DEF Slot
<1>2. CASE \E o \in InstallDataplane(e, b.left) :
             s = Slot(IF o.ok THEN [b EXCEPT !.dpAge = 0] ELSE b, o.env)
  BY <1>2 DEF Slot
<1> QED
  BY <1>1, <1>2 DEF Renewals

\* Only an admission bans, and it bans one target, below the limits.
LEMMA AdmitAdds ==
  ASSUME TypeOK, NEW w \in Worker, NEW t \in Target, NEW ladder, NEW dirs, NEW manual,
         held[w] # NoConfig, Admit(w, t, ladder, dirs, manual)
  PROVE  OneAdded
<1>1. held[w] \in Config /\ t \in Target
  BY DEF TypeOK, Caller
<1>2. PICK x, y : ban' = [ban EXCEPT ![t] = x] /\ env' = [env EXCEPT ![t] = y]
  BY DEF Admit, Put
<1>3. \A u \in Target \ {t} : ban'[u] = ban[u]
  BY <1>2 DEF TypeOK
<1>4. ~ban[t].active /\ UnderCap(t, held[w]) /\ UnderFraction(t, held[w])
  BY DEF Admit
<1> QED
  BY <1>1, <1>3, <1>4 DEF OneAdded

\* A heartbeat bans nobody.
LEMMA HeartbeatAddsNone ==
  ASSUME TypeOK, NEW w \in Worker, NEW t \in Target, NEW dirs, Heartbeat(w, t, dirs)
  PROVE  NoneAdded
<1> DEFINE c == held[w]
           Now(u) == IF u = t THEN Kept(t, dirs, c) ELSE ban[u]
           R == [u \in Target |-> Renewals(u, Now(u), env[u], c)]
<1>1. \A u \in Target : Now(u).active = ban[u].active
  BY DEF Kept, TypeOK, BanType
<1>2. ASSUME NEW f \in [Target -> UNION {R[u] : u \in Target}], \A u \in Target : f[u] \in R[u],
             ban' = [u \in Target |-> f[u].ban]
      PROVE  NoneAdded
  <2> HIDE DEF Now, c
  <2>1. \A u \in Target : f[u] \in Renewals(u, Now(u), env[u], c)
    BY <1>2
  <2> HIDE DEF R
  <2>2. ASSUME NEW u \in Target  PROVE ban'[u].active = Now(u).active
    BY <1>2, <2>1, RenewalsAddNone
  <2> QED
    BY <1>1, <2>2 DEF NoneAdded
<1>3. Each(R) \/ UNCHANGED ban
  BY DEF Heartbeat
<1>4. CASE Each(R)
  <2> HIDE DEF R
  <2> QED
    BY <1>2, <1>4 DEF Each
<1>5. CASE UNCHANGED ban
  BY <1>5 DEF NoneAdded
<1> QED
  BY <1>3, <1>4, <1>5

\* A withdrawal bans nobody.
LEMMA WithdrawalAddsNone ==
  ASSUME TypeOK, NEW t \in Target, \E s \in Withdraw(ban[t], env[t]) : Put(t, s)
  PROVE  NoneAdded
<1>1. PICK s \in Withdraw(ban[t], env[t]) : ban' = [ban EXCEPT ![t] = s.ban]
  BY DEF Put
<1>2. ~s.ban.active
  BY DEF Withdraw, Slot, NoBan
<1> QED
  BY <1>1, <1>2 DEF NoneAdded, TypeOK

\* A call refused, refreshed or admitted.
LEMMA CallAdds ==
  ASSUME TypeOK, NEW w \in Worker, NEW t \in Target, NEW ladder, NEW dirs, NEW manual,
         held[w] # NoConfig,
         Refuse(w, t) \/ Refresh(w, t, dirs) \/ Admit(w, t, ladder, dirs, manual)
  PROVE  NoneAdded \/ OneAdded
<1>1. CASE Refuse(w, t)
  BY <1>1 DEF Refuse, NoneAdded
<1>2. CASE Refresh(w, t, dirs)
  BY <1>2 DEF Refresh, NoneAdded, TypeOK, BanType
<1> QED
  BY <1>1, <1>2, AdmitAdds

\* A step bans one target below the limits, or none.
LEMMA StepAdds ==
  ASSUME TypeOK, [Next]_vars
  PROVE  NoneAdded \/ OneAdded
<1>1. ASSUME NEW w \in Worker, NEW h \in Host, NEW d \in Direction, OnAttackStarted(w, h, d)
      PROVE  NoneAdded \/ OneAdded
  BY <1>1, CallAdds DEF OnAttackStarted, Target
<1>2. ASSUME NEW w \in Worker, NEW h \in Host, ManualBan(w, h)
      PROVE  NoneAdded \/ OneAdded
  BY <1>2, CallAdds DEF ManualBan, Target
<1>3. ASSUME NEW w \in Worker, NEW p \in Prefix, OnCarpetStarted(w, p)
      PROVE  NoneAdded \/ OneAdded
  <2>1. CASE UNCHANGED ban
    BY <2>1 DEF NoneAdded
  <2> QED
    BY <1>3, <2>1, CallAdds DEF OnCarpetStarted, Target
<1>4. ASSUME NEW w \in Worker, NEW h \in Host, NEW d \in Direction, OnAttackOngoing(w, h, d)
      PROVE  NoneAdded
  BY <1>4, HeartbeatAddsNone DEF OnAttackOngoing, Target
<1>5. ASSUME NEW w \in Worker, NEW p \in Prefix, OnCarpetOngoing(w, p)
      PROVE  NoneAdded
  BY <1>5, HeartbeatAddsNone DEF OnCarpetOngoing, Target
<1>6. ASSUME NEW h \in Host, NEW d \in Direction, OnAttackEnded(h, d)
      PROVE  NoneAdded
  <2>1. CASE ban' = [ban EXCEPT ![h].dirs = ban[h].dirs \ {d}]
    BY <2>1 DEF NoneAdded, TypeOK, BanType
  <2>2. CASE \E s \in Withdraw(ban[h], env[h]) : Put(h, s)
    BY <2>2, WithdrawalAddsNone DEF Target
  <2> QED
    BY <1>6, <2>1, <2>2 DEF OnAttackEnded
<1>7. ASSUME NEW h \in Host, ManualUnban(h)  PROVE NoneAdded
  BY <1>7, WithdrawalAddsNone DEF ManualUnban, Target
<1>8. ASSUME NEW p \in Prefix, OnCarpetEnded(p)  PROVE NoneAdded
  BY <1>8, WithdrawalAddsNone DEF OnCarpetEnded, Target
<1>9. CASE Sweep
  <2> DEFINE c == held[Sweeper]
             R == [t \in Target |-> SweepOne(t, ban[t], env[t], c)]
  <2>1. Each(R)
    BY <1>9 DEF Sweep
  <2>2. PICK f \in [Target -> UNION {R[t] : t \in Target}] :
          (\A t \in Target : f[t] \in R[t]) /\ ban' = [t \in Target |-> f[t].ban]
    <3> HIDE DEF R
    <3> QED
      BY <2>1 DEF Each
  <2>3. ASSUME NEW t \in Target  PROVE ban'[t].active => ban[t].active
    <3>1. f[t] \in SweepOne(t, ban[t], env[t], c) /\ ban'[t] = f[t].ban
      BY <2>2
    <3>2. ban[t].active \in BOOLEAN
      BY DEF TypeOK, BanType
    <3> QED
      BY <3>1, <3>2, SweepAddsNone
  <2> QED
    BY <2>3 DEF NoneAdded
<1>10. CASE Tick
  BY <1>10 DEF Tick, Aged, NoneAdded, TypeOK, BanType
<1>11. CASE UNCHANGED ban
  BY <1>11 DEF NoneAdded
<1> QED
  BY <1>1, <1>2, <1>3, <1>4, <1>5, <1>6, <1>7, <1>8, <1>9, <1>10, <1>11
  DEF Next, Begin, Reload, vars

---------------------------------------------------------------------------
(* The limits.                                                             *)

Banned == ActiveHosts \cup ActivePrefixes

\* What a step makes of the sets of banned targets.
LEMMA StepBans ==
  ASSUME TypeOK, [Next]_vars
  PROVE  \/ ActiveHosts' \subseteq ActiveHosts /\ ActivePrefixes' \subseteq ActivePrefixes
         \/ \E t \in Target \ Banned, c \in Config :
              /\ UnderCap(t, c) /\ UnderFraction(t, c)
              /\ t \in Host => /\ ActiveHosts' \subseteq ActiveHosts \cup {t}
                               /\ ActivePrefixes' \subseteq ActivePrefixes
              /\ t \notin Host => /\ ActiveHosts' \subseteq ActiveHosts
                                  /\ ActivePrefixes' \subseteq ActivePrefixes \cup {t}
<1>1. CASE NoneAdded
  BY <1>1 DEF NoneAdded, ActiveHosts, ActivePrefixes, Target
<1>2. CASE OneAdded
  <2>1. PICK t \in Target, c \in Config :
          /\ ~ban[t].active /\ UnderCap(t, c) /\ UnderFraction(t, c)
          /\ \A u \in Target \ {t} : ban'[u].active => ban[u].active
    BY <1>2 DEF OneAdded
  <2>2. t \notin Banned
    BY <2>1 DEF Banned, ActiveHosts, ActivePrefixes
  <2>3. \A u \in Host : u \in Target
    BY DEF Target
  <2>4. \A u \in Prefix : u \in Target /\ u \notin Host
    BY TargetAssumption DEF Target
  <2>5. ActiveHosts' \subseteq ActiveHosts \cup ({t} \cap Host)
    BY <2>1, <2>3 DEF ActiveHosts
  <2>6. ActivePrefixes' \subseteq ActivePrefixes \cup ({t} \cap Prefix)
    BY <2>1, <2>4 DEF ActivePrefixes
  <2>7. t \in Prefix => t \notin Host
    BY <2>4
  <2> QED
    BY <2>1, <2>2, <2>5, <2>6, <2>7
<1> QED
  BY <1>1, <1>2, StepAdds

\* The tables are finite.
LEMMA BannedFinite ==
  /\ IsFiniteSet(ActiveHosts) /\ IsFiniteSet(ActivePrefixes)
  /\ Cardinality(ActiveHosts) \in Nat /\ Cardinality(ActivePrefixes) \in Nat
<1>1. ActiveHosts \in SUBSET Host /\ ActivePrefixes \in SUBSET Prefix
  BY DEF ActiveHosts, ActivePrefixes
<1> QED
  BY <1>1, TargetAssumption, FS_Subset, FS_CardinalityType

\* What one more costs against a cap.
LEMMA OneMoreAtMost ==
  ASSUME NEW X, IsFiniteSet(X), NEW x, NEW Y \in SUBSET (X \cup {x})
  PROVE  Cardinality(Y) <= Cardinality(X) + 1
<1>1. /\ IsFiniteSet(X \cup {x})
      /\ Cardinality(X \cup {x}) = IF x \in X THEN Cardinality(X) ELSE Cardinality(X) + 1
  BY FS_AddElement
<1>2. IsFiniteSet(Y) /\ Cardinality(Y) <= Cardinality(X \cup {x})
  BY <1>1, FS_Subset
<1>3. Cardinality(X) \in Nat /\ Cardinality(Y) \in Nat
  BY <1>2, FS_CardinalityType
<1> QED
  BY <1>1, <1>2, <1>3

\* A step keeps a table within its cap: what is taken away leaves it there, and one more is
\* admitted only below the cap of some configuration.
LEMMA CapsStep ==
  ASSUME TypeOK, CapsHeld, [Next]_vars
  PROVE  CapsHeld'
<1>1. PICK c \in Config : Cardinality(ActiveHosts) <= c.maxActive
  BY DEF CapsHeld
<1>2. PICK k \in Config : Cardinality(ActivePrefixes) <= k.maxPrefix
  BY DEF CapsHeld
<1>3. \A d \in Config : d.maxActive \in Nat /\ d.maxPrefix \in Nat
  BY ConfigTyped DEF ConfigType
<1>4. ASSUME ActiveHosts' \subseteq ActiveHosts
      PROVE  \E d \in Config : Cardinality(ActiveHosts') <= d.maxActive
  <2>1. /\ Cardinality(ActiveHosts') <= Cardinality(ActiveHosts)
        /\ Cardinality(ActiveHosts') \in Nat
    BY <1>4, BannedFinite, FS_Subset, FS_CardinalityType
  <2>2. Cardinality(ActiveHosts') <= c.maxActive
    BY <1>1, <1>3, <2>1, BannedFinite
  <2> QED
    BY <2>2
<1>5. ASSUME ActivePrefixes' \subseteq ActivePrefixes
      PROVE  \E d \in Config : Cardinality(ActivePrefixes') <= d.maxPrefix
  <2>1. /\ Cardinality(ActivePrefixes') <= Cardinality(ActivePrefixes)
        /\ Cardinality(ActivePrefixes') \in Nat
    BY <1>5, BannedFinite, FS_Subset, FS_CardinalityType
  <2>2. Cardinality(ActivePrefixes') <= k.maxPrefix
    BY <1>2, <1>3, <2>1, BannedFinite
  <2> QED
    BY <2>2
<1>6. ASSUME NEW t \in Host, NEW d \in Config, UnderCap(t, d), ActiveHosts' \subseteq ActiveHosts \cup {t}
      PROVE  Cardinality(ActiveHosts') <= d.maxActive
  <2>1. Cardinality(ActiveHosts') <= Cardinality(ActiveHosts) + 1
    BY <1>6, BannedFinite, OneMoreAtMost
  <2>2. Cardinality(ActiveHosts) < d.maxActive
    BY <1>6 DEF UnderCap
  <2>3. Cardinality(ActiveHosts') \in Nat
    BY <1>6, BannedFinite, FS_AddElement, FS_Subset, FS_CardinalityType
  <2> QED
    BY <1>3, <2>1, <2>2, <2>3, BannedFinite
<1>7. ASSUME NEW t, t \notin Host, NEW d \in Config, UnderCap(t, d),
             ActivePrefixes' \subseteq ActivePrefixes \cup {t}
      PROVE  Cardinality(ActivePrefixes') <= d.maxPrefix
  <2>1. Cardinality(ActivePrefixes') <= Cardinality(ActivePrefixes) + 1
    BY <1>7, BannedFinite, OneMoreAtMost
  <2>2. Cardinality(ActivePrefixes) < d.maxPrefix
    BY <1>7 DEF UnderCap
  <2>3. Cardinality(ActivePrefixes') \in Nat
    BY <1>7, BannedFinite, FS_AddElement, FS_Subset, FS_CardinalityType
  <2> QED
    BY <1>3, <2>1, <2>2, <2>3, BannedFinite
<1> QED
  BY <1>4, <1>5, <1>6, <1>7, StepBans DEF CapsHeld

\* A step keeps the tables together within the blast radius: a prefix and the hosts in it
\* are weighed together, one at a time.
LEMMA BlastStep ==
  ASSUME TypeOK, BlastRadiusHeld, [Next]_vars
  PROVE  BlastRadiusHeld'
<1>1. Banned \in SUBSET Target /\ Banned' \in SUBSET Target
  BY DEF Banned, ActiveHosts, ActivePrefixes, Target
<1>2. ActiveAddresses = Cardinality(Covered(Banned)) /\ ActiveAddresses' = Cardinality(Covered(Banned'))
  BY DEF Banned, ActiveAddresses, Covered
<1>3. /\ Cardinality(Covered(Banned)) \in Nat /\ Cardinality(Covered(Banned')) \in Nat
      /\ \A d \in Config : d.maxAddresses \in Nat
  BY <1>1, CoveredFinite, ConfigTyped DEF ConfigType
<1>4. CASE Banned' \subseteq Banned
  <2>1. PICK d \in Config : d.maxAddresses = 0 \/ Cardinality(Covered(Banned)) <= d.maxAddresses
    BY <1>2 DEF BlastRadiusHeld
  <2>2. Cardinality(Covered(Banned')) <= Cardinality(Covered(Banned))
    BY <1>1, <1>4, FewerCoverLess
  <2>3. d.maxAddresses = 0 \/ Cardinality(Covered(Banned')) <= d.maxAddresses
    BY <1>3, <2>1, <2>2
  <2> QED
    BY <1>2, <2>3 DEF BlastRadiusHeld
<1>5. ASSUME NEW t \in Target \ Banned, NEW d \in Config, UnderFraction(t, d),
             Banned' \subseteq Banned \cup {t}
      PROVE  BlastRadiusHeld'
  <2>1. Cardinality(Covered(Banned')) <= Cardinality(Covered(Banned \cup {t}))
    BY <1>1, <1>5, FewerCoverLess
  <2>2. Cardinality(Covered(Banned \cup {t})) = Cardinality(Covered(Banned)) + Span[t]
    BY <1>1, OneMoreCovers
  <2>3. d.maxAddresses = 0 \/ Cardinality(Covered(Banned)) + Span[t] <= d.maxAddresses
    BY <1>2, <1>5 DEF UnderFraction
  <2>4. Span[t] \in Nat
    BY TargetAssumption
  <2>5. d.maxAddresses = 0 \/ Cardinality(Covered(Banned')) <= d.maxAddresses
    BY <1>3, <2>1, <2>2, <2>3, <2>4
  <2> QED
    BY <1>2, <2>5 DEF BlastRadiusHeld
<1> QED
  BY <1>4, <1>5, StepBans DEF Banned

\* The empty tables are within every limit.
LEMMA LimitsInit ==
  ASSUME Init
  PROVE  CapsHeld /\ BlastRadiusHeld
<1>1. ActiveHosts = {} /\ ActivePrefixes = {}
  BY DEF Init, NoBan, ActiveHosts, ActivePrefixes, Target
<1>2. Covered(ActiveHosts \cup ActivePrefixes) = {}
  BY <1>1 DEF Covered
<1>3. Cardinality(ActiveHosts) = 0 /\ Cardinality(ActivePrefixes) = 0 /\ ActiveAddresses = 0
  BY <1>1, <1>2, FS_EmptySet DEF ActiveAddresses
<1>4. cfg \in Config /\ cfg.maxActive \in Nat /\ cfg.maxPrefix \in Nat /\ cfg.maxAddresses \in Nat
  BY ConfigTyped DEF Init, ConfigType
<1> QED
  BY <1>3, <1>4 DEF CapsHeld, BlastRadiusHeld

\* Neither table ever holds more bans than a configuration of the operator's allows, however
\* many callers are between their reading it and the mutex (ban, banPrefix: the hard cap).
THEOREM CapsKept == Spec => []CapsHeld
<1>1. Init => CapsHeld
  BY LimitsInit
<1>2. TypeOK /\ CapsHeld /\ [Next]_vars => CapsHeld'
  BY CapsStep
<1> QED
  BY <1>1, <1>2, TypeCorrect, PTL DEF Spec

\* The addresses banned by host and by prefix never exceed the blast radius of a configuration
\* of the operator's, each counted with its whole span (max_banned_fraction).
THEOREM BlastRadiusKept == Spec => []BlastRadiusHeld
<1>1. Init => BlastRadiusHeld
  BY LimitsInit
<1>2. TypeOK /\ BlastRadiusHeld /\ [Next]_vars => BlastRadiusHeld'
  BY BlastStep
<1> QED
  BY <1>1, <1>2, TypeCorrect, PTL DEF Spec

---------------------------------------------------------------------------
(* What is up is what the ban is on.                                       *)

\* Nothing is up beyond the methods of S, unless it is known to have leaked.
Within(e, S) ==
  /\ e.route # "none" => e.route \in S \/ "unicast" \in e.leaked
  /\ e.flowspec => "flowspec" \in S \/ "flowspec" \in e.leaked
  /\ e.kernel > 0 => "dataplane" \in S \/ "dataplane" \in e.leaked

\* A method of the BGP speaker is up; kernel rules may have lapsed.
Up(e, m) == (m \in Unicast => e.route = m) /\ (m = "flowspec" => e.flowspec)

\* What the enforcement record of a target on method m shows.
Matches(e, m) == Within(e, {m}) /\ Up(e, m)

\* While a ban moves from p to q: both, at most.
Between(e, p, q) == Within(e, {p, q}) /\ Up(e, q)

\* Of an active ban: its flag is dry, the one announces look at; it is on a rung of its
\* ladder; and what is up is what it is on.
Frozen(b, dry) == b.active => b.dryRun = dry
OnLadder(b) == b.active => b.step \in 1..Len(b.ladder)
Good(s, dry) == Frozen(s.ban, dry) /\ OnLadder(s.ban) /\ Matches(s.env, Enforcing(s.ban))

\* A flag is a parameter: the configuration's while no reload flips it.
Consistent(dry) == \A t \in Target : Good(Slot(ban[t], env[t]), dry)
IInv == TypeOK /\ Consistent(cfg.dryRun)

\* Every call in progress has read a configuration with that flag.
Reads(dry) == \A w \in Caller : held[w] # NoConfig => held[w].dryRun = dry

---------------------------------------------------------------------------
(* Backends.                                                               *)

\* Taking the kernel rules down touches nothing else.
LEMMA ClearedFields ==
  ASSUME NEW e \in EnvType
  PROVE  /\ Cleared(e, "dataplane").kernel = 0
         /\ Cleared(e, "dataplane").route = e.route
         /\ Cleared(e, "dataplane").flowspec = e.flowspec
         /\ Cleared(e, "dataplane").leaked = e.leaked \ {"dataplane"}
         /\ ~(0 > 0)
<1>1. Cleared(e, "dataplane") = [e EXCEPT !.kernel = 0, !.leaked = e.leaked \ {"dataplane"}]
  BY Zenon DEF Cleared
<1>2. ~(0 > 0)
  OBVIOUS
<1>3. Cleared(e, "dataplane").kernel = 0
  BY <1>1 DEF EnvType
<1>4. Cleared(e, "dataplane").route = e.route /\ Cleared(e, "dataplane").flowspec = e.flowspec
  BY <1>1 DEF EnvType
<1>5. Cleared(e, "dataplane").leaked = e.leaked \ {"dataplane"}
  BY <1>1 DEF EnvType
<1> QED
  BY <1>2, <1>3, <1>4, <1>5

\* Taking a route or a rule set down touches nothing else.
LEMMA ClearedSpeakerFields ==
  ASSUME NEW e \in EnvType
  PROVE  /\ Cleared(e, "unicast").route = "none"
         /\ Cleared(e, "unicast").flowspec = e.flowspec
         /\ Cleared(e, "unicast").kernel = e.kernel
         /\ Cleared(e, "unicast").leaked = e.leaked \ {"unicast"}
         /\ Cleared(e, "flowspec").route = e.route
         /\ Cleared(e, "flowspec").flowspec = FALSE
         /\ Cleared(e, "flowspec").kernel = e.kernel
         /\ Cleared(e, "flowspec").leaked = e.leaked \ {"flowspec"}
<1>1. /\ Cleared(e, "unicast") = [e EXCEPT !.route = "none", !.leaked = e.leaked \ {"unicast"}]
      /\ Cleared(e, "flowspec") = [e EXCEPT !.flowspec = FALSE, !.leaked = e.leaked \ {"flowspec"}]
  BY Zenon DEF Cleared
<1>2. /\ Cleared(e, "unicast").route = "none"
      /\ Cleared(e, "unicast").flowspec = e.flowspec
      /\ Cleared(e, "unicast").kernel = e.kernel
      /\ Cleared(e, "unicast").leaked = e.leaked \ {"unicast"}
  BY <1>1 DEF EnvType
<1>3. /\ Cleared(e, "flowspec").route = e.route
      /\ Cleared(e, "flowspec").flowspec = FALSE
      /\ Cleared(e, "flowspec").kernel = e.kernel
      /\ Cleared(e, "flowspec").leaked = e.leaked \ {"flowspec"}
  BY <1>1 DEF EnvType
<1> QED
  BY <1>2, <1>3

\* A removal that failed is recorded, and nothing else changes.
LEMMA LeakedFields ==
  ASSUME NEW e \in EnvType, NEW f
  PROVE  /\ Leaked(e, f).kernel = e.kernel
         /\ Leaked(e, f).route = e.route
         /\ Leaked(e, f).flowspec = e.flowspec
         /\ Leaked(e, f).leaked = e.leaked \cup {f}
  BY DEF Leaked, EnvType

\* A family taken down, or left leaked, is no longer expected of a target that
\* moves to a method of another family.
LEMMA WithdrawnMatches ==
  ASSUME NEW e \in EnvType, NEW p \in Method \ {"alert"}, NEW q \in Method,
         Between(e, p, q), FamilyOf(p) # FamilyOf(q),
         NEW x, x = Cleared(e, FamilyOf(p)) \/ x = Leaked(e, FamilyOf(p))
  PROVE  Matches(x, q)
<1>1. CASE p \in Unicast
  <2>1. FamilyOf(p) = "unicast" /\ q \notin Unicast
    BY <1>1 DEF FamilyOf, Unicast
  <2>2. /\ e.flowspec \in BOOLEAN
        /\ e.flowspec => q = "flowspec" \/ "flowspec" \in e.leaked
        /\ e.kernel > 0 => q = "dataplane" \/ "dataplane" \in e.leaked
        /\ q = "flowspec" => e.flowspec
    BY <1>1, <2>1 DEF Between, Within, Up, Unicast, EnvType
  <2>3. CASE x = Cleared(e, "unicast")
    <3>1. /\ x.route = "none" /\ x.flowspec = e.flowspec /\ x.kernel = e.kernel
          /\ x.leaked = e.leaked \ {"unicast"}
      BY <2>3, ClearedSpeakerFields
    <3> QED
      BY <2>1, <2>2, <3>1 DEF Matches, Within, Up
  <2>4. CASE x = Leaked(e, "unicast")
    <3>1. /\ x.route = e.route /\ x.flowspec = e.flowspec /\ x.kernel = e.kernel
          /\ x.leaked = e.leaked \cup {"unicast"}
      BY <2>4, LeakedFields
    <3> QED
      BY <2>1, <2>2, <3>1 DEF Matches, Within, Up
  <2> QED
    BY <2>1, <2>3, <2>4
<1>2. CASE p = "flowspec"
  <2>1. FamilyOf(p) = "flowspec" /\ q # "flowspec"
    BY <1>2 DEF FamilyOf, Unicast
  <2>2. /\ e.route # "none" => e.route = q \/ "unicast" \in e.leaked
        /\ e.kernel > 0 => q = "dataplane" \/ "dataplane" \in e.leaked
        /\ q \in Unicast => e.route = q
    BY <1>2, <2>1 DEF Between, Within, Up, Unicast, EnvType
  <2>3. CASE x = Cleared(e, "flowspec")
    <3>1. /\ x.route = e.route /\ x.flowspec = FALSE /\ x.kernel = e.kernel
          /\ x.leaked = e.leaked \ {"flowspec"}
      BY <2>3, ClearedSpeakerFields
    <3> QED
      BY <2>1, <2>2, <3>1 DEF Matches, Within, Up
  <2>4. CASE x = Leaked(e, "flowspec")
    <3>1. /\ x.route = e.route /\ x.flowspec = e.flowspec /\ x.kernel = e.kernel
          /\ x.leaked = e.leaked \cup {"flowspec"}
      BY <2>4, LeakedFields
    <3> QED
      BY <2>1, <2>2, <3>1 DEF Matches, Within, Up
  <2> QED
    BY <2>1, <2>3, <2>4
<1>3. CASE p = "dataplane"
  <2>1. FamilyOf(p) = "dataplane" /\ q # "dataplane"
    BY <1>3 DEF FamilyOf, Unicast
  <2>2. CASE x = Cleared(e, "dataplane")
    <3>1. e.flowspec \in BOOLEAN /\ e.route # "dataplane"
      BY DEF EnvType, Unicast
    <3> QED
      BY <1>3, <2>1, <2>2, <3>1, ClearedFields DEF Matches, Between, Within, Up, Unicast
  <2>3. CASE x = Leaked(e, "dataplane")
    <3>1. e.flowspec \in BOOLEAN /\ e.route # "dataplane"
      BY DEF EnvType, Unicast
    <3> QED
      BY <1>3, <2>1, <2>3, <3>1, LeakedFields DEF Matches, Between, Within, Up, Unicast
  <2> QED
    BY <2>1, <2>2, <2>3
<1> QED
  BY <1>1, <1>2, <1>3 DEF Method, Unicast

\* A method that goes up replaces, or joins, what the target was on.
LEMMA InstalledBetween ==
  ASSUME NEW e \in EnvType, NEW p \in Method, NEW q \in Method \ {"alert"}, NEW left,
         Matches(e, p)
  PROVE  Between(Installed(e, q, left), p, q)
<1>1. CASE q \in Unicast
  BY <1>1 DEF Matches, Between, Within, Up, Installed, EnvType, Unicast
<1>2. CASE q = "flowspec"
  BY <1>2 DEF Matches, Between, Within, Up, Installed, EnvType, Unicast
<1>3. CASE q = "dataplane"
  BY <1>3 DEF Matches, Between, Within, Up, Installed, EnvType, Unicast
<1> QED
  BY <1>1, <1>2, <1>3 DEF Method, Unicast

\* A failed announce of another method, or of a host route, leaves the target
\* on the method it was on.
LEMMA FailedMatches ==
  ASSUME NEW e \in EnvType, NEW p \in Method, NEW m \in Method, Matches(e, p),
         p # m \/ m \in Unicast,
         NEW x,
         \/ x = e
         \/ m = "flowspec" /\ x = Cleared(e, "flowspec")
         \/ m = "flowspec" /\ x = Leaked([e EXCEPT !.flowspec = TRUE], "flowspec")
         \/ m = "dataplane" /\ x = Cleared(e, "dataplane")
  PROVE  Matches(x, p)
<1>1. CASE x = e
  BY <1>1
<1>2. CASE m = "flowspec" /\ x = Cleared(e, "flowspec")
  BY <1>2 DEF Matches, Within, Up, Cleared, EnvType, Unicast
<1>3. CASE m = "flowspec" /\ x = Leaked([e EXCEPT !.flowspec = TRUE], "flowspec")
  BY <1>3 DEF Matches, Within, Up, Leaked, EnvType, Unicast
<1>4. CASE m = "dataplane" /\ x = Cleared(e, "dataplane")
  BY <1>4, ClearedFields DEF Matches, Within, Up, Unicast
<1> QED
  BY <1>1, <1>2, <1>3, <1>4

\* What an announce under a real configuration leaves.
LEMMA AnnounceMethodLeaves ==
  ASSUME NEW e \in EnvType, NEW p \in Method, NEW m \in Method, NEW c \in Config,
         NEW left \in -1..Horizon, Matches(e, p), p # m \/ m \in Unicast \cup {"alert"}, ~c.dryRun,
         NEW o \in AnnounceMethod(e, m, c, left)
  PROVE  /\ o.ok => Between(o.env, p, m)
         /\ ~o.ok => Matches(o.env, p)
<1>1. \/ (m = "alert" \/ c.dryRun) /\ o.ok = TRUE /\ o.env = e
      \/ /\ m # "alert" /\ ~c.dryRun /\ o.ok = TRUE /\ o.env = Installed(e, m, left)
         /\ m = "dataplane" => left > 0
      \/ /\ m # "alert" /\ ~c.dryRun /\ o.ok = FALSE
         /\ \/ o.env = e
            \/ m = "flowspec" /\ o.env = Cleared(e, "flowspec")
            \/ m = "flowspec" /\ o.env = Leaked([e EXCEPT !.flowspec = TRUE], "flowspec")
            \/ m = "dataplane" /\ o.env = Cleared(e, "dataplane")
  BY AnnounceMethodCases, ZenonT(60)
<1>2. CASE m = "alert" /\ o.ok = TRUE /\ o.env = e
  BY <1>2 DEF Matches, Between, Within, Up, Unicast
<1>3. CASE m # "alert" /\ o.ok = TRUE /\ o.env = Installed(e, m, left)
  BY <1>3, InstalledBetween
<1>4. CASE /\ m # "alert" /\ o.ok = FALSE
           /\ \/ o.env = e
              \/ m = "flowspec" /\ o.env = Cleared(e, "flowspec")
              \/ m = "flowspec" /\ o.env = Leaked([e EXCEPT !.flowspec = TRUE], "flowspec")
              \/ m = "dataplane" /\ o.env = Cleared(e, "dataplane")
  BY <1>4, FailedMatches
<1> QED
  BY <1>1, <1>2, <1>3, <1>4

\* What a stage leaves, its fallback included.
LEMMA AnnounceStageLeaves ==
  ASSUME NEW e \in EnvType, NEW p \in Method, NEW m \in Method, NEW c \in Config,
         NEW left \in -1..Horizon, Matches(e, p), p # m \/ m \in Unicast \cup {"alert"}, ~c.dryRun,
         NEW o \in AnnounceStage(e, m, c, left)
  PROVE  /\ o.ok => Between(o.env, p, o.method)
         /\ ~o.ok => Matches(o.env, p)
<1>1. PICK r \in AnnounceMethod(e, m, c, left) :
           \/ r.ok /\ o = [ok |-> TRUE, method |-> m, env |-> r.env]
           \/ ~r.ok /\ o = [ok |-> FALSE, method |-> m, env |-> r.env]
           \/ /\ ~r.ok
              /\ \E s \in AnnounceMethod(r.env, "blackhole", c, left) :
                   o = [ok |-> s.ok, method |-> IF s.ok THEN "blackhole" ELSE m,
                        env |-> s.env]
  BY AnnounceStageCases
<1>2. (r.ok => Between(r.env, p, m)) /\ (~r.ok => Matches(r.env, p))
  BY AnnounceMethodLeaves
<1>3. r.env \in EnvType
  BY AnnounceMethodTyped
<1>4. CASE r.ok /\ o = [ok |-> TRUE, method |-> m, env |-> r.env]
  BY <1>2, <1>4
<1>5. CASE ~r.ok /\ o = [ok |-> FALSE, method |-> m, env |-> r.env]
  BY <1>2, <1>5
<1>6. ASSUME ~r.ok, NEW s \in AnnounceMethod(r.env, "blackhole", c, left),
             o = [ok |-> s.ok, method |-> IF s.ok THEN "blackhole" ELSE m, env |-> s.env]
      PROVE  (o.ok => Between(o.env, p, o.method)) /\ (~o.ok => Matches(o.env, p))
  <2>1. "blackhole" \in Method /\ "blackhole" \in Unicast
    BY DEF Method, Unicast
  <2>2. (s.ok => Between(s.env, p, "blackhole")) /\ (~s.ok => Matches(s.env, p))
    BY <1>2, <1>3, <1>6, <2>1, AnnounceMethodLeaves
  <2> QED
    BY <1>6, <2>2
<1> QED
  BY <1>1, <1>4, <1>5, <1>6

\* Under dry-run a stage always goes up and touches nothing.
LEMMA AnnounceStageDry ==
  ASSUME NEW e \in EnvType, NEW m \in Method, NEW c \in Config, NEW left \in -1..Horizon,
         c.dryRun, NEW o \in AnnounceStage(e, m, c, left)
  PROVE  o.ok /\ o.method = m /\ o.env = e
<1>1. PICK r \in AnnounceMethod(e, m, c, left) :
           \/ r.ok /\ o = [ok |-> TRUE, method |-> m, env |-> r.env]
           \/ ~r.ok /\ o = [ok |-> FALSE, method |-> m, env |-> r.env]
           \/ /\ ~r.ok
              /\ \E s \in AnnounceMethod(r.env, "blackhole", c, left) :
                   o = [ok |-> s.ok, method |-> IF s.ok THEN "blackhole" ELSE m,
                        env |-> s.env]
  BY AnnounceStageCases
<1>2. AnnounceMethod(e, m, c, left) = {[ok |-> TRUE, env |-> e]}
  BY DEF AnnounceMethod
<1>3. r.ok = TRUE /\ r.env = e
  BY <1>2
<1> QED
  BY <1>1, <1>3

---------------------------------------------------------------------------
(* What a handler makes of one target.                                     *)

\* A withdrawn ban leaves nothing up but what leaked.
LEMMA WithdrawGood ==
  ASSUME NEW dry, NEW b \in BanType, NEW e \in EnvType, b.active, Good(Slot(b, e), dry),
         NEW s \in Withdraw(b, e)
  PROVE  Good(s, dry)
<1>1. b.method \in Method
  BY DEF BanType
<1>2. PICK x \in WithdrawMethod(e, b.method, b.dryRun) : s = Slot(NoBan, x)
  BY DEF Withdraw
<1>3. \/ (b.method = "alert" \/ b.dryRun) /\ x = e
      \/ /\ b.method # "alert" /\ ~b.dryRun
         /\ x = Cleared(e, FamilyOf(b.method)) \/ x = Leaked(e, FamilyOf(b.method))
  BY <1>1, <1>2, WithdrawMethodCases
<1>4. Matches(e, Enforcing(b))
  BY DEF Good, Slot
<1>5. Matches(x, "alert")
  <2>1. CASE (b.method = "alert" \/ b.dryRun) /\ x = e
    BY <1>4, <2>1 DEF Enforcing
  <2>2. CASE /\ b.method # "alert" /\ ~b.dryRun
             /\ x = Cleared(e, FamilyOf(b.method)) \/ x = Leaked(e, FamilyOf(b.method))
    <3>1. Between(e, b.method, "alert")
      BY <1>4, <2>2 DEF Enforcing, Matches, Between, Within, Up, Unicast
    <3>2. FamilyOf(b.method) # FamilyOf("alert") /\ "alert" \in Method
      BY <1>1, <2>2 DEF FamilyOf, Method, Unicast
    <3> QED
      BY <1>1, <2>2, <3>1, <3>2, WithdrawnMatches
  <2> QED
    BY <1>3, <2>1, <2>2
<1> QED
  BY <1>2, <1>5 DEF Good, Slot, Frozen, OnLadder, NoBan, Enforcing

\* A climb makes before it breaks, and breaks no more than it replaces.
LEMMA ClimbToGood ==
  ASSUME NEW dry, NEW b \in BanType, NEW e \in EnvType, NEW c \in Config,
         c.dryRun = dry, b.active, Good(Slot(b, e), dry), NEW i \in DueRungs(b),
         NEW s \in ClimbTo(i, b, e, c)
  PROVE  Good(s, dry)
<1> DEFINE m == b.ladder[i].action
<1>1. /\ i \in Nat /\ m \in Method /\ b.method \in Method /\ b.left \in -1..Horizon
      /\ b.dryRun \in BOOLEAN
  BY DueRungTyped DEF BanType
<1>2. b.dryRun = dry /\ c.dryRun = dry /\ OnLadder(b) /\ Matches(e, Enforcing(b))
  BY DEF Good, Slot, Frozen
<1>5. i \in 1..Len(b.ladder)
  BY DEF DueRungs, BanType
<1>3. CASE m = b.method
  <2>1. s = Slot([b EXCEPT !.step = i], e)
    BY <1>3 DEF ClimbTo
  <2> QED
    BY <1>2, <1>5, <2>1 DEF Good, Slot, Frozen, OnLadder, Enforcing, BanType
<1>4. CASE m # b.method
  <2>1. PICK o \in AnnounceStage(e, m, c, b.left) :
             s \in IF o.ok
                   THEN {Slot(OnRung(b, i, o.method, c), x) : x \in Superseded(b, o)}
                   ELSE {Slot(b, o.env)}
    BY <1>4 DEF ClimbTo
  <2>2. o.ok \in BOOLEAN /\ o.env \in EnvType /\ o.method \in Method
    BY <1>1, AnnounceStageTyped
  <2> HIDE DEF m
  <2>3. ASSUME NEW x, o.ok, x \in Superseded(b, o),
               s = Slot(OnRung(b, i, o.method, c), x),
               Matches(x, IF b.dryRun THEN "alert" ELSE o.method)
        PROVE  Good(s, dry)
    BY <1>2, <1>5, <2>3 DEF Good, Slot, Frozen, OnLadder, Enforcing, OnRung, BanType
  <2>4. CASE b.dryRun
    <3>1. o.ok /\ o.method = m /\ o.env = e
      <4>1. c.dryRun
        BY <1>2, <2>4
      <4>2. m \in Method /\ b.left \in -1..Horizon
        BY <1>1
      <4> QED
        BY <4>1, <4>2, <2>1, AnnounceStageDry
    <3>2. PICK x \in Superseded(b, o) : s = Slot(OnRung(b, i, o.method, c), x)
      BY <2>1, <3>1
    <3>3. x = e
      BY <2>4, <3>1, <3>2 DEF Superseded, WithdrawMethod
    <3> QED
      BY <1>2, <2>3, <2>4, <3>1, <3>2, <3>3 DEF Enforcing
  <2>5. CASE ~b.dryRun
    <3>1. ~c.dryRun /\ Matches(e, b.method)
      BY <1>2, <2>5 DEF Enforcing
    <3>2. (o.ok => Between(o.env, b.method, o.method)) /\ (~o.ok => Matches(o.env, b.method))
      BY <1>1, <1>4, <3>1, AnnounceStageLeaves DEF m
    <3>3. CASE ~o.ok
      BY <1>2, <2>1, <2>5, <3>2, <3>3 DEF Good, Slot, Enforcing, Frozen
    <3>4. CASE o.ok
      <4>1. PICK x \in Superseded(b, o) : s = Slot(OnRung(b, i, o.method, c), x)
        BY <2>1, <3>4
      <4>2. CASE FamilyOf(b.method) = FamilyOf(o.method)
        <5>1. x = o.env
          BY <4>1, <4>2 DEF Superseded
        <5>2. Matches(x, o.method)
          BY <1>1, <2>2, <3>2, <3>4, <4>2, <5>1
          DEF FamilyOf, Matches, Between, Within, Up, Unicast, Method, EnvType
        <5> QED
          BY <2>3, <2>5, <3>4, <4>1, <5>2
      <4>3. CASE FamilyOf(b.method) # FamilyOf(o.method)
        <5>1. x \in WithdrawMethod(o.env, b.method, b.dryRun)
          BY <4>1, <4>3 DEF Superseded
        <5>2. \/ b.method = "alert" /\ x = o.env
              \/ /\ b.method # "alert"
                 /\ x = Cleared(o.env, FamilyOf(b.method)) \/ x = Leaked(o.env, FamilyOf(b.method))
          BY <1>1, <2>5, <5>1, WithdrawMethodCases
        <5>3. CASE b.method = "alert" /\ x = o.env
          <6>1. Matches(x, o.method)
            BY <2>2, <3>2, <3>4, <5>3 DEF Matches, Between, Within, Up, Unicast, EnvType
          <6> QED
            BY <2>3, <2>5, <3>4, <4>1, <6>1
        <5>4. CASE /\ b.method # "alert"
                   /\ x = Cleared(o.env, FamilyOf(b.method)) \/ x = Leaked(o.env, FamilyOf(b.method))
          <6>1. Matches(x, o.method)
            BY <1>1, <2>2, <3>2, <3>4, <4>3, <5>4, WithdrawnMatches
          <6> QED
            BY <2>3, <2>5, <3>4, <4>1, <6>1
        <5> QED
          BY <5>2, <5>3, <5>4
      <4> QED
        BY <4>2, <4>3
    <3> QED
      BY <2>2, <3>3, <3>4
  <2> QED
    BY <1>1, <2>4, <2>5
<1> QED
  BY <1>3, <1>4

\* A sweep leaves each target consistent.
LEMMA SweepOneGood ==
  ASSUME NEW dry, NEW t \in Target, NEW b \in BanType, NEW e \in EnvType, NEW c \in Config,
         c.dryRun = dry, Good(Slot(b, e), dry), NEW s \in SweepOne(t, b, e, c)
  PROVE  Good(s, dry)
<1>1. CASE s = Slot(b, e)
  BY <1>1
<1>2. CASE b.active /\ s \in Withdraw(b, e)
  BY <1>2, WithdrawGood
<1>3. CASE b.active /\ \E i \in TopDue(b) : s \in ClimbTo(i, b, e, c)
  BY <1>3, ClimbToGood DEF TopDue
<1> QED
  BY <1>1, <1>2, <1>3 DEF SweepOne, Escalate

\* Only whether a ban is active, real and on which rung and method matters.
LEMMA SameBanGood ==
  ASSUME NEW dry, NEW b, NEW x, NEW e, Good(Slot(b, e), dry),
         x.active = b.active, x.method = b.method, x.dryRun = b.dryRun, x.step = b.step,
         x.ladder = b.ladder
  PROVE  Good(Slot(x, e), dry)
  BY DEF Good, Slot, Frozen, OnLadder, Enforcing

\* A renewal that fails may lose kernel rules, and nothing else.
LEMMA RenewalsGood ==
  ASSUME NEW dry, NEW t \in Target, NEW b \in BanType, NEW e \in EnvType, NEW c \in Config,
         Good(Slot(b, e), dry), NEW s \in Renewals(t, b, e, c)
  PROVE  Good(s, dry)
<1>1. CASE s = Slot(b, e)
  BY <1>1
<1>2. ASSUME NeedsRenewal(t, b, c), NEW o \in InstallDataplane(e, b.left),
             s = Slot(IF o.ok THEN [b EXCEPT !.dpAge = 0] ELSE b, o.env)
      PROVE  Good(s, dry)
  <2> DEFINE x == IF o.ok THEN [b EXCEPT !.dpAge = 0] ELSE b
  <2>1. /\ b.active /\ b.method = "dataplane" /\ ~b.dryRun /\ b.left \in -1..Horizon
        /\ Matches(e, "dataplane")
    BY <1>2 DEF NeedsRenewal, Good, Slot, Enforcing, BanType
  <2>2. \/ o.env = Installed(e, "dataplane", b.left)
        \/ o.env = e
        \/ o.env = Cleared(e, "dataplane")
    BY <2>1, InstallDataplaneCases
  <2>3. Matches(o.env, "dataplane")
    <3>1. CASE o.env = Installed(e, "dataplane", b.left)
      <4>1. Installed(e, "dataplane", b.left)
              = [e EXCEPT !.kernel = b.left, !.leaked = e.leaked \ {"dataplane"}]
        BY DEF Installed, Unicast
      <4>2. /\ o.env.route = e.route /\ o.env.flowspec = e.flowspec
            /\ o.env.leaked = e.leaked \ {"dataplane"}
        BY <3>1, <4>1 DEF EnvType
      <4> QED
        BY <2>1, <4>2 DEF Matches, Within, Up, Unicast
    <3>2. CASE o.env = Cleared(e, "dataplane")
      BY <2>1, <3>2, ClearedFields DEF Matches, Within, Up, Unicast
    <3> QED
      BY <2>1, <2>2, <3>1, <3>2
  <2>4. /\ x.active = b.active /\ x.method = b.method /\ x.dryRun = b.dryRun
        /\ x.step = b.step /\ x.ladder = b.ladder
    BY DEF BanType
  <2>5. Good(Slot(b, o.env), dry)
    BY <2>1, <2>3 DEF Good, Slot, Enforcing
  <2> HIDE DEF x
  <2>6. Good(Slot(x, o.env), dry)
    BY <2>4, <2>5, SameBanGood
  <2> QED
    BY <1>2, <2>6 DEF x
<1> QED
  BY <1>1, <1>2 DEF Renewals

\* A tick lets kernel rules lapse, and changes neither method nor dry-run.
LEMMA AgedGood ==
  ASSUME NEW dry, NEW b \in BanType, NEW e \in EnvType, Good(Slot(b, e), dry)
  PROVE  Good(Slot(Aged(b), Lapse(e)), dry)
<1>1. /\ Aged(b).active = b.active /\ Aged(b).method = b.method
      /\ Aged(b).dryRun = b.dryRun /\ Aged(b).step = b.step /\ Aged(b).ladder = b.ladder
  BY DEF Aged, BanType
<1>2. /\ Lapse(e).route = e.route /\ Lapse(e).flowspec = e.flowspec
      /\ Lapse(e).kernel > 0 => e.kernel > 0 /\ Lapse(e).leaked = e.leaked
      /\ Lapse(e).leaked \in {e.leaked, e.leaked \ {"dataplane"}}
  <2>1. CASE e.kernel <= 1
    BY <2>1, ClearedFields DEF Lapse
  <2>2. CASE ~(e.kernel <= 1)
    <3>1. e.kernel \in Int /\ Lapse(e) = [e EXCEPT !.kernel = e.kernel - 1]
      BY <2>2, ConfigAssumption DEF Lapse, EnvType
    <3> QED
      BY <2>2, <3>1 DEF EnvType
  <2> QED
    BY <2>1, <2>2
<1>3. \A m : Matches(e, m) => Matches(Lapse(e), m)
  BY <1>2 DEF Matches, Within, Up
<1>4. Good(Slot(b, Lapse(e)), dry)
  BY <1>3 DEF Good, Slot
<1> QED
  BY <1>1, <1>4, SameBanGood

\* A new ban is on the method its first rung went up with.
LEMMA AdmitGood ==
  ASSUME NEW dry, NEW b \in BanType, NEW e \in EnvType, ~b.active, Good(Slot(b, e), dry),
         NEW c \in Config, c.dryRun = dry, NEW n \in BanType, n.active, n.dryRun = dry,
         Len(n.ladder) > 0,
         NEW m \in Method, NEW o \in AnnounceStage(e, m, c, n.left)
  PROVE  /\ o.ok => Good(Slot(OnRung(n, 1, o.method, c), o.env), dry)
         /\ ~o.ok => Good(Slot(b, o.env), dry)
<1>1. Matches(e, "alert") /\ "alert" \in Method /\ n.left \in -1..Horizon
  BY DEF Good, Slot, Enforcing, Method, BanType
<1>2. o.ok \in BOOLEAN /\ o.env \in EnvType /\ o.method \in Method
  BY <1>1, AnnounceStageTyped
<1>3. /\ OnRung(n, 1, o.method, c).active = n.active
      /\ OnRung(n, 1, o.method, c).dryRun = c.dryRun
      /\ OnRung(n, 1, o.method, c).step = 1 /\ OnRung(n, 1, o.method, c).ladder = n.ladder
      /\ OnRung(n, 1, o.method, c).method = o.method
  BY DEF OnRung, BanType
<1>4. Frozen(OnRung(n, 1, o.method, c), dry) /\ OnLadder(OnRung(n, 1, o.method, c))
  <2>1. Len(n.ladder) \in Nat
    BY DEF BanType
  <2> QED
    BY <1>3, <2>1 DEF Frozen, OnLadder
<1>5. CASE c.dryRun
  <2>1. o.ok /\ o.env = e
    BY <1>1, <1>5, AnnounceStageDry
  <2> QED
    BY <1>1, <1>3, <1>4, <1>5, <2>1 DEF Good, Slot, Enforcing
<1>6. CASE ~c.dryRun
  <2>1. /\ o.ok => Between(o.env, "alert", o.method)
        /\ ~o.ok => Matches(o.env, "alert")
    BY <1>1, <1>6, AnnounceStageLeaves
  <2>2. o.ok => Matches(o.env, o.method)
    BY <1>2, <2>1 DEF Matches, Between, Within, Up, Unicast, EnvType
  <2>3. o.ok => Good(Slot(OnRung(n, 1, o.method, c), o.env), dry)
    BY <1>3, <1>4, <1>6, <2>2 DEF Good, Slot, Enforcing
  <2>4. ~o.ok => Good(Slot(b, o.env), dry)
    BY <2>1 DEF Good, Slot, Enforcing, Frozen, OnLadder
  <2> QED
    BY <2>3, <2>4
<1> QED
  BY <1>5, <1>6

\* A ban announced anew on its own method, with nothing up before that it is on.
LEMMA RestoredGood ==
  ASSUME NEW c \in Config, NEW b \in BanType, b.active, b.dryRun = c.dryRun, OnLadder(b),
         NEW left \in -1..Horizon, NEW e \in EnvType, Matches(e, "alert"),
         NEW o \in AnnounceMethod(e, b.method, c, left)
  PROVE  /\ o.ok \in BOOLEAN /\ o.env \in EnvType
         /\ o.ok => Good(Slot(b, o.env), c.dryRun)
         /\ ~o.ok => Good(Slot(NoBan, o.env), c.dryRun)
<1>1. "alert" \in Method
  BY DEF Method
<1>2. b.method \in Method /\ c.dryRun \in BOOLEAN
  BY ConfigTyped, ConfigAssumption DEF BanType, ConfigType
<1>3. o.ok \in BOOLEAN /\ o.env \in EnvType
  BY <1>1, <1>2, AnnounceMethodTyped
<1>4. Enforcing(NoBan) = "alert" /\ Frozen(NoBan, c.dryRun) /\ OnLadder(NoBan)
  BY DEF Enforcing, NoBan, Frozen, OnLadder
<1>5. CASE c.dryRun
  <2>1. o = [ok |-> TRUE, env |-> e]
    BY <1>5 DEF AnnounceMethod
  <2> QED
    BY <1>1, <1>3, <1>5, <2>1 DEF Good, Slot, Frozen, Enforcing
<1>6. CASE ~c.dryRun
  <2>1. (o.ok => Between(o.env, "alert", b.method)) /\ (~o.ok => Matches(o.env, "alert"))
    BY <1>1, <1>2, <1>6, AnnounceMethodLeaves
  <2>2. o.ok => Matches(o.env, b.method)
    BY <1>2, <1>3, <2>1 DEF Matches, Between, Within, Up, Unicast, EnvType
  <2> QED
    BY <1>3, <1>4, <1>6, <2>1, <2>2 DEF Good, Slot, Frozen, Enforcing
<1> QED
  BY <1>5, <1>6

---------------------------------------------------------------------------
(* What a handler makes of the tables.                                     *)

\* A target put in a consistent slot leaves the others as they are.
LEMMA PutGood ==
  ASSUME NEW dry, TypeOK, Consistent(dry), NEW t \in Target, NEW STATE s, Good(s, dry),
         Put(t, s)
  PROVE  Consistent(dry)'
<1> SUFFICES ASSUME NEW u \in Target
             PROVE  Good(Slot(ban'[u], env'[u]), dry)
  BY DEF Consistent
<1>1. /\ ban' = [ban EXCEPT ![t] = s.ban] /\ env' = [env EXCEPT ![t] = s.env]
      /\ ban \in [Target -> BanType] /\ env \in [Target -> EnvType]
  BY DEF Put, TypeOK
<1>2. CASE u = t
  BY <1>1, <1>2 DEF Good, Slot
<1>3. CASE u # t
  BY <1>1, <1>3 DEF Consistent
<1> QED
  BY <1>2, <1>3

\* A pass that leaves every target consistent.
LEMMA EachGood ==
  ASSUME NEW dry, NEW STATE outcomes, \A t \in Target : \A s \in outcomes[t] : Good(s, dry),
         Each(outcomes)
  PROVE  Consistent(dry)'
<1>1. PICK f : /\ \A t \in Target : f[t] \in outcomes[t]
               /\ ban' = [t \in Target |-> f[t].ban]
               /\ env' = [t \in Target |-> f[t].env]
  BY DEF Each
<1> SUFFICES ASSUME NEW u \in Target
             PROVE  Good(Slot(ban'[u], env'[u]), dry)
  BY DEF Consistent
<1>2. Good(f[u], dry) /\ ban'[u] = f[u].ban /\ env'[u] = f[u].env
  BY <1>1
<1> QED
  BY <1>2 DEF Good, Slot

\* What a call makes of one target, or of none.
Calls(t) ==
  \/ UNCHANGED <<ban, env>>
  \/ \E x : /\ ban' = [ban EXCEPT ![t] = x] /\ env' = env
            /\ x.active = ban[t].active /\ x.method = ban[t].method
            /\ x.dryRun = ban[t].dryRun /\ x.step = ban[t].step /\ x.ladder = ban[t].ladder
  \/ \E s \in Withdraw(ban[t], env[t]) : ban[t].active /\ Put(t, s)

\* A call that keeps the ban's method, or withdraws it, keeps the tables
\* consistent.
LEMMA CallsGood ==
  ASSUME NEW dry, TypeOK, Consistent(dry), NEW t \in Target, Calls(t)
  PROVE  Consistent(dry)'
<1>1. CASE UNCHANGED <<ban, env>>
  BY <1>1 DEF Consistent, Good, Slot
<1>2. ASSUME NEW x, ban' = [ban EXCEPT ![t] = x], env' = env,
             x.active = ban[t].active, x.method = ban[t].method,
             x.dryRun = ban[t].dryRun, x.step = ban[t].step, x.ladder = ban[t].ladder
      PROVE  Consistent(dry)'
  <2>1. Good(Slot(x, env[t]), dry)
    BY <1>2, SameBanGood DEF Consistent
  <2> SUFFICES ASSUME NEW u \in Target
               PROVE  Good(Slot(ban'[u], env'[u]), dry)
    BY DEF Consistent
  <2> QED
    BY <1>2, <2>1 DEF Consistent, TypeOK
<1>3. ASSUME NEW s \in Withdraw(ban[t], env[t]), ban[t].active, Put(t, s)
      PROVE  Consistent(dry)'
  <2>1. Good(s, dry)
    BY <1>3, WithdrawGood DEF Consistent, TypeOK
  <2> QED
    BY <1>3, <2>1, PutGood
<1> QED
  BY <1>1, <1>2, <1>3 DEF Calls

\* A refused, refreshed or admitted ban keeps the tables consistent.
LEMMA BanCallGood ==
  ASSUME NEW dry, TypeOK, Consistent(dry), NEW w \in Worker, NEW t \in Target,
         NEW ladder \in Seq(Rung), Len(ladder) > 0, ladder[1] \in Rung, NEW dirs \in SUBSET Direction,
         NEW manual \in BOOLEAN, held[w] # NoConfig, held[w].dryRun = dry,
         Refuse(w, t) \/ Refresh(w, t, dirs) \/ Admit(w, t, ladder, dirs, manual)
  PROVE  Consistent(dry)'
<1> DEFINE c == held[w]
           n == NewBan(c, ladder, dirs, manual)
<1>1. /\ c \in Config /\ c.dryRun = dry /\ n \in BanType /\ n.active /\ n.dryRun = dry /\ Len(n.ladder) > 0
      /\ ladder[1].action \in Method
  BY NewBanTyped DEF TypeOK, Caller, Rung, NewBan
<1>2. ban[t] \in BanType /\ env[t] \in EnvType /\ Good(Slot(ban[t], env[t]), dry)
  BY DEF TypeOK, Consistent
<1>3. CASE Refuse(w, t)
  BY <1>3, CallsGood DEF Calls, Refuse
<1>4. CASE Refresh(w, t, dirs)
  <2> DEFINE x == [ban[t] EXCEPT !.left = held[w].ttl, !.dirs = @ \cup dirs]
  <2>1. ban' = [ban EXCEPT ![t] = x] /\ env' = env
    BY <1>2, <1>4 DEF Refresh, TypeOK, BanType
  <2>2. /\ x.active = ban[t].active /\ x.method = ban[t].method /\ x.dryRun = ban[t].dryRun
        /\ x.step = ban[t].step /\ x.ladder = ban[t].ladder
    BY <1>2 DEF BanType
  <2> HIDE DEF x
  <2> QED
    BY <2>1, <2>2, CallsGood DEF Calls
<1>5. CASE Admit(w, t, ladder, dirs, manual)
  <2>1. PICK o \in AnnounceStage(env[t], ladder[1].action, c, n.left) :
           IF o.ok
           THEN Put(t, Slot(OnRung(n, 1, o.method, c), o.env))
           ELSE Put(t, Slot(ban[t], o.env))
    BY <1>5 DEF Admit
  <2>2. ~ban[t].active
    BY <1>5 DEF Admit
  <2> HIDE DEF n, c
  <2>3. /\ o.ok => Good(Slot(OnRung(n, 1, o.method, c), o.env), dry)
        /\ ~o.ok => Good(Slot(ban[t], o.env), dry)
    BY <1>1, <1>2, <2>2, AdmitGood
  <2>4. PICK s : Good(s, dry) /\ Put(t, s)
    BY <2>1, <2>3
  <2> QED
    BY <2>4, PutGood
<1> QED
  BY <1>3, <1>4, <1>5

\* A heartbeat keeps the tables consistent.
LEMMA HeartbeatGood ==
  ASSUME NEW dry, TypeOK, Consistent(dry), NEW w \in Worker, NEW t \in Target,
         NEW dirs \in SUBSET Direction, Heartbeat(w, t, dirs)
  PROVE  Consistent(dry)'
<1> DEFINE c == held[w]
           Now(u) == IF u = t THEN Kept(t, dirs, c) ELSE ban[u]
           R == [u \in Target |-> Renewals(u, Now(u), env[u], c)]
<1>1. c \in Config
  BY DEF TypeOK, Caller, Heartbeat
<1>2. \A u \in Target : Now(u) \in BanType /\ Good(Slot(Now(u), env[u]), dry)
  <2>1. c.ttl \in -1..Horizon
    BY <1>1, ConfigTyped, ConfigAssumption DEF ConfigType
  <2>2. \A u \in Target : ban[u] \in BanType /\ Good(Slot(ban[u], env[u]), dry)
    BY DEF TypeOK, Consistent
  <2> HIDE DEF c
  <2>3. Kept(t, dirs, c) \in BanType
    BY <2>1, <2>2 DEF Kept, BanType
  <2>4. /\ Kept(t, dirs, c).active = ban[t].active
        /\ Kept(t, dirs, c).method = ban[t].method
        /\ Kept(t, dirs, c).dryRun = ban[t].dryRun
        /\ Kept(t, dirs, c).step = ban[t].step /\ Kept(t, dirs, c).ladder = ban[t].ladder
    BY <2>2 DEF Kept, BanType
  <2>5. Good(Slot(Kept(t, dirs, c), env[t]), dry)
    BY <2>2, <2>4, SameBanGood
  <2> QED
    BY <2>2, <2>3, <2>5
<1>3. \A u \in Target : \A s \in R[u] : Good(s, dry)
  <2> TAKE u \in Target
  <2>1. env[u] \in EnvType
    BY DEF TypeOK
  <2> HIDE DEF Now, c
  <2> QED
    BY <1>1, <1>2, <2>1, RenewalsGood
<1>4. Each(R) \/ UNCHANGED <<ban, env>>
  BY DEF Heartbeat
<1> HIDE DEF R
<1> QED
  BY <1>3, <1>4, EachGood, CallsGood DEF Calls

\* Each action on its own keeps the tables consistent.
LEMMA NextConsistent ==
  ASSUME NEW dry, TypeOK, Consistent(dry), Reads(dry), [Next]_vars
  PROVE  Consistent(dry)'
<1>1. ASSUME NEW w \in Caller, Begin(w)
      PROVE  Consistent(dry)'
  BY <1>1 DEF Begin, Consistent
<1>2. ASSUME NEW w \in Worker, NEW h \in Host, NEW d \in Direction, OnAttackStarted(w, h, d)
      PROVE  Consistent(dry)'
  <2>1. h \in Target /\ {d} \in SUBSET Direction /\ held[w] # NoConfig
    BY <1>2 DEF Target, OnAttackStarted
  <2>2. /\ held[w].ladder \in Seq(Rung) /\ held[w].ladder[1] \in Rung
        /\ Len(held[w].ladder) > 0 /\ held[w].dryRun = dry
    BY <2>1, ConfigTyped, ConfigAssumption DEF TypeOK, Caller, ConfigType, Reads
  <2> QED
    BY <1>2, <2>1, <2>2, BanCallGood DEF OnAttackStarted
<1>3. ASSUME NEW w \in Worker, NEW h \in Host, NEW d \in Direction, OnAttackOngoing(w, h, d)
      PROVE  Consistent(dry)'
  BY <1>3, HeartbeatGood DEF OnAttackOngoing, Target
<1>4. ASSUME NEW h \in Host, NEW d \in Direction, OnAttackEnded(h, d)
      PROVE  Consistent(dry)'
  <2> DEFINE x == [ban[h] EXCEPT !.dirs = ban[h].dirs \ {d}]
  <2>1. h \in Target /\ ban[h] \in BanType
    BY DEF TypeOK, Target
  <2>2. /\ x.active = ban[h].active /\ x.method = ban[h].method /\ x.dryRun = ban[h].dryRun
        /\ x.step = ban[h].step /\ x.ladder = ban[h].ladder
    BY <2>1 DEF BanType
  <2>3. \/ ban' = [ban EXCEPT ![h] = x] /\ env' = env
        \/ \E s \in Withdraw(ban[h], env[h]) : ban[h].active /\ Put(h, s)
    BY <1>4 DEF OnAttackEnded
  <2> HIDE DEF x
  <2> QED
    BY <2>1, <2>2, <2>3, CallsGood DEF Calls
<1>5. ASSUME NEW w \in Worker, NEW h \in Host, ManualBan(w, h)
      PROVE  Consistent(dry)'
  <2>1. h \in Target /\ {} \in SUBSET Direction /\ held[w] # NoConfig
    BY <1>5 DEF Target, ManualBan
  <2>2. /\ held[w].ladder \in Seq(Rung) /\ held[w].ladder[1] \in Rung
        /\ Len(held[w].ladder) > 0 /\ held[w].dryRun = dry
    BY <2>1, ConfigTyped, ConfigAssumption DEF TypeOK, Caller, ConfigType, Reads
  <2> QED
    BY <1>5, <2>1, <2>2, BanCallGood DEF ManualBan
<1>6. ASSUME NEW h \in Host, ManualUnban(h)
      PROVE  Consistent(dry)'
  BY <1>6, CallsGood DEF ManualUnban, Target, Calls
<1>7. ASSUME NEW w \in Worker, NEW p \in Prefix, OnCarpetStarted(w, p)
      PROVE  Consistent(dry)'
  <2> DEFINE ladder == <<[after |-> 0, action |-> held[w].carpet]>>
  <2>1. p \in Target /\ {} \in SUBSET Direction /\ held[w] # NoConfig
    BY <1>7 DEF Target, OnCarpetStarted
  <2>2. [after |-> 0, action |-> held[w].carpet] \in Rung
    BY <2>1, ConfigTyped, ConfigAssumption DEF TypeOK, Caller, ConfigType, Rung
  <2>3. ladder \in Seq(Rung) /\ Len(ladder) > 0 /\ ladder[1] \in Rung /\ held[w].dryRun = dry
    BY <2>1, <2>2 DEF Reads, Caller
  <2>4. \/ UNCHANGED <<ban, env>>
        \/ Refuse(w, p) \/ Refresh(w, p, {}) \/ Admit(w, p, ladder, {}, FALSE)
    BY <1>7 DEF OnCarpetStarted
  <2> HIDE DEF ladder
  <2> QED
    BY <2>1, <2>3, <2>4, BanCallGood, CallsGood DEF Calls
<1>8. ASSUME NEW w \in Worker, NEW p \in Prefix, OnCarpetOngoing(w, p)
      PROVE  Consistent(dry)'
  BY <1>8, HeartbeatGood DEF OnCarpetOngoing, Target
<1>9. ASSUME NEW p \in Prefix, OnCarpetEnded(p)
      PROVE  Consistent(dry)'
  BY <1>9, CallsGood DEF OnCarpetEnded, Target, Calls
<1>10. CASE Sweep
  <2> DEFINE c == held[Sweeper]
             S == [t \in Target |-> SweepOne(t, ban[t], env[t], c)]
  <2>1. c \in Config /\ c.dryRun = dry
    BY <1>10 DEF Sweep, TypeOK, Caller, Reads
  <2>2. \A t \in Target : \A s \in S[t] : Good(s, dry)
    BY <2>1, SweepOneGood DEF TypeOK, Consistent
  <2>3. Each(S)
    BY <1>10 DEF Sweep
  <2> HIDE DEF S
  <2> QED
    BY <2>2, <2>3, EachGood
<1>11. CASE Reload
  BY <1>11 DEF Reload, Consistent
<1>12. CASE Tick
  <2>1. \A t \in Target : Good(Slot(Aged(ban[t]), Lapse(env[t])), dry)
    BY AgedGood DEF TypeOK, Consistent
  <2> QED
    BY <1>12, <2>1 DEF Tick, Consistent
<1>13. CASE UNCHANGED vars
  BY <1>13 DEF vars, Consistent
<1> QED
  BY <1>1, <1>2, <1>3, <1>4, <1>5, <1>6, <1>7, <1>8, <1>9, <1>10, <1>11, <1>12, <1>13
  DEF Next

---------------------------------------------------------------------------
(* Enforcement.                                                            *)

\* No ban and nothing up.
LEMMA InitConsistent ==
  ASSUME NEW dry, Init
  PROVE  Consistent(dry)
  BY DEF Init, Consistent, Good, Slot, Frozen, OnLadder, Matches, Within, Up, Enforcing,
         NoBan, NothingUp, Unicast

\* No step breaks the inductive invariant while no reload flips dry_run, and every
\* caller has a configuration that agrees with the current one on it.
LEMMA StaysConsistent ==
  ASSUME DryRunFixed, IInv, [Next]_vars
  PROVE  IInv' /\ Reads(cfg.dryRun)
<1>1. TypeOK /\ TypeOK' /\ cfg.dryRun = cfg'.dryRun
  BY NextTyped DEF IInv, TypeOK, DryRunFixed
<1>2. Reads(cfg.dryRun)
  BY <1>1 DEF Reads, TypeOK, DryRunFixed
<1>3. PICK dry : dry = cfg.dryRun
  OBVIOUS
<1>4. Consistent(dry)'
  BY <1>1, <1>2, <1>3, NextConsistent DEF IInv
<1> QED
  BY <1>1, <1>2, <1>3, <1>4 DEF IInv

\* The inductive invariant holds for ever while no reload flips dry_run.
LEMMA AlwaysConsistent ==
  ASSUME DryRunFixed
  PROVE  Spec => []IInv
<1>1. Init => IInv
  BY InitTyped, InitConsistent DEF IInv
<1>2. IInv /\ [Next]_vars => IInv'
  BY StaysConsistent
<1> QED
  BY <1>1, <1>2, PTL DEF Spec

\* What the network and the kernel enforce for a target is what its active,
\* real ban is on, leaks that were logged aside: no escalation, fallback,
\* rollback, refresh, renewal or sweep strands a mitigation, whatever calls
\* overlap and whatever backends refuse (escalateLocked, withdrawMethodLocked).
THEOREM EnforcementExact ==
  ASSUME DryRunFixed
  PROVE  Spec => []NoStrandedMitigation
<1>1. IInv => NoStrandedMitigation
  BY DEF IInv, Consistent, NoStrandedMitigation, Good, Slot, Matches, Within
<1> QED
  BY <1>1, AlwaysConsistent, PTL

\* The method reported for a real, active ban is the one that is up, also while
\* the ban moves from rung to rung and when it fell back to a blackhole.
THEOREM ReportedTrue ==
  ASSUME DryRunFixed
  PROVE  Spec => []ReportedIsEnforced
<1>1. IInv => ReportedIsEnforced
  BY DEF IInv, Consistent, ReportedIsEnforced, Good, Slot, Matches, Up
<1> QED
  BY <1>1, AlwaysConsistent, PTL
---------------------------------------------------------------------------
(* Deadlines.                                                              *)

\* What a caller or the sweep does with the tables, the ticker and a reload apart.
Call ==
  \/ \E w \in Caller : Begin(w)
  \/ \E w \in Worker, h \in Host, d \in Direction :
       OnAttackStarted(w, h, d) \/ OnAttackOngoing(w, h, d) \/ OnAttackEnded(h, d)
  \/ \E w \in Worker, h \in Host : ManualBan(w, h) \/ ManualUnban(h)
  \/ \E w \in Worker, p \in Prefix :
       OnCarpetStarted(w, p) \/ OnCarpetOngoing(w, p) \/ OnCarpetEnded(p)
  \/ Sweep

\* A call is a step.
LEMMA CallMoves ==
  ASSUME Call
  PROVE  Next
  BY DEF Call, Next

\* A ban that is active after a call has the deadline it had, or a ttl from now.
SameDeadline(t) == ban[t].active /\ ban'[t].left = ban[t].left
Deadlines(ttl) ==
  \A t \in Target : ban'[t].active => SameDeadline(t) \/ ban'[t].left = ttl

\* A call keeps the configuration, and leaves its caller with it or with none.
LEMMA CallKeeps ==
  ASSUME TypeOK, Call
  PROVE  cfg' = cfg /\ \A w \in Caller : held'[w] \in {held[w], NoConfig, cfg}
<1>1. held \in [Caller -> Config \cup {NoConfig}]
  BY DEF TypeOK
<1>2. ASSUME NEW w \in Caller, Returns(w), cfg' = cfg  PROVE  \A x \in Caller : held'[x] \in {held[x], NoConfig, cfg}
  BY <1>1, <1>2 DEF Returns
<1>3. ASSUME NEW w \in Caller, Begin(w)
      PROVE  cfg' = cfg /\ \A x \in Caller : held'[x] \in {held[x], NoConfig, cfg}
  BY <1>1, <1>3 DEF Begin
<1>4. ASSUME NEW w \in Worker, NEW t, NEW dirs, NEW ladder, NEW manual,
             Refuse(w, t) \/ Refresh(w, t, dirs) \/ Admit(w, t, ladder, dirs, manual) \/ Heartbeat(w, t, dirs)
      PROVE  cfg' = cfg /\ \A x \in Caller : held'[x] \in {held[x], NoConfig, cfg}
  <2>1. w \in Caller /\ Returns(w) /\ cfg' = cfg
    BY <1>4 DEF Refuse, Refresh, Admit, Heartbeat, Caller
  <2> QED
    BY <1>2, <2>1
<1>5. ASSUME NEW w \in Worker, NEW h \in Host, NEW d \in Direction,
             OnAttackStarted(w, h, d) \/ OnAttackOngoing(w, h, d) \/ OnAttackEnded(h, d)
      PROVE  cfg' = cfg /\ \A x \in Caller : held'[x] \in {held[x], NoConfig, cfg}
  BY <1>4, <1>5 DEF OnAttackStarted, OnAttackOngoing, OnAttackEnded
<1>6. ASSUME NEW w \in Worker, NEW h \in Host, ManualBan(w, h) \/ ManualUnban(h)
      PROVE  cfg' = cfg /\ \A x \in Caller : held'[x] \in {held[x], NoConfig, cfg}
  BY <1>4, <1>6 DEF ManualBan, ManualUnban
<1>7. ASSUME NEW w \in Worker, NEW p \in Prefix,
             OnCarpetStarted(w, p) \/ OnCarpetOngoing(w, p) \/ OnCarpetEnded(p)
      PROVE  cfg' = cfg /\ \A x \in Caller : held'[x] \in {held[x], NoConfig, cfg}
  <2>1. CASE OnCarpetStarted(w, p)
    <3>1. CASE Returns(w) /\ cfg' = cfg
      BY <1>2, <3>1 DEF Caller
    <3> QED
      BY <1>4, <2>1, <3>1 DEF OnCarpetStarted
  <2>2. CASE OnCarpetOngoing(w, p) \/ OnCarpetEnded(p)
    BY <1>4, <2>2 DEF OnCarpetOngoing, OnCarpetEnded
  <2> QED
    BY <1>7, <2>1, <2>2
<1>8. CASE Sweep
  BY <1>2, <1>8 DEF Sweep, Caller
<1> QED
  BY <1>3, <1>5, <1>6, <1>7, <1>8 DEF Call

\* A renewal moves the age of the kernel rules and nothing else of a ban.
LEMMA RenewalKeeps ==
  ASSUME NEW t, NEW b, NEW e, NEW c, NEW s \in Renewals(t, b, e, c)
  PROVE  s.ban = b \/ s.ban = [b EXCEPT !.dpAge = 0]
<1>1. CASE s = Slot(b, e)
  BY <1>1 DEF Slot
<1>2. CASE \E o \in InstallDataplane(e, b.left) :
             s = Slot(IF o.ok THEN [b EXCEPT !.dpAge = 0] ELSE b, o.env)
  BY <1>2 DEF Slot
<1> QED
  BY <1>1, <1>2 DEF Renewals

\* A climb changes the rung, and neither the deadline nor whether the ban is active.
LEMMA ClimbKeeps ==
  ASSUME NEW i, NEW b \in BanType, NEW e, NEW c, NEW s \in ClimbTo(i, b, e, c)
  PROVE  s.ban.active = b.active /\ s.ban.left = b.left
<1>1. PICK x, m : \/ s = Slot([b EXCEPT !.step = i], x)
                  \/ s = Slot(OnRung(b, i, m, c), x)
                  \/ s = Slot(b, x)
  <2>1. CASE b.ladder[i].action = b.method
    BY <2>1 DEF ClimbTo
  <2>2. CASE b.ladder[i].action # b.method
    <3>1. PICK o \in AnnounceStage(e, b.ladder[i].action, c, b.left) :
            s \in IF o.ok
                  THEN {Slot(OnRung(b, i, o.method, c), x) : x \in Superseded(b, o)}
                  ELSE {Slot(b, o.env)}
      BY <2>2 DEF ClimbTo
    <3> QED
      BY <3>1
  <2> QED
    BY <2>1, <2>2
<1>2. CASE s = Slot([b EXCEPT !.step = i], x)
  BY <1>2 DEF Slot, BanType
<1>3. CASE s = Slot(OnRung(b, i, m, c), x)
  BY <1>3 DEF Slot, OnRung, BanType
<1>4. CASE s = Slot(b, x)
  BY <1>4 DEF Slot
<1> QED
  BY <1>1, <1>2, <1>3, <1>4

\* A heartbeat gives the ban it names a ttl from now; of every other field of a ban it
\* changes only the directions and the age of the kernel rules.
LEMMA HeartbeatKeeps ==
  ASSUME TypeOK, NEW w \in Worker, NEW t \in Target, NEW dirs \in SUBSET Direction,
         Heartbeat(w, t, dirs),
         NEW u \in Target
  PROVE  /\ ban'[u].active = ban[u].active /\ ban'[u].dryRun = ban[u].dryRun
         /\ ban'[u].manual = ban[u].manual /\ ban'[u].age = ban[u].age
         /\ ban'[u].method = ban[u].method /\ ban'[u].step = ban[u].step
         /\ ban'[u].ladder = ban[u].ladder
         /\ ban'[u].left = IF u = t /\ ban[t].active /\ (t \in Prefix => ~Spared(t, held[w]))
                           THEN held[w].ttl ELSE ban[u].left
<1> DEFINE c == held[w]
           Now(x) == IF x = t THEN Kept(t, dirs, c) ELSE ban[x]
           R == [x \in Target |-> Renewals(x, Now(x), env[x], c)]
<1>1. ban \in [Target -> BanType]
  BY DEF TypeOK
<1>2. CASE UNCHANGED ban /\ (~ban[t].active \/ (t \in Prefix /\ Spared(t, c)))
  BY <1>2
<1>3. CASE Each(R) /\ ban[t].active /\ (t \in Prefix => ~Spared(t, c))
  <2>1. PICK f \in [Target -> UNION {R[x] : x \in Target}] :
          (\A x \in Target : f[x] \in R[x]) /\ ban' = [x \in Target |-> f[x].ban]
    <3> HIDE DEF R
    <3> QED
      BY <1>3 DEF Each
  <2>2. f[u] \in Renewals(u, Now(u), env[u], c) /\ ban'[u] = f[u].ban
    BY <2>1
  <2>3. ban'[u] = Now(u) \/ ban'[u] = [Now(u) EXCEPT !.dpAge = 0]
    <3> HIDE DEF Now
    <3> QED
      BY <2>2, RenewalKeeps
  <2>4. CASE u = t
    <3>1. Now(u) = [ban[t] EXCEPT !.left = c.ttl, !.dirs = ban[t].dirs \cup dirs]
      BY <2>4 DEF Kept
    <3>2. /\ Now(u).active = ban[u].active /\ Now(u).dryRun = ban[u].dryRun
          /\ Now(u).manual = ban[u].manual /\ Now(u).age = ban[u].age
          /\ Now(u).method = ban[u].method /\ Now(u).step = ban[u].step
          /\ Now(u).ladder = ban[u].ladder /\ Now(u).left = c.ttl
      BY <1>1, <2>4, <3>1 DEF BanType
    <3>4. Now(u) \in BanType
      <4>1. c \in Config
        BY <1>3 DEF TypeOK, Caller, Heartbeat
      <4>2. c.ttl \in -1..Horizon
        BY <4>1, ConfigTyped, ConfigAssumption DEF ConfigType
      <4> HIDE DEF c
      <4> QED
        BY <1>1, <3>1, <4>2 DEF BanType
    <3> HIDE DEF Now
    <3>3. /\ ban'[u].active = Now(u).active /\ ban'[u].dryRun = Now(u).dryRun
          /\ ban'[u].manual = Now(u).manual /\ ban'[u].age = Now(u).age
          /\ ban'[u].method = Now(u).method /\ ban'[u].step = Now(u).step
          /\ ban'[u].ladder = Now(u).ladder /\ ban'[u].left = Now(u).left
      BY <2>3, <3>4 DEF BanType
    <3> QED
      BY <1>3, <2>4, <3>2, <3>3
  <2>5. CASE u # t
    <3>1. Now(u) = ban[u]
      BY <2>5
    <3> QED
      BY <1>1, <2>3, <2>5, <3>1 DEF BanType
  <2> QED
    BY <2>4, <2>5
<1> QED
  BY <1>2, <1>3 DEF Heartbeat

\* A refused, refreshed or admitted ban.
LEMMA BanCallDeadlines ==
  ASSUME TypeOK, NEW w \in Worker, NEW t \in Target, NEW ladder, NEW dirs, NEW manual,
         Refuse(w, t) \/ Refresh(w, t, dirs) \/ Admit(w, t, ladder, dirs, manual)
  PROVE  Deadlines(held[w].ttl)
<1>1. ban \in [Target -> BanType]
  BY DEF TypeOK
<1>2. CASE Refuse(w, t)
  BY <1>2 DEF Refuse, Deadlines, SameDeadline
<1>3. CASE Refresh(w, t, dirs)
  <2>1. ban' = [ban EXCEPT ![t] = [ban[t] EXCEPT !.left = held[w].ttl, !.dirs = ban[t].dirs \cup dirs]]
    BY <1>1, <1>3 DEF Refresh, BanType
  <2> QED
    BY <1>1, <2>1 DEF Deadlines, SameDeadline, BanType
<1>4. CASE Admit(w, t, ladder, dirs, manual)
  <2> DEFINE b == NewBan(held[w], ladder, dirs, manual)
  <2>1. PICK m : \/ ban' = [ban EXCEPT ![t] = OnRung(b, 1, m, held[w])]
                 \/ ban' = [ban EXCEPT ![t] = ban[t]]
    BY <1>4 DEF Admit, Put, Slot
  <2>2. OnRung(b, 1, m, held[w]).left = held[w].ttl
    BY DEF OnRung, NewBan
  <2> HIDE DEF b
  <2> QED
    BY <1>1, <2>1, <2>2 DEF Deadlines, SameDeadline
<1> QED
  BY <1>2, <1>3, <1>4

\* A sweep starts no deadline.
LEMMA SweepDeadlines ==
  ASSUME TypeOK, Sweep, NEW ttl
  PROVE  Deadlines(ttl)
<1> DEFINE c == held[Sweeper]
           R == [u \in Target |-> SweepOne(u, ban[u], env[u], c)]
<1>1. PICK f \in [Target -> UNION {R[u] : u \in Target}] :
        (\A u \in Target : f[u] \in R[u]) /\ ban' = [u \in Target |-> f[u].ban]
  <2>1. Each(R)
    BY DEF Sweep
  <2> HIDE DEF R
  <2> QED
    BY <2>1 DEF Each
<1> SUFFICES ASSUME NEW t \in Target, ban'[t].active
             PROVE  SameDeadline(t)
  BY DEF Deadlines
<1>2. f[t] \in SweepOne(t, ban[t], env[t], c) /\ ban'[t] = f[t].ban /\ ban[t] \in BanType
  BY <1>1 DEF TypeOK
<1>3. CASE f[t] = Slot(ban[t], env[t])
  BY <1>2, <1>3 DEF Slot, SameDeadline
<1>4. CASE f[t] \in Withdraw(ban[t], env[t])
  BY <1>2, <1>4 DEF Withdraw, Slot, NoBan
<1>5. CASE \E i \in TopDue(ban[t]) : f[t] \in ClimbTo(i, ban[t], env[t], c)
  BY <1>2, <1>5, ClimbKeeps DEF SameDeadline
<1> QED
  BY <1>2, <1>3, <1>4, <1>5 DEF SweepOne, Escalate

\* Every call: while all of them hold one configuration, it is that one's ttl.
LEMMA CallDeadlines ==
  ASSUME TypeOK, Call, \A w \in Caller : held[w] \in {NoConfig, cfg}
  PROVE  Deadlines(cfg.ttl)
<1>1. ban \in [Target -> BanType]
  BY DEF TypeOK
<1>2. ASSUME UNCHANGED ban  PROVE  Deadlines(cfg.ttl)
  BY <1>2 DEF Deadlines, SameDeadline
<1>3. ASSUME NEW w \in Worker, NEW t \in Target, NEW ladder, NEW dirs, NEW manual, held[w] # NoConfig,
             Refuse(w, t) \/ Refresh(w, t, dirs) \/ Admit(w, t, ladder, dirs, manual)
      PROVE  Deadlines(cfg.ttl)
  <2>1. held[w] = cfg
    BY <1>3 DEF Caller
  <2> QED
    BY <1>3, <2>1, BanCallDeadlines
<1>4. ASSUME NEW w \in Worker, NEW t \in Target, NEW dirs \in SUBSET Direction, Heartbeat(w, t, dirs)
      PROVE  Deadlines(cfg.ttl)
  <2>1. held[w] = cfg
    BY <1>4 DEF Caller, Heartbeat
  <2> QED
    BY <1>4, <2>1, HeartbeatKeeps DEF Deadlines, SameDeadline
<1>5. ASSUME NEW t \in Target, NEW s \in Withdraw(ban[t], env[t]), Put(t, s)
      PROVE  Deadlines(cfg.ttl)
  <2>1. ban' = [ban EXCEPT ![t] = NoBan]
    <3>1. PICK x : s = Slot(NoBan, x)
      BY <1>5 DEF Withdraw
    <3> QED
      BY <1>5, <3>1 DEF Slot, Put
  <2> QED
    BY <1>1, <2>1 DEF Deadlines, SameDeadline, NoBan
<1>6. ASSUME NEW h \in Host, NEW d \in Direction, OnAttackEnded(h, d)
      PROVE  Deadlines(cfg.ttl)
  <2>1. h \in Target
    BY DEF Target
  <2>2. CASE ban' = [ban EXCEPT ![h].dirs = ban[h].dirs \ {d}]
    BY <1>1, <2>1, <2>2 DEF Deadlines, SameDeadline, BanType
  <2> QED
    BY <1>5, <1>6, <2>1, <2>2 DEF OnAttackEnded
<1>7. ASSUME NEW w \in Worker, NEW h \in Host, NEW d \in Direction,
             OnAttackStarted(w, h, d) \/ OnAttackOngoing(w, h, d) \/ ManualBan(w, h) \/ ManualUnban(h)
      PROVE  Deadlines(cfg.ttl)
  BY <1>3, <1>4, <1>5, <1>7 DEF OnAttackStarted, OnAttackOngoing, ManualBan, ManualUnban, Target
<1>8. ASSUME NEW w \in Worker, NEW p \in Prefix,
             OnCarpetStarted(w, p) \/ OnCarpetOngoing(w, p) \/ OnCarpetEnded(p)
      PROVE  Deadlines(cfg.ttl)
  BY <1>2, <1>3, <1>4, <1>5, <1>8 DEF OnCarpetStarted, OnCarpetOngoing, OnCarpetEnded, Target
<1>9. ASSUME NEW w \in Caller, Begin(w)  PROVE  Deadlines(cfg.ttl)
  BY <1>2, <1>9 DEF Begin
<1>10. CASE Sweep
  BY <1>10, SweepDeadlines
<1> QED
  BY <1>6, <1>7, <1>8, <1>9, <1>10 DEF Call, Direction

---------------------------------------------------------------------------
(* Attacks that last.                                                      *)

\* One ttl in every configuration.
OneTtl == \A c, d \in Config : c.ttl = d.ttl

Unspared(t) == \A c \in Config : ~Spared(t, c)
Automatic(b) == b.active /\ ~b.manual
InKernel(b) == b.method = "dataplane" /\ ~b.dryRun

\* The rules were installed a second short of a ttl at most, and not much more than half
\* a ttl ago.
Lately(b, e, n) == e.kernel + b.dpAge >= n - 1 /\ 2 * b.dpAge < n + 2
\* The same, and a ban with a whole ttl has just been looked at.
Ahead(b, e, n) ==
  Automatic(b) =>
    /\ b.left \in {n - 1, n}
    /\ InKernel(b) => Lately(b, e, n) /\ (b.left = n => 2 * b.dpAge < n)
AllAhead(n) == \A t \in Target : Unspared(t) => Ahead(ban[t], env[t], n)

\* What a look at a ban that may have been refreshed makes of it.
LEMMA RenewalsAhead ==
  ASSUME "install" \notin MayFail,
         NEW t \in Target, NEW b \in BanType, NEW e \in EnvType, NEW c \in Config, NEW n \in Nat \ {0},
         c.ttl = n, ~Spared(t, c), Automatic(b) => b.left \in {n - 1, n} /\ (InKernel(b) => Lately(b, e, n)),
         NEW s \in Renewals(t, b, e, c)
  PROVE  Ahead(s.ban, s.env, n)
<1>1. b.dpAge \in Nat /\ b.left \in Int /\ e.kernel \in Nat /\ Horizon \in Nat
  BY ConfigAssumption DEF BanType, EnvType
<1>2. CASE ~NeedsRenewal(t, b, c)
  <2>1. s = Slot(b, e)
    BY <1>2 DEF Renewals
  <2>2. Automatic(b) /\ InKernel(b) => 2 * b.dpAge < n
    BY <1>1, <1>2 DEF NeedsRenewal, Automatic, InKernel
  <2> QED
    BY <2>1, <2>2 DEF Slot, Ahead
<1>3. CASE NeedsRenewal(t, b, c)
  <2>1. PICK o \in InstallDataplane(e, b.left) :
          s = Slot(IF o.ok THEN [b EXCEPT !.dpAge = 0] ELSE b, o.env)
    BY <1>3 DEF Renewals
  <2>2. CASE b.left <= 0
    <3>1. o = [ok |-> FALSE, env |-> e]
      BY <2>2 DEF InstallDataplane
    <3>2. s.ban = b /\ s.env = e
      BY <2>1, <3>1 DEF Slot
    <3>3. b.left # n
      BY <1>1, <2>2
    <3> QED
      BY <3>2, <3>3 DEF Ahead
  <2>3. CASE ~(b.left <= 0)
    <3>1. o = [ok |-> TRUE, env |-> Installed(e, "dataplane", b.left)]
      BY <2>3 DEF InstallDataplane
    <3>2. s.ban = [b EXCEPT !.dpAge = 0]
          /\ s.env = [e EXCEPT !.kernel = b.left, !.leaked = e.leaked \ {"dataplane"}]
      BY <2>1, <3>1 DEF Slot, Installed, Unicast
    <3>3. /\ s.ban.dpAge = 0 /\ s.env.kernel = b.left /\ s.ban.left = b.left
          /\ s.ban.active = b.active /\ s.ban.manual = b.manual
      BY <3>2 DEF BanType, EnvType
    <3> QED
      BY <1>1, <3>3 DEF Ahead, Automatic, Lately
  <2> QED
    BY <2>2, <2>3
<1> QED
  BY <1>2, <1>3

\* An announce that goes through in the kernel gives the rules what the ban has left; one that
\* is of another method leaves them.
LEMMA AnnouncedKernel ==
  ASSUME NEW e \in EnvType, NEW m \in Method, NEW c \in Config, ~c.dryRun,
         NEW left \in -1..Horizon, NEW o \in AnnounceStage(e, m, c, left)
  PROVE  /\ m # "dataplane" => o.env.kernel = e.kernel /\ o.method # "dataplane"
         /\ o.ok /\ o.method = "dataplane" => o.env.kernel = left
<1>1. PICK r \in AnnounceMethod(e, m, c, left) :
           \/ r.ok /\ o = [ok |-> TRUE, method |-> m, env |-> r.env]
           \/ ~r.ok /\ o = [ok |-> FALSE, method |-> m, env |-> r.env]
           \/ /\ ~r.ok
              /\ \E s \in AnnounceMethod(r.env, "blackhole", c, left) :
                   o = [ok |-> s.ok, method |-> IF s.ok THEN "blackhole" ELSE m,
                        env |-> s.env]
  BY AnnounceStageCases
<1>2. ASSUME NEW x \in EnvType, NEW k \in Method, NEW y \in AnnounceMethod(x, k, c, left)
      PROVE  /\ k # "dataplane" => y.env.kernel = x.kernel
             /\ k = "dataplane" /\ y.ok => y.env.kernel = left
  <2>1. /\ Cleared(x, "flowspec") = [x EXCEPT !.flowspec = FALSE, !.leaked = x.leaked \ {"flowspec"}]
        /\ Leaked([x EXCEPT !.flowspec = TRUE], "flowspec").kernel = x.kernel
    BY DEF Cleared, Leaked, EnvType
  <2>2. CASE (k = "alert" \/ c.dryRun) /\ y.env = x
    BY <2>2
  <2>3. CASE /\ k # "alert" /\ ~c.dryRun /\ y.ok = TRUE /\ y.env = Installed(x, k, left)
    <3>1. CASE k = "dataplane"
      BY <2>3, <3>1 DEF Installed, Unicast, EnvType
    <3>2. CASE k = "flowspec"
      BY <2>3, <3>2 DEF Installed, Unicast, EnvType
    <3>3. CASE k \in Unicast
      BY <2>3, <3>3 DEF Installed, Unicast, EnvType
    <3> QED
      BY <2>3, <3>1, <3>2, <3>3 DEF Method, Unicast
  <2>4. CASE /\ k # "alert" /\ ~c.dryRun /\ y.ok = FALSE
             /\ \/ y.env = x
                \/ k = "flowspec" /\ y.env = Cleared(x, "flowspec")
                \/ k = "flowspec" /\ y.env = Leaked([x EXCEPT !.flowspec = TRUE], "flowspec")
                \/ k = "dataplane" /\ y.env = Cleared(x, "dataplane")
    BY <2>1, <2>4 DEF EnvType
  <2> QED
    BY <2>2, <2>3, <2>4, AnnounceMethodCases
<1>3. "blackhole" \in Method /\ r.env \in EnvType
  BY AnnounceMethodTyped DEF Method
<1>4. ASSUME NEW s \in AnnounceMethod(r.env, "blackhole", c, left), ~r.ok,
             o = [ok |-> s.ok, method |-> IF s.ok THEN "blackhole" ELSE m, env |-> s.env]
      PROVE  /\ m # "dataplane" => o.env.kernel = e.kernel /\ o.method # "dataplane"
             /\ o.ok /\ o.method = "dataplane" => o.env.kernel = left
  <2>1. s.env.kernel = r.env.kernel /\ (m # "dataplane" => r.env.kernel = e.kernel)
    BY <1>2, <1>3
  <2> QED
    BY <1>4, <2>1
<1> QED
  BY <1>1, <1>2, <1>4

\* A climb keeps the rules ahead: of a ban that was in the kernel it leaves them, and of one that
\* comes there it installs them for what the ban has left.
LEMMA ClimbAhead ==
  ASSUME NEW b \in BanType, NEW e \in EnvType, NEW c \in Config, NEW n \in Nat \ {0},
         b.active, b.dryRun = c.dryRun, Ahead(b, e, n), NEW i \in DueRungs(b), NEW s \in ClimbTo(i, b, e, c)
  PROVE  Ahead(s.ban, s.env, n)
<1> DEFINE m == b.ladder[i].action
<1>1. /\ i \in Nat /\ m \in Method /\ b.method \in Method /\ b.left \in -1..Horizon
      /\ b.dryRun \in BOOLEAN /\ b.manual \in BOOLEAN
  BY DueRungTyped DEF BanType
<1>2. CASE m = b.method
  <2>1. s = Slot([b EXCEPT !.step = i], e)
    BY <1>2 DEF ClimbTo
  <2> QED
    BY <2>1 DEF Slot, Ahead, Automatic, InKernel, Lately, BanType
<1>3. CASE m # b.method
  <2>1. PICK o \in AnnounceStage(e, m, c, b.left) :
             s \in IF o.ok
                   THEN {Slot(OnRung(b, i, o.method, c), x) : x \in Superseded(b, o)}
                   ELSE {Slot(b, o.env)}
    BY <1>3 DEF ClimbTo
  <2>2. o.ok \in BOOLEAN /\ o.env \in EnvType /\ o.method \in Method
    BY <1>1, AnnounceStageTyped
  <2>3. ~b.dryRun => /\ m # "dataplane" => o.env.kernel = e.kernel /\ o.method # "dataplane"
                     /\ o.ok /\ o.method = "dataplane" => o.env.kernel = b.left
    BY <1>1, AnnouncedKernel
  <2> HIDE DEF m
  <2>4. CASE ~o.ok
    <3>1. s.ban = b /\ s.env = o.env
      BY <2>1, <2>4 DEF Slot
    <3>2. InKernel(b) => o.env.kernel = e.kernel
      BY <1>3, <2>3 DEF InKernel
    <3> QED
      BY <3>1, <3>2 DEF Ahead, Lately
  <2>5. CASE o.ok
    <3>1. PICK x \in Superseded(b, o) : s = Slot(OnRung(b, i, o.method, c), x)
      BY <2>1, <2>5
    <3>2. s.env = x /\ s.ban = OnRung(b, i, o.method, c)
      BY <3>1 DEF Slot
    <3>3. /\ s.ban.active = b.active /\ s.ban.manual = b.manual /\ s.ban.left = b.left
          /\ s.ban.dryRun = b.dryRun /\ s.ban.method = o.method
          /\ o.method = "dataplane" /\ ~b.dryRun => s.ban.dpAge = 0
      BY <3>2 DEF OnRung, BanType
    <3>4. ASSUME o.method = "dataplane", ~b.dryRun
          PROVE  x.kernel = b.left
      <4>1. o.env.kernel = b.left /\ m = "dataplane"
        BY <2>3, <2>5, <3>4
      <4>2. b.method \in Method /\ b.method # "dataplane"
        BY <1>1, <1>3, <4>1
      <4>3. \/ x = o.env
            \/ /\ FamilyOf(b.method) \in {"unicast", "flowspec"}
               /\ x = Cleared(o.env, FamilyOf(b.method)) \/ x = Leaked(o.env, FamilyOf(b.method))
        <5>1. x = o.env \/ x \in WithdrawMethod(o.env, b.method, b.dryRun)
          BY <3>1 DEF Superseded
        <5>2. b.method # "alert" => FamilyOf(b.method) \in {"unicast", "flowspec"}
          BY <4>2 DEF FamilyOf, Method, Unicast
        <5> QED
          BY <4>2, <5>1, <5>2, WithdrawMethodCases
      <4> QED
        BY <2>2, <4>1, <4>3 DEF Cleared, Leaked, EnvType
    <3> QED
      BY <1>1, <3>2, <3>3, <3>4 DEF Ahead, Automatic, InKernel, Lately
  <2> QED
    BY <2>2, <2>4, <2>5
<1> QED
  BY <1>2, <1>3

\* A ban that is withdrawn is none.
LEMMA WithdrawnAhead ==
  ASSUME NEW b, NEW e, NEW n, NEW s \in Withdraw(b, e)
  PROVE  Ahead(s.ban, s.env, n)
BY DEF Withdraw, Slot, NoBan, Ahead, Automatic

\* A sweep keeps the rules of each target ahead.
LEMMA SweepOneAhead ==
  ASSUME NEW t \in Target, NEW b \in BanType, NEW e \in EnvType, NEW c \in Config, NEW n \in Nat \ {0},
         b.active => b.dryRun = c.dryRun, Ahead(b, e, n), NEW s \in SweepOne(t, b, e, c)
  PROVE  Ahead(s.ban, s.env, n)
<1>1. CASE s = Slot(b, e)
  BY <1>1 DEF Slot
<1>2. CASE s \in Withdraw(b, e)
  BY <1>2, WithdrawnAhead
<1>3. CASE b.active /\ \E i \in TopDue(b) : s \in ClimbTo(i, b, e, c)
  BY <1>3, ClimbAhead DEF TopDue
<1> QED
  BY <1>1, <1>2, <1>3 DEF SweepOne, Escalate

\* A second that every ban was beaten in.
LEMMA AgedAhead ==
  ASSUME NEW b \in BanType, NEW e \in EnvType, NEW n \in 1..Horizon, Ahead(b, e, n),
         Automatic(b) => b.left = n
  PROVE  Ahead(Aged(b), Lapse(e), n)
<1>1. /\ b.dpAge \in 0..Horizon /\ b.left \in -1..Horizon /\ e.kernel \in 0..Horizon /\ Horizon \in Nat
      /\ n \in Nat /\ n >= 1 /\ n <= Horizon
  BY ConfigAssumption DEF BanType, EnvType
<1>2. CASE ~b.active
  BY <1>2 DEF Aged, Ahead, Automatic
<1>3. CASE b.active
  <2>1. /\ Aged(b).active = b.active /\ Aged(b).manual = b.manual /\ Aged(b).dryRun = b.dryRun
        /\ Aged(b).method = b.method /\ Aged(b).dpAge = Older(b.dpAge)
        /\ Aged(b).left = IF b.left >= 0 THEN b.left - 1 ELSE b.left
    BY <1>3 DEF Aged, BanType
  <2>2. Lapse(e).kernel = IF e.kernel <= 1 THEN 0 ELSE e.kernel - 1
    BY DEF Lapse, Cleared, EnvType
  <2> HIDE DEF Aged, Lapse
  <2>3. ASSUME Automatic(b)  PROVE  Aged(b).left = n - 1
    BY <1>1, <2>1, <2>3
  <2>4. ASSUME Automatic(b), InKernel(b)  PROVE  Lately(Aged(b), Lapse(e), n)
    <3>1. b.left = n /\ e.kernel + b.dpAge >= n - 1 /\ 2 * b.dpAge < n
      BY <2>4 DEF Ahead, Lately
    <3>2. Aged(b).dpAge = b.dpAge + 1
      BY <1>1, <2>1, <3>1 DEF Older
    <3> QED
      BY <1>1, <2>2, <3>1, <3>2 DEF Lately
  <2>5. (Automatic(Aged(b)) => Automatic(b)) /\ (InKernel(Aged(b)) => InKernel(b)) /\ n - 1 # n
    BY <1>1, <2>1 DEF Automatic, InKernel
  <2> QED
    BY <2>3, <2>4, <2>5 DEF Ahead
<1> QED
  BY <1>2, <1>3

\* One target, and the others are left alone.
LEMMA PutAhead ==
  ASSUME TypeOK, NEW n, AllAhead(n), NEW t \in Target, NEW STATE s, Put(t, s),
         Unspared(t) => Ahead(s.ban, s.env, n)
  PROVE  AllAhead(n)'
<1> SUFFICES ASSUME NEW u \in Target, Unspared(u)
             PROVE  Ahead(ban'[u], env'[u], n)
  BY DEF AllAhead
<1>1. ban' = [ban EXCEPT ![t] = s.ban] /\ env' = [env EXCEPT ![t] = s.env]
  BY DEF Put
<1>2. CASE u = t
  <2>1. ban'[u] = s.ban /\ env'[u] = s.env
    BY <1>1, <1>2 DEF TypeOK
  <2> QED
    BY <1>2, <2>1
<1>3. CASE u # t
  <2>1. ban'[u] = ban[u] /\ env'[u] = env[u]
    BY <1>1, <1>3 DEF TypeOK
  <2> QED
    BY <2>1 DEF AllAhead
<1> QED
  BY <1>2, <1>3

\* Each target by itself.
LEMMA EachAhead ==
  ASSUME NEW n, NEW STATE outcomes, Each(outcomes),
         \A t \in Target : Unspared(t) => \A s \in outcomes[t] : Ahead(s.ban, s.env, n)
  PROVE  AllAhead(n)'
<1>1. PICK f : /\ \A t \in Target : f[t] \in outcomes[t]
               /\ ban' = [t \in Target |-> f[t].ban]
               /\ env' = [t \in Target |-> f[t].env]
  BY DEF Each
<1> SUFFICES ASSUME NEW u \in Target, Unspared(u)
             PROVE  Ahead(ban'[u], env'[u], n)
  BY DEF AllAhead
<1>2. f[u] \in outcomes[u] /\ ban'[u] = f[u].ban /\ env'[u] = f[u].env
  BY <1>1
<1> QED
  BY <1>2

\* A call that bans: a ban that was on has been looked at since its last second, and a new one
\* has its rules with it.
LEMMA BanCallAhead ==
  ASSUME TypeOK, NEW n \in Nat \ {0}, \A c \in Config : c.ttl = n, AllAhead(n),
         NEW w \in Worker, NEW t \in Target, NEW ladder \in Seq(Rung), Len(ladder) > 0,
         NEW dirs \in SUBSET Direction, NEW manual \in BOOLEAN,
         held[w] # NoConfig, AfterBeat(w, t),
         Refuse(w, t) \/ Refresh(w, t, dirs) \/ Admit(w, t, ladder, dirs, manual)
  PROVE  AllAhead(n)'
<1> DEFINE c == held[w]
           b == NewBan(c, ladder, dirs, manual)
<1>1. /\ c \in Config /\ c.ttl = n /\ c \in ConfigType /\ n \in -1..Horizon
      /\ ban \in [Target -> BanType] /\ env \in [Target -> EnvType] /\ n \in 0..Horizon
  <2>1. c \in Config
    BY DEF TypeOK, Caller
  <2> HIDE DEF c
  <2>2. c.ttl = n /\ c \in ConfigType /\ Horizon \in Nat
    BY <2>1, ConfigTyped, ConfigAssumption
  <2> QED
    BY <2>1, <2>2 DEF TypeOK, ConfigType
<1>2. CASE Refuse(w, t)
  BY <1>2 DEF Refuse, AllAhead
<1>3. CASE Refresh(w, t, dirs)
  <2> DEFINE x == [ban[t] EXCEPT !.left = c.ttl, !.dirs = ban[t].dirs \cup dirs]
  <2>1. ban' = [ban EXCEPT ![t] = x] /\ env' = env
    BY <1>1, <1>3 DEF Refresh, BanType
  <2>2. /\ x.active = ban[t].active /\ x.manual = ban[t].manual /\ x.dryRun = ban[t].dryRun
        /\ x.method = ban[t].method /\ x.dpAge = ban[t].dpAge /\ x.left = n
    BY <1>1 DEF BanType
  <2> HIDE DEF x
  <2>3. ASSUME Unspared(t)  PROVE  Ahead(x, env[t], n)
    <3>1. Ahead(ban[t], env[t], n)
      BY <2>3 DEF AllAhead
    <3>2. ASSUME Automatic(ban[t]), InKernel(ban[t])  PROVE  2 * ban[t].dpAge < n
      <4>1. UnderAttack(t) /\ ~NeedsRenewal(t, ban[t], c) /\ ~Spared(t, c)
        BY <1>1, <2>3, <3>2 DEF AfterBeat, UnderAttack, Automatic, Unspared
      <4>2. ban[t].dpAge \in Nat
        BY <1>1, ConfigAssumption DEF BanType
      <4> QED
        BY <1>1, <3>2, <4>1, <4>2 DEF NeedsRenewal, Automatic, InKernel
    <3> QED
      BY <1>1, <2>2, <3>1, <3>2 DEF Ahead, Automatic, InKernel, Lately
  <2>4. Put(t, Slot(x, env[t]))
    BY <1>1, <2>1 DEF Put, Slot
  <2>5. Unspared(t) => Ahead(Slot(x, env[t]).ban, Slot(x, env[t]).env, n)
    BY <2>3 DEF Slot
  <2> QED
    BY <2>4, <2>5, PutAhead
<1>4. CASE Admit(w, t, ladder, dirs, manual)
  <2>1. /\ ~ban[t].active
        /\ \E o \in AnnounceStage(env[t], ladder[1].action, c, b.left) :
             IF o.ok THEN Put(t, Slot(OnRung(b, 1, o.method, c), o.env))
             ELSE Put(t, Slot(ban[t], o.env))
    BY <1>4 DEF Admit
  <2>2. PICK o \in AnnounceStage(env[t], ladder[1].action, c, b.left) :
             IF o.ok THEN Put(t, Slot(OnRung(b, 1, o.method, c), o.env))
             ELSE Put(t, Slot(ban[t], o.env))
    BY <2>1
  <2>3. /\ ladder[1].action \in Method /\ env[t] \in EnvType
        /\ b.left = n /\ b.dryRun = c.dryRun
    <3>1. ladder[1] \in Rung
      OBVIOUS
    <3> QED
      BY <1>1, <3>1 DEF Rung, NewBan
  <2>4. CASE ~o.ok
    <3>1. Put(t, Slot(ban[t], o.env))
      BY <2>2, <2>4
    <3>2. Ahead(Slot(ban[t], o.env).ban, Slot(ban[t], o.env).env, n)
      BY <2>1 DEF Slot, Ahead, Automatic
    <3> QED
      BY <3>1, <3>2, PutAhead
  <2>5. CASE o.ok
    <3> DEFINE y == OnRung(b, 1, o.method, c)
    <3>1. Put(t, Slot(y, o.env))
      BY <2>2, <2>5
    <3>2. /\ y.left = n /\ y.dryRun = c.dryRun /\ y.method = o.method
          /\ o.method = "dataplane" /\ ~c.dryRun => y.dpAge = 0
      BY <2>3 DEF OnRung, NewBan
    <3>3. ~c.dryRun /\ o.method = "dataplane" => o.env.kernel = n
      BY <1>1, <2>3, <2>5, AnnouncedKernel
    <3> HIDE DEF y
    <3>4. Ahead(y, o.env, n)
      BY <3>2, <3>3 DEF Ahead, InKernel, Lately
    <3>5. Ahead(Slot(y, o.env).ban, Slot(y, o.env).env, n)
      BY <3>4 DEF Slot
    <3> QED
      BY <3>1, <3>5, PutAhead
  <2> QED
    BY <2>4, <2>5
<1> QED
  BY <1>2, <1>3, <1>4

\* A heartbeat gives the ban it names a whole ttl, and looks at the rules of all.
LEMMA HeartbeatAhead ==
  ASSUME "install" \notin MayFail, TypeOK, NEW n \in Nat \ {0}, \A c \in Config : c.ttl = n, AllAhead(n),
         NEW w \in Worker, NEW t \in Target, NEW dirs \in SUBSET Direction, Heartbeat(w, t, dirs)
  PROVE  AllAhead(n)'
<1> DEFINE c == held[w]
           Now(x) == IF x = t THEN Kept(t, dirs, c) ELSE ban[x]
           R == [x \in Target |-> Renewals(x, Now(x), env[x], c)]
<1>1. c \in Config /\ ban \in [Target -> BanType] /\ env \in [Target -> EnvType]
  BY DEF TypeOK, Caller, Heartbeat
<1>2. c.ttl = n /\ n \in -1..Horizon
  <2> HIDE DEF c
  <2> QED
    BY <1>1, ConfigTyped, ConfigAssumption DEF ConfigType
<1>3. CASE UNCHANGED <<ban, env>>
  BY <1>3 DEF AllAhead
<1>4. CASE Each(R)
  <2>1. ASSUME NEW x \in Target, Unspared(x), NEW s \in R[x]
        PROVE  Ahead(s.ban, s.env, n)
    <3>1. Ahead(ban[x], env[x], n) /\ ~Spared(x, c) /\ ban[x] \in BanType /\ env[x] \in EnvType
      BY <1>1, <2>1 DEF AllAhead, Unspared
    <3>2. s \in Renewals(x, Now(x), env[x], c)
      BY <2>1
    <3>3. /\ Now(x) \in BanType /\ Now(x).left \in {ban[x].left, n} /\ Now(x).active = ban[x].active
          /\ Now(x).manual = ban[x].manual /\ Now(x).dpAge = ban[x].dpAge
          /\ Now(x).method = ban[x].method /\ Now(x).dryRun = ban[x].dryRun
      <4>1. CASE x # t
        BY <3>1, <4>1
      <4>2. CASE x = t
        <5>1. Now(x) = [ban[x] EXCEPT !.left = n, !.dirs = ban[x].dirs \cup dirs]
          BY <1>2, <4>2 DEF Kept
        <5> HIDE DEF Now
        <5> QED
          BY <1>2, <3>1, <5>1 DEF BanType
      <4> QED
        BY <4>1, <4>2
    <3> HIDE DEF Now, c
    <3>4. Automatic(Now(x)) => /\ Now(x).left \in {n - 1, n}
                               /\ InKernel(Now(x)) => Lately(Now(x), env[x], n)
      BY <3>1, <3>3 DEF Ahead, Automatic, InKernel, Lately
    <3> QED
      BY <1>1, <1>2, <3>1, <3>2, <3>3, <3>4, RenewalsAhead
  <2> HIDE DEF R
  <2> QED
    BY <1>4, <2>1, EachAhead
<1> QED
  BY <1>3, <1>4 DEF Heartbeat

\* Every step but the turn of a second keeps the rules ahead, and so does a second that every
\* attack was beaten in.
LEMMA BeatenAhead ==
  ASSUME "install" \notin MayFail, IInv, Reads(cfg.dryRun),
         NEW n \in Nat \ {0}, \A c \in Config : c.ttl = n, AllAhead(n), [BeatenNext]_vars
  PROVE  AllAhead(n)'
<1>1. /\ TypeOK /\ ban \in [Target -> BanType] /\ env \in [Target -> EnvType] /\ Config \subseteq ConfigType
      /\ held \in [Caller -> Config \cup {NoConfig}]
      /\ \A t \in Target : ban[t].active => ban[t].dryRun = cfg.dryRun
  BY ConfigAssumption DEF IInv, TypeOK, Consistent, Good, Frozen, Slot
<1>2. ASSUME UNCHANGED <<ban, env>>  PROVE  AllAhead(n)'
  BY <1>2 DEF AllAhead
<1>3. ASSUME NEW w \in Worker, NEW t \in Target, NEW ladder \in Seq(Rung), Len(ladder) > 0,
             NEW dirs \in SUBSET Direction, NEW manual \in BOOLEAN, held[w] # NoConfig, AfterBeat(w, t),
             Refuse(w, t) \/ Refresh(w, t, dirs) \/ Admit(w, t, ladder, dirs, manual)
      PROVE  AllAhead(n)'
  BY <1>1, <1>3, BanCallAhead
<1>4. ASSUME NEW w \in Worker, held[w] # NoConfig
      PROVE  held[w].ladder \in Seq(Rung) /\ Len(held[w].ladder) > 0 /\ held[w].carpet \in Method
  <2>1. held[w] \in Config
    BY <1>1, <1>4 DEF Caller
  <2> QED
    BY <1>1, <2>1, ConfigAssumption DEF ConfigType
<1>5. ASSUME NEW w \in Worker, NEW h \in Host, NEW d \in Direction,
             (OnAttackStarted(w, h, d) \/ ManualBan(w, h)) /\ AfterBeat(w, h)
      PROVE  AllAhead(n)'
  <2>1. h \in Target /\ {d} \in SUBSET Direction /\ {} \in SUBSET Direction
        /\ TRUE \in BOOLEAN /\ FALSE \in BOOLEAN
    BY DEF Target
  <2> QED
    BY <1>3, <1>4, <1>5, <2>1 DEF OnAttackStarted, ManualBan
<1>6. ASSUME NEW w \in Worker, NEW p \in Prefix, OnCarpetStarted(w, p), AfterBeat(w, p)
      PROVE  AllAhead(n)'
  <2> DEFINE one == <<[after |-> 0, action |-> held[w].carpet]>>
  <2>1. p \in Target /\ {} \in SUBSET Direction /\ FALSE \in BOOLEAN /\ held[w] # NoConfig
    BY <1>6 DEF Target, OnCarpetStarted
  <2>2. one \in Seq(Rung) /\ Len(one) > 0
    BY <1>4, <2>1, ConfigAssumption DEF Rung
  <2>3. CASE UNCHANGED <<ban, env>>
    BY <1>2, <2>3
  <2>4. CASE Refuse(w, p) \/ Refresh(w, p, {}) \/ Admit(w, p, one, {}, FALSE)
    <3> HIDE DEF one
    <3> QED
      BY <1>3, <1>6, <2>1, <2>2, <2>4
  <2> QED
    BY <1>6, <2>3, <2>4 DEF OnCarpetStarted
<1>7. ASSUME NEW w \in Worker, NEW t \in Target, NEW dirs \in SUBSET Direction, Heartbeat(w, t, dirs)
      PROVE  AllAhead(n)'
  BY <1>1, <1>7, HeartbeatAhead
<1>8. ASSUME NEW w \in Worker, NEW h \in Host, NEW d \in Direction, OnAttackOngoing(w, h, d)
      PROVE  AllAhead(n)'
  BY <1>7, <1>8 DEF OnAttackOngoing, Target
<1>9. ASSUME NEW w \in Worker, NEW p \in Prefix, OnCarpetOngoing(w, p)
      PROVE  AllAhead(n)'
  BY <1>7, <1>9 DEF OnCarpetOngoing, Target
<1>10. ASSUME NEW t \in Target, NEW STATE s, s \in Withdraw(ban[t], env[t]), Put(t, s)
       PROVE  AllAhead(n)'
  <2>1. Ahead(s.ban, s.env, n)
    BY <1>10, WithdrawnAhead
  <2> QED
    BY <1>1, <1>10, <2>1, PutAhead
<1>11. ASSUME NEW h \in Host, NEW d \in Direction, OnAttackEnded(h, d)
       PROVE  AllAhead(n)'
  <2>1. h \in Target
    BY DEF Target
  <2>2. CASE ban' = [ban EXCEPT ![h].dirs = ban[h].dirs \ {d}] /\ UNCHANGED env
    <3>1. ASSUME NEW u \in Target
          PROVE  /\ ban'[u].active = ban[u].active /\ ban'[u].manual = ban[u].manual
                 /\ ban'[u].left = ban[u].left /\ ban'[u].dpAge = ban[u].dpAge
                 /\ ban'[u].method = ban[u].method /\ ban'[u].dryRun = ban[u].dryRun
      BY <1>1, <2>1, <2>2 DEF BanType
    <3> QED
      BY <2>2, <3>1 DEF AllAhead, Ahead, Automatic, InKernel, Lately
  <2> QED
    BY <1>10, <1>11, <2>1, <2>2 DEF OnAttackEnded
<1>12. CASE \/ \E p \in Prefix : OnCarpetEnded(p)
            \/ \E h \in Host : ManualUnban(h)
  BY <1>10, <1>12 DEF OnCarpetEnded, ManualUnban, Target
<1>13. CASE Sweep
  <2> DEFINE c == held[Sweeper]
             R == [t \in Target |-> SweepOne(t, ban[t], env[t], c)]
  <2>1. c \in Config /\ c.dryRun = cfg.dryRun
    BY <1>1, <1>13 DEF Sweep, Caller, Reads
  <2>2. Each(R)
    BY <1>13 DEF Sweep
  <2>3. ASSUME NEW t \in Target, Unspared(t), NEW s \in R[t]
        PROVE  Ahead(s.ban, s.env, n)
    <3>1. s \in SweepOne(t, ban[t], env[t], c) /\ Ahead(ban[t], env[t], n)
      BY <2>3 DEF AllAhead
    <3>2. ban[t] \in BanType /\ env[t] \in EnvType /\ (ban[t].active => ban[t].dryRun = c.dryRun)
      BY <1>1, <2>1
    <3> HIDE DEF c
    <3> QED
      BY <2>1, <3>1, <3>2, SweepOneAhead
  <2> HIDE DEF R
  <2> QED
    BY <2>2, <2>3, EachAhead
<1>14. CASE Beaten /\ Tick
  <2>1. ASSUME NEW t \in Target, Unspared(t)
        PROVE  Ahead(Aged(ban[t]), Lapse(env[t]), n)
    <3>1. Ahead(ban[t], env[t], n) /\ ban[t] \in BanType /\ env[t] \in EnvType
      BY <1>1, <2>1 DEF AllAhead
    <3>2. Automatic(ban[t]) => ban[t].left = n /\ n \in 1..Horizon
      <4> SUFFICES ASSUME Automatic(ban[t])
                   PROVE  ban[t].left = n /\ n \in 1..Horizon
        OBVIOUS
      <4>1. PICK c \in Config : ban[t].left = c.ttl
        BY <1>14, <2>1 DEF Beaten, UnderAttack, Automatic, Unspared
      <4> QED
        BY <1>1, <4>1 DEF ConfigType
    <3>3. CASE Automatic(ban[t])
      BY <3>1, <3>2, <3>3, AgedAhead
    <3>4. CASE ~Automatic(ban[t])
      BY <3>1, <3>4 DEF Aged, Ahead, Automatic, BanType
    <3> QED
      BY <3>3, <3>4
  <2> QED
    BY <1>14, <2>1 DEF Tick, AllAhead
<1>15. CASE \/ \E w \in Caller : Begin(w)
            \/ Reload
            \/ UNCHANGED vars
  BY <1>2, <1>15 DEF Begin, Reload, vars
<1> QED
  BY <1>5, <1>6, <1>8, <1>9, <1>11, <1>12, <1>13, <1>14, <1>15 DEF BeatenNext, Direction

\* The ttl that every configuration has.
Ttl == CHOOSE n : \A c \in Config : c.ttl = n

\* It is the ttl of each, and positive.
LEMMA TtlOfAll ==
  ASSUME OneTtl, NEW d \in Config
  PROVE  Ttl \in Nat \ {0} /\ \A c \in Config : c.ttl = Ttl
<1>1. \A c \in Config : c.ttl = d.ttl
  BY DEF OneTtl
<1>2. \A c \in Config : c.ttl = Ttl
  BY <1>1 DEF Ttl
<1>3. d.ttl \in Nat \ {0}
  BY ConfigAssumption DEF ConfigType
<1> QED
  BY <1>2, <1>3

\* Nothing is banned at first.
LEMMA InitAhead == Init => AllAhead(Ttl)
BY DEF Init, AllAhead, Ahead, Automatic, NoBan

\* What keeps the rules ahead leaves them half a ttl.
LEMMA AheadEnough ==
  ASSUME TypeOK, OneTtl, AllAhead(Ttl)
  PROVE  KernelAhead
<1> SUFFICES ASSUME NEW t \in Target, NEW c \in Config, UnderAttack(t), Enforcing(ban[t]) = "dataplane"
             PROVE  2 * env[t].kernel + 3 >= c.ttl
  BY DEF KernelAhead
<1>1. Ttl \in Nat \ {0} /\ c.ttl = Ttl
  BY TtlOfAll
<1>2. Lately(ban[t], env[t], Ttl)
  BY DEF AllAhead, Ahead, Unspared, Automatic, InKernel, UnderAttack, Enforcing
<1>3. env[t].kernel \in Nat /\ ban[t].dpAge \in Nat
  BY DEF TypeOK, BanType, EnvType
<1> QED
  BY <1>1, <1>2, <1>3 DEF Lately

\* The kernel rules of an attack that is beaten every second have half a ttl ahead of
\* them, to the grain of the clock, however long it lasts and whatever else is banned,
\* renewed or swept meanwhile (renewDataplaneLocked), as long as installs succeed and
\* the reload keeps the ttl.
THEOREM RenewedInTime ==
  ASSUME DryRunFixed, OneTtl, "install" \notin MayFail
  PROVE  BeatenSpec => []KernelAhead
<1> DEFINE AInv == IInv /\ AllAhead(Ttl)
<1>1. Init => AInv
  BY InitTyped, InitConsistent, InitAhead DEF IInv
<1>2. AInv /\ [BeatenNext]_vars => AInv'
  <2> SUFFICES ASSUME AInv, [BeatenNext]_vars
               PROVE  AInv'
    OBVIOUS
  <2>1. [Next]_vars
    BY DEF BeatenNext, Next
  <2>2. IInv' /\ Reads(cfg.dryRun)
    BY <2>1, StaysConsistent
  <2>3. Ttl \in Nat \ {0} /\ \A c \in Config : c.ttl = Ttl
    BY TtlOfAll DEF IInv, TypeOK
  <2>4. AllAhead(Ttl)'
    <3>1. PICK n : n = Ttl
      OBVIOUS
    <3>2. AllAhead(n)'
      BY <2>2, <2>3, <3>1, BeatenAhead
    <3> QED
      BY <3>1, <3>2 DEF Ttl
  <2> QED
    BY <2>2, <2>4
<1>3. AInv => KernelAhead
  BY AheadEnough DEF IInv
<1> QED
  BY <1>1, <1>2, <1>3, PTL DEF BeatenSpec

=============================================================================
