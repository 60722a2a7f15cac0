----------------------- MODULE ManagedResourcesProofs -----------------------
(* Theorems about ManagedResources, for every value of its constants. *)
EXTENDS ManagedResources, VersionLogs

-----------------------------------------------------------------------------
(* Specifications, objects and contents *)

LEMMA ThreeKinds == KindSet = {"deployment", "monitor", "pdb"}
BY DEF KindSet, Kinds

\* The defaults of the API server make a specification of a specification, once.
LEMMA RedefaultedSpec ==
  ASSUME NEW s, IsSpec(s)
  PROVE  /\ IsSpec(Redefaulted(s)) /\ Redefaulted(s).default = s.default
         /\ Redefaulted(Redefaulted(s)) = Redefaulted(s)
<1> DEFINE r == Redefaulted(s)
<1>1. /\ DOMAIN r = DOMAIN s /\ r.monitor = TRUE
      /\ r.replicas = IF s.replicas = 0 THEN 1 ELSE s.replicas
      /\ r.default = s.default /\ r.limits = s.limits /\ r.requests = s.requests /\ r.pdb = s.pdb
  BY DEF Redefaulted, IsSpec
<1>2. r = [f \in DOMAIN s |-> r[f]]
  BY DEF Redefaulted
<1>3. Redefaulted(r) = r
  BY <1>1, <1>2 DEF Redefaulted, IsSpec
<1>4. IsSpec(r)
  <2> HIDE DEF r
  <2>1. DOMAIN r = {"default", "monitor", "replicas", "limits", "requests", "pdb"}
    BY <1>1 DEF IsSpec
  <2>2. r.default \in BOOLEAN /\ r.monitor \in BOOLEAN /\ r.replicas \in Int
    <3>1. s.default \in BOOLEAN /\ s.replicas \in Int
      BY DEF IsSpec
    <3>2. r.replicas \in Int
      BY <1>1, <3>1
    <3> QED
      BY <1>1, <3>1, <3>2, Zenon
  <2>3. ASSUME NEW l \in {"limits", "requests"}, r[l] # NoList
        PROVE  \A f \in DOMAIN r[l] \cap {"cpu", "memory"} : r[l][f] \in Int
    <3>1. r[l] = s[l]
      BY <1>1, <2>3
    <3> QED
      BY <2>3, <3>1 DEF IsSpec
  <2>4. r.pdb = NoPDB \/ \E fields \in SUBSET {"min", "max"} : r.pdb \in [fields -> Int]
    <3>1. s.pdb = NoPDB \/ \E fields \in SUBSET {"min", "max"} : s.pdb \in [fields -> Int]
      BY DEF IsSpec
    <3> QED
      BY <1>1, <3>1
  <2> QED
    BY <2>1, <2>2, <2>3, <2>4 DEF IsSpec
<1> QED
  BY <1>1, <1>3, <1>4

LEMMA ObjectFacts ==
  /\ \A s \in SpecSet : IsSpec(s)
  /\ \A cr \in Objects : /\ IsSpec(cr.spec)
                         /\ cr.spec \in SpecSet \cup {Redefaulted(s) : s \in SpecSet}
                         /\ cr.label \in BOOLEAN /\ cr.fin \in BOOLEAN /\ cr.tunnel \in BOOLEAN
<1>1. \A s \in SpecSet : IsSpec(s)
  BY SpecsAssumption DEF SpecSet
<1>2. \A cr \in Objects : /\ cr.spec \in SpecSet \cup {Redefaulted(s) : s \in SpecSet}
                          /\ cr.label \in BOOLEAN /\ cr.fin \in BOOLEAN /\ cr.tunnel \in BOOLEAN
  BY DEF Objects
<1> QED
  BY <1>1, <1>2, RedefaultedSpec

\* what the two updates by the controller write
LEMMA FinalizerObject ==
  ASSUME NEW cr \in Objects, NEW new, new = Default([cr EXCEPT !.fin = TRUE, !.spec = Redefaulted(@)])
  PROVE  /\ new \in Objects /\ new.fin = TRUE /\ new.spec = Redefaulted(cr.spec)
         /\ new.label = new.spec.default
<1>1. Redefaulted(cr.spec) \in SpecSet \cup {Redefaulted(s) : s \in SpecSet}
  BY ObjectFacts, RedefaultedSpec
<1>2. Redefaulted(cr.spec).default \in BOOLEAN
  BY ObjectFacts, RedefaultedSpec DEF IsSpec
<1> QED
  BY <1>1, <1>2 DEF Objects, Default

LEMMA RecordObject ==
  ASSUME NEW cr \in Objects, NEW new, new = [cr EXCEPT !.tunnel = TRUE]
  PROVE  new \in Objects /\ new.fin = cr.fin /\ new.spec = cr.spec /\ new.label = cr.label
BY DEF Objects

\* what a user writes
LEMMA UserObject ==
  /\ \A s \in SpecSet, b, c \in BOOLEAN :
       LET new == Default([spec |-> s, label |-> FALSE, fin |-> b, tunnel |-> c]) IN
       new \in Objects /\ new.fin = b /\ new.spec = s /\ new.label = s.default
  /\ \A cr \in Objects, s \in SpecSet :
       LET new == Default([cr EXCEPT !.spec = s]) IN
       new \in Objects /\ new.fin = cr.fin /\ new.spec = s /\ new.label = s.default
<1>1. \A s \in SpecSet : s.default \in BOOLEAN
  BY ObjectFacts DEF IsSpec
<1> QED
  BY <1>1 DEF Objects, Default

\* The content fits what the specification says of this kind of child.
Suits(spec, kind, content) ==
  (CASE kind = "deployment" -> TRUE
     [] kind = "monitor" -> spec.monitor
     [] kind = "pdb" -> spec.pdb # NoPDB) =>
    /\ content # Absent
    /\ kind = "deployment" =>
         /\ content.replicas = spec.replicas
         /\ \A l \in {"limits", "requests"} :
              spec[l] # NoList => \A r \in DOMAIN spec[l] \cap {"cpu", "memory"} :
                content[l][r] = spec[l][r]
    /\ kind = "pdb" => \A f \in DOMAIN spec.pdb :
         f \in DOMAIN content /\ content[f] = spec.pdb[f]

LEMMA AppliedSuits ==
  \A n \in Names, kind \in KindSet : Applied(n, kind) <=> Suits(CR(n).spec, kind, Kid(n, kind))
BY ThreeKinds DEF Applied, Suits, Wanted

LEMMA AppliedPrimed ==
  \A n \in Names, kind \in KindSet : Applied(n, kind)' <=> Suits(CR(n)'.spec, kind, Kid(n, kind)')
BY ThreeKinds DEF Applied, Suits, Wanted

LEMMA TemplateSuits ==
  ASSUME NEW s, IsSpec(s)
  PROVE  /\ Suits(s, "deployment", Template(s))
         /\ ValidTemplate(Template(s)) => Template(s) \in Contents("deployment", Nat)
<1> DEFINE t == Template(s)
<1>1. /\ t = [replicas |-> s.replicas, limits |-> Quantities(s.limits), requests |-> Quantities(s.requests)]
      /\ s.replicas \in Int
  BY DEF Template, IsSpec
<1>2. ASSUME NEW l \in {"limits", "requests"}
      PROVE  /\ Quantities(s[l]) \in Lists(Int)
             /\ s[l] # NoList => \A r \in DOMAIN s[l] \cap {"cpu", "memory"} : Quantities(s[l])[r] = s[l][r]
  BY DEF IsSpec, Quantities, Lists
<1>3. t.limits \in Lists(Int) /\ t.requests \in Lists(Int)
  BY <1>1, <1>2
<1>4. t \in Contents("deployment", Int)
  BY <1>1, <1>3 DEF Contents
<1>5. t # Absent
  BY <1>4, SpecsAssumption, ThreeKinds
<1>6. Suits(s, "deployment", t)
  BY <1>1, <1>2, <1>5 DEF Suits
<1>7. ASSUME ValidTemplate(t) PROVE t \in Contents("deployment", Nat)
  <2>1. t.replicas \in Nat
    BY <1>1, <1>7 DEF ValidTemplate
  <2>2. ASSUME NEW list \in {t.limits, t.requests} PROVE list \in Lists(Nat)
    <3>1. list \in Lists(Int)
      BY <1>3
    <3>2. list # NoList => \A r \in DOMAIN list : list[r] >= 0
      BY <1>7 DEF ValidTemplate
    <3> QED
      BY <3>1, <3>2 DEF Lists
  <2> QED
    BY <1>1, <2>1, <2>2 DEF Contents
<1> QED
  BY <1>6, <1>7

LEMMA MonitorSuits ==
  /\ Monitor \in Contents("monitor", Nat)
  /\ \A s : Suits(s, "monitor", Monitor)
  /\ \A s, c : ~s.monitor => Suits(s, "monitor", c)
BY SpecsAssumption, ThreeKinds DEF Contents, Suits

LEMMA BudgetSuits ==
  ASSUME NEW s, IsSpec(s), s.pdb # NoPDB, NEW old \in Contents("pdb", Nat) \cup {Absent}
  PROVE  /\ Suits(s, "pdb", Budget(old, s.pdb))
         /\ ValidBudget(Budget(old, s.pdb)) => Budget(old, s.pdb) \in Contents("pdb", Nat)
<1> DEFINE new == Budget(old, s.pdb)
<1>1. PICK fields \in SUBSET {"min", "max"} : s.pdb \in [fields -> Int]
  BY DEF IsSpec
<1>2. \E more \in SUBSET {"min", "max"} : new \in [more -> Int] /\ fields \subseteq more
  <2>1. CASE old = Absent
    BY <1>1, <2>1 DEF Budget
  <2>2. CASE old # Absent
    <3>1. PICK had \in SUBSET {"min", "max"} : old \in [had -> Nat]
      BY <2>2 DEF Contents
    <3>2. new = [f \in had \cup fields |-> IF f \in fields THEN s.pdb[f] ELSE old[f]]
      BY <1>1, <2>2, <3>1 DEF Budget, MergedBudget
    <3>3. new \in [had \cup fields -> Int]
      BY <1>1, <3>1, <3>2
    <3> QED
      BY <3>3
  <2> QED
    BY <2>1, <2>2
<1>3. PICK more \in SUBSET {"min", "max"} : new \in [more -> Int] /\ fields \subseteq more
  BY <1>2
<1>4. \A f \in fields : f \in DOMAIN new /\ new[f] = s.pdb[f]
  BY <1>1, <1>3 DEF Budget, MergedBudget
<1>5. more \in {{}, {"min"}, {"max"}, {"min", "max"}}
  OBVIOUS
<1>6. new # Absent
  <2>1. CASE more = {"min", "max"}
    BY <1>3, <2>1, SpecsAssumption
  <2>2. CASE more # {"min", "max"}
    <3>1. new \in Contents("pdb", Int)
      BY <1>3, <1>5, <2>2 DEF Contents
    <3> QED
      BY <3>1, SpecsAssumption, ThreeKinds
  <2> QED
    BY <2>1, <2>2
<1>7. Suits(s, "pdb", new)
  BY <1>1, <1>4, <1>6 DEF Suits
<1>8. ASSUME ValidBudget(new) PROVE new \in Contents("pdb", Nat)
  <2>1. DOMAIN new = more /\ \A f \in more : new[f] \in Nat
    BY <1>3, <1>8 DEF ValidBudget
  <2>2. new \in [more -> Nat]
    BY <1>3, <2>1
  <2>3. more # {"min", "max"}
    BY <1>8, <2>1 DEF ValidBudget
  <2> QED
    BY <1>5, <2>2, <2>3 DEF Contents
<1> QED
  BY <1>7, <1>8

-----------------------------------------------------------------------------
(* Logs *)

\* a write of what is stored already changes nothing
Grown(log, v) == IF v = Last(log) THEN log ELSE Append(log, v)

LEMMA GrownLog ==
  ASSUME NEW S, NEW log \in Seq(S), Len(log) > 0, NEW v \in S
  PROVE  /\ Grown(log, v) \in Seq(S) /\ Len(Grown(log, v)) > 0
         /\ Last(Grown(log, v)) = v
         /\ Len(Grown(log, v)) = 1 => Len(log) = 1
         /\ \A i \in 1..Len(Grown(log, v)) : Grown(log, v)[i] \in Elems(log) \cup {v}
<1>1. CASE v = Last(log)
  BY <1>1, LogElems DEF Grown, Last, Elems
<1>2. CASE v # Last(log)
  <2>1. Grown(log, v) = Append(log, v)
    BY <1>2 DEF Grown
  <2>2. Len(log) \in Nat
    BY LogElems
  <2>3. /\ Append(log, v) \in Seq(S) /\ Len(Append(log, v)) = Len(log) + 1
        /\ Last(Append(log, v)) = v
    BY AppendLog DEF Last
  <2>4. \A i \in 1..Len(Append(log, v)) : Append(log, v)[i] \in Elems(log) \cup {v}
    BY AppendLog DEF Elems
  <2> QED
    BY <2>1, <2>2, <2>3, <2>4
<1> QED
  BY <1>1, <1>2

\* The children of n of this kind have the log, all others are as before.
KidsWith(n, kind, log) ==
  /\ DOMAIN kids' = Names /\ \A m \in Names : DOMAIN kids'[m] = KindSet
  /\ \A m \in Names, k \in KindSet :
       kids'[m][k] = IF m = n /\ k = kind THEN log ELSE kids[m][k]

LEMMA ChangeOfKid ==
  ASSUME TypeOK, NEW n \in Names, NEW kind \in KindSet, NEW log,
         kids' = [kids EXCEPT ![n] = [kids[n] EXCEPT ![kind] = log]]
  PROVE  KidsWith(n, kind, log)
BY DEF TypeOK, KidsWith

LEMMA WrittenKid ==
  ASSUME TypeOK, NEW n \in Names, NEW kind \in KindSet, NEW content
  PROVE  /\ kids' = [kids EXCEPT ![n][kind] = IF content = Last(@) THEN @ ELSE Append(@, content)]
            => KidsWith(n, kind, Grown(kids[n][kind], content))
         /\ kids' = [kids EXCEPT ![n][kind] = Tail(@)] => KidsWith(n, kind, Tail(kids[n][kind]))
         /\ kids' = [kids EXCEPT ![n][kind] = Append(@, content)]
            => KidsWith(n, kind, Append(kids[n][kind], content))
BY ChangeOfKid DEF Grown

-----------------------------------------------------------------------------
(* What the steps of Reconcile come to *)

LEMMA FaultCount ==
  ASSUME faults \in 0..MaxFaults
  PROVE  /\ faults' = faults => faults' \in 0..MaxFaults
         /\ \A kind : Fault(kind) => faults' \in 0..MaxFaults
BY FaultsAssumption DEF Fault

LEMMA PutCases ==
  ASSUME TypeOK, NEW cr, Put(cr)
  PROVE  /\ UNCHANGED <<kids, wrote, warned, monitoring>> /\ faults' \in 0..MaxFaults
         /\ \/ /\ fresh /\ crs' = [crs EXCEPT ![name] = Grown(crs[name], cr)]
               /\ copy' = cr /\ pc' = (IF pc = "finalizer" THEN "record" ELSE "deployment")
               /\ UNCHANGED <<queue, name, fresh>>
            \/ fresh /\ crs' = [crs EXCEPT ![name] = Grown(crs[name], cr)] /\ Return(TRUE)
            \/ crs' = crs /\ Return(TRUE)
<1>1. name \in Names /\ crs = [n \in Names |-> crs[n]] /\ faults \in 0..MaxFaults
  BY DEF TypeOK
<1>2. [crs EXCEPT ![name] = IF cr = CR(name) THEN @ ELSE Append(@, cr)]
      = [crs EXCEPT ![name] = Grown(crs[name], cr)]
  BY <1>1 DEF Grown, CR
<1>3. faults' \in 0..MaxFaults
  <2>1. faults' = faults \/ Fault("lost") \/ Fault("error")
    BY DEF Put, Call
  <2> QED
    BY <1>1, <2>1, FaultCount
<1> QED
  BY <1>2, <1>3 DEF Put, Call

LEMMA WriteCases ==
  ASSUME TypeOK, NEW kind \in KindSet, NEW ok, NEW content, Write(kind, ok, content)
  PROVE  /\ UNCHANGED <<crs, wrote, warned, monitoring>> /\ faults' \in 0..MaxFaults
         /\ \/ /\ ok /\ KidsWith(name, kind, Grown(kids[name][kind], content))
               /\ Goto(NextStep[kind])
            \/ /\ ok /\ KidsWith(name, kind, Grown(kids[name][kind], content))
               /\ Return(TRUE)
            \/ kids' = kids /\ Return(TRUE)
<1>1. name \in Names /\ faults \in 0..MaxFaults
  BY DEF TypeOK
<1>2. faults' \in 0..MaxFaults
  <2>1. faults' = faults \/ Fault("lost") \/ Fault("error")
    BY DEF Write, Call
  <2> QED
    BY <1>1, <2>1, FaultCount
<1> QED
  BY <1>1, <1>2, WrittenKid DEF Write, Call

\* The three steps alike: the child is not wanted, or as it should be in the cache, or
\* written, or the step fails.
KidStep(kind) ==
  /\ pc = kind /\ UNCHANGED <<crs, wrote, warned, monitoring>> /\ faults' \in 0..MaxFaults
  /\ \/ /\ kids' = kids /\ Goto(NextStep[kind])
        /\ \/ \A c : Suits(copy.spec, kind, c)
           \/ Suits(copy.spec, kind, kids[name][kind][1])
     \/ kids' = kids /\ Return(TRUE)
     \/ \E content \in Contents(kind, Nat) :
          /\ Suits(copy.spec, kind, content)
          /\ KidsWith(name, kind, Grown(kids[name][kind], content))
          /\ Goto(NextStep[kind]) \/ Return(TRUE)

LEMMA WriteStep ==
  ASSUME TypeOK, NEW kind \in KindSet, NEW ok, NEW content, Write(kind, ok, content),
         pc = kind, Suits(copy.spec, kind, content), ok => content \in Contents(kind, Nat)
  PROVE  KidStep(kind)
BY WriteCases DEF KidStep

LEMMA SkipStep ==
  ASSUME TypeOK, NEW kind \in KindSet, Skip(kind), pc = kind,
         \/ \A c : Suits(copy.spec, kind, c)
         \/ Suits(copy.spec, kind, kids[name][kind][1])
  PROVE  KidStep(kind)
<1>1. faults' \in 0..MaxFaults
  BY DEF TypeOK, Skip
<1> QED
  BY <1>1 DEF KidStep, Skip

LEMMA DeploymentStep ==
  ASSUME TypeOK, copy \in Objects, ReconcileDeployment PROVE KidStep("deployment")
<1> DEFINE want == Template(copy.spec)
<1>1. /\ Suits(copy.spec, "deployment", want)
      /\ ValidTemplate(want) => want \in Contents("deployment", Nat)
  BY ObjectFacts, TemplateSuits
<1>2. pc = "deployment" /\ "deployment" \in KindSet
  BY ThreeKinds DEF ReconcileDeployment
<1>3. CASE kids[name].deployment[1] = want /\ Skip("deployment")
  BY <1>1, <1>2, <1>3, SkipStep
<1>4. CASE Write("deployment", ValidTemplate(want), want)
  BY <1>1, <1>2, <1>4, WriteStep
<1> QED
  BY <1>3, <1>4 DEF ReconcileDeployment

LEMMA CreateOrUpdateStep ==
  ASSUME TypeOK, NEW kind \in KindSet, NEW want, NEW valid, CreateOrUpdate(kind, want, valid),
         pc = kind, Suits(copy.spec, kind, want), valid => want \in Contents(kind, Nat)
  PROVE  KidStep(kind)
<1> DEFINE log == kids[name][kind]
<1>1. CASE Write(kind, Last(log) = Absent /\ valid, want)
  BY <1>1, WriteStep
<1>2. CASE Write(kind, Len(log) = 1 /\ valid, want)
  BY <1>2, WriteStep
<1>3. CASE log[1] = want /\ Skip(kind)
  BY <1>3, SkipStep
<1> QED
  BY <1>1, <1>2, <1>3 DEF CreateOrUpdate

LEMMA MonitorStep ==
  ASSUME TypeOK, copy \in Objects, ReconcileServiceMonitor PROVE KidStep("monitor")
<1>1. pc = "monitor" /\ "monitor" \in KindSet /\ faults \in 0..MaxFaults
  BY ThreeKinds DEF ReconcileServiceMonitor, TypeOK
<1>2. CASE ~copy.spec.monitor /\ Skip("monitor")
  BY <1>1, <1>2, MonitorSuits, SkipStep
<1>3. CASE Return(TRUE) /\ UNCHANGED <<crs, kids, wrote, warned, monitoring, faults>>
  BY <1>1, <1>3 DEF KidStep
<1>4. CASE CreateOrUpdate("monitor", Monitor, TRUE)
  BY <1>1, <1>4, MonitorSuits, CreateOrUpdateStep
<1> QED
  BY <1>2, <1>3, <1>4 DEF ReconcileServiceMonitor

LEMMA BudgetStep ==
  ASSUME TypeOK, copy \in Objects, ReconcilePDB PROVE KidStep("pdb")
<1>1. pc = "pdb" /\ "pdb" \in KindSet /\ name \in Names
  BY ThreeKinds DEF ReconcilePDB, TypeOK
<1>2. CASE copy.spec.pdb = NoPDB /\ Skip("pdb")
  <2>1. \A c : Suits(copy.spec, "pdb", c)
    BY <1>2 DEF Suits
  <2> QED
    BY <1>1, <1>2, <2>1, SkipStep
<1>3. CASE copy.spec.pdb # NoPDB
  <2> DEFINE want == Budget(kids[name].pdb[1], copy.spec.pdb)
  <2>1. kids[name].pdb[1] \in Contents("pdb", Nat) \cup {Absent}
    BY <1>1, LogElems DEF TypeOK
  <2>2. /\ Suits(copy.spec, "pdb", want)
        /\ ValidBudget(want) => want \in Contents("pdb", Nat)
    BY <1>3, <2>1, ObjectFacts, BudgetSuits
  <2>3. CreateOrUpdate("pdb", want, ValidBudget(want))
    BY <1>3 DEF ReconcilePDB
  <2> QED
    BY <1>1, <2>2, <2>3, CreateOrUpdateStep
<1> QED
  BY <1>2, <1>3 DEF ReconcilePDB

-----------------------------------------------------------------------------
(* Type correctness *)

KidsTyped ==
  /\ DOMAIN kids = Names /\ \A n \in Names : DOMAIN kids[n] = KindSet
  /\ \A n \in Names, kind \in KindSet :
       kids[n][kind] \in Seq(Contents(kind, Nat) \cup {Absent}) /\ Len(kids[n][kind]) > 0

LEMMA TypedLog ==
  ASSUME TypeOK, NEW n \in Names, NEW kind \in KindSet, NEW log,
         KidsWith(n, kind, log), log \in Seq(Contents(kind, Nat) \cup {Absent}), Len(log) > 0
  PROVE  KidsTyped'
BY DEF TypeOK, KidsTyped, KidsWith

LEMMA TypedReturn ==
  ASSUME TypeOK, NEW again \in BOOLEAN, Return(again)
  PROVE  /\ queue' \subseteq Names /\ name' \in Names /\ copy' \in Versions /\ fresh' \in BOOLEAN
         /\ pc' = "idle" /\ name' = AName
BY SpecsAssumption DEF TypeOK, Return, AName, Versions

LEMMA KidStepType ==
  ASSUME TypeOK, NEW kind \in KindSet, KidStep(kind) PROVE TypeOK'
<1>1. name \in Names
  BY DEF TypeOK
<1>2. KidsTyped'
  <2>1. CASE kids' = kids
    BY <2>1 DEF TypeOK, KidsTyped
  <2>2. ASSUME NEW content \in Contents(kind, Nat),
               KidsWith(name, kind, Grown(kids[name][kind], content))
        PROVE  KidsTyped'
    <3>1. kids[name][kind] \in Seq(Contents(kind, Nat) \cup {Absent}) /\ Len(kids[name][kind]) > 0
      BY <1>1 DEF TypeOK
    <3>2. PICK log : log = Grown(kids[name][kind], content)
      OBVIOUS
    <3>3. content \in Contents(kind, Nat) \cup {Absent}
      OBVIOUS
    <3>4. log \in Seq(Contents(kind, Nat) \cup {Absent}) /\ Len(log) > 0
      BY <3>1, <3>2, <3>3, GrownLog
    <3> QED
      BY <1>1, <2>2, <3>2, <3>4, TypedLog
  <2> QED
    BY <2>1, <2>2 DEF KidStep
<1>3. Goto(NextStep[kind]) \/ Return(TRUE)
  BY DEF KidStep
<1>4. NextStep[kind] \in {"status"} \cup KindSet
  BY ThreeKinds DEF NextStep
<1>5. /\ queue' \subseteq Names /\ name' \in Names /\ copy' \in Versions /\ fresh' \in BOOLEAN
      /\ pc' \in {"idle", "finalizer", "record", "status"} \cup KindSet
  <2>1. CASE Goto(NextStep[kind])
    BY <1>4, <2>1 DEF TypeOK, Goto
  <2>2. CASE Return(TRUE)
    BY <2>2, TypedReturn
  <2> QED
    BY <1>3, <2>1, <2>2
<1> QED
  BY <1>2, <1>5 DEF TypeOK, KidStep, KidsTyped

\* the object that Reconcile has in hand when it writes one
LEMMA PutType ==
  ASSUME TypeOK, NEW cr \in Objects, Put(cr) PROVE TypeOK'
<1>1. /\ name \in Names /\ crs[name] \in Seq(Versions) /\ Len(crs[name]) > 0
      /\ crs \in [Names -> Seq(Versions)] /\ cr \in Versions
  BY DEF TypeOK, Versions
<1>2. crs' \in [Names -> Seq(Versions)] /\ \A n \in Names : Len(crs'[n]) > 0
  <2>1. CASE crs' = crs
    BY <2>1 DEF TypeOK
  <2>2. CASE crs' = [crs EXCEPT ![name] = Grown(crs[name], cr)]
    <3>1. PICK log : log = Grown(crs[name], cr)
      OBVIOUS
    <3>2. log \in Seq(Versions) /\ Len(log) > 0
      BY <1>1, <3>1, GrownLog
    <3>3. crs' = [crs EXCEPT ![name] = log]
      BY <2>2, <3>1
    <3> QED
      BY <1>1, <3>2, <3>3 DEF TypeOK
  <2> QED
    BY <2>1, <2>2, PutCases
<1>3. /\ queue' \subseteq Names /\ name' \in Names /\ copy' \in Versions /\ fresh' \in BOOLEAN
      /\ pc' \in {"idle", "finalizer", "record", "status"} \cup KindSet
  <2>1. CASE /\ copy' = cr /\ pc' = (IF pc = "finalizer" THEN "record" ELSE "deployment")
             /\ UNCHANGED <<queue, name, fresh>>
    BY <1>1, <2>1, ThreeKinds DEF TypeOK
  <2>2. CASE Return(TRUE)
    BY <2>2, TypedReturn
  <2> QED
    BY <2>1, <2>2, PutCases
<1>4. UNCHANGED <<kids, wrote, warned, monitoring>> /\ faults' \in 0..MaxFaults
  BY PutCases
<1> QED
  BY <1>2, <1>3, <1>4 DEF TypeOK

\* what a user's write is of
LEMMA UserWrites ==
  ASSUME TypeOK, NEW n \in Names, CreateCR(n) \/ EditCR(n)
  PROVE  \E cr : /\ Admit(n, cr) /\ faults' \in 0..MaxFaults
                 /\ Default(cr) \in Objects /\ Default(cr).fin = cr.fin /\ Default(cr).spec = cr.spec
                 /\ Default(cr).label = cr.spec.default
                 /\ cr.spec \in SpecSet /\ cr.fin \in BOOLEAN
<1>1. faults \in 0..MaxFaults /\ Specs[n] \subseteq SpecSet
  BY DEF TypeOK, SpecSet
<1>2. CASE CreateCR(n)
  <2>1. PICK s \in Specs[n] : Admit(n, [spec |-> s, label |-> FALSE, fin |-> FALSE, tunnel |-> FALSE])
    BY <1>2 DEF CreateCR
  <2> DEFINE cr == [spec |-> s, label |-> FALSE, fin |-> FALSE, tunnel |-> FALSE]
  <2>2. /\ Default(cr) \in Objects /\ Default(cr).fin = cr.fin /\ Default(cr).spec = cr.spec
        /\ Default(cr).label = cr.spec.default
    BY <1>1, UserObject
  <2>3. faults' \in 0..MaxFaults
    BY <1>1, <1>2, FaultCount DEF CreateCR
  <2>4. Admit(n, cr) /\ cr.spec \in SpecSet /\ cr.fin \in BOOLEAN
    BY <1>1, <2>1
  <2> QED
    BY <2>2, <2>3, <2>4
<1>3. CASE EditCR(n)
  <2>1. PICK s \in Specs[n] : Admit(n, [CR(n) EXCEPT !.spec = s])
    BY <1>3 DEF EditCR
  <2>2. CR(n) \in Objects
    BY <1>3, LogElems DEF EditCR, Exists, CR, Last, TypeOK, Versions
  <2> DEFINE cr == [CR(n) EXCEPT !.spec = s]
  <2>3. cr.spec = s /\ cr.fin = CR(n).fin /\ cr.fin \in BOOLEAN
    BY <2>2 DEF Objects
  <2>4. /\ Default(cr) \in Objects /\ Default(cr).fin = cr.fin /\ Default(cr).spec = cr.spec
        /\ Default(cr).label = cr.spec.default
    BY <1>1, <2>2, <2>3, UserObject
  <2>5. faults' \in 0..MaxFaults
    BY <1>1, <1>3, FaultCount DEF EditCR
  <2>6. Admit(n, cr) /\ cr.spec \in SpecSet
    BY <1>1, <2>1, <2>3
  <2> QED
    BY <2>3, <2>4, <2>5, <2>6
<1> QED
  BY <1>2, <1>3

LEMMA UserWritesType ==
  ASSUME TypeOK, NEW n \in Names, CreateCR(n) \/ EditCR(n) PROVE TypeOK'
<1>1. PICK cr : /\ Admit(n, cr) /\ faults' \in 0..MaxFaults
                /\ Default(cr) \in Objects /\ cr.spec \in SpecSet /\ cr.fin \in BOOLEAN
  BY UserWrites
<1>2. PICK new : new = Default(cr) /\ new \in Versions
  BY <1>1 DEF Versions
<1>3. PICK log : log = Append(crs[n], new)
  OBVIOUS
<1>4. log \in Seq(Versions) /\ Len(log) > 0
  <2>1. crs[n] \in Seq(Versions) /\ Len(crs[n]) \in Nat
    BY DEF TypeOK
  <2> QED
    BY <1>2, <1>3, <2>1, AppendLog
<1>5. crs' \in [Names -> Seq(Versions)] /\ \A m \in Names : Len(crs'[m]) > 0
  <2>1. crs' = [crs EXCEPT ![n] = log]
    BY <1>1, <1>2, <1>3 DEF Admit
  <2> QED
    BY <1>4, <2>1 DEF TypeOK
<1>6. wrote' \in [Names -> Writes \cup {Absent}]
  BY <1>1 DEF TypeOK, Admit, Writes
<1>7. warned' \in [Names -> BOOLEAN]
  <2>1. Warns(cr) \in BOOLEAN
    BY <1>1, ObjectFacts DEF Warns, IsSpec
  <2> QED
    BY <1>1, <2>1 DEF TypeOK, Admit
<1>8. fresh' \in BOOLEAN
  BY <1>1 DEF Admit
<1> QED
  BY <1>1, <1>5, <1>6, <1>7, <1>8 DEF TypeOK, Admit

LEMMA GetType ==
  ASSUME TypeOK, NEW n \in Names, Get(n) PROVE TypeOK'
<1>1. crs[n][1] \in Versions
  BY LogElems DEF TypeOK
<1>2. /\ queue' \subseteq Names /\ name' \in Names /\ copy' \in Versions /\ fresh' \in BOOLEAN
      /\ pc' \in {"idle", "finalizer", "record", "status"} \cup KindSet
  <2>1. CASE UNCHANGED worker
    BY <2>1 DEF Get, TypeOK, worker
  <2>2. CASE /\ pc' = IF crs[n][1].fin THEN "record" ELSE "finalizer"
             /\ name' = n /\ copy' = crs[n][1] /\ fresh' = (Len(crs[n]) = 1)
    BY <1>1, <2>2 DEF Get, TypeOK
  <2> QED
    BY <2>1, <2>2 DEF Get
<1> QED
  BY <1>2 DEF Get, TypeOK

LEMMA ObserveCRType ==
  ASSUME TypeOK, NEW n \in Names, ObserveCR(n) PROVE TypeOK'
<1>1. PICK log : log = Tail(crs[n])
  OBVIOUS
<1>2. log \in Seq(Versions) /\ Len(log) > 0
  BY <1>1, TailLog DEF ObserveCR, TypeOK
<1>3. crs' = [crs EXCEPT ![n] = log]
  BY <1>1 DEF ObserveCR
<1>4. crs' \in [Names -> Seq(Versions)] /\ \A m \in Names : Len(crs'[m]) > 0
  BY <1>2, <1>3 DEF TypeOK
<1> QED
  BY <1>4 DEF ObserveCR, TypeOK, worker

LEMMA ObserveKidType ==
  ASSUME TypeOK, NEW n \in Names, NEW kind \in KindSet, ObserveKid(n, kind) PROVE TypeOK'
<1>1. PICK log : log = Tail(kids[n][kind])
  OBVIOUS
<1>2. log \in Seq(Contents(kind, Nat) \cup {Absent}) /\ Len(log) > 0
  BY <1>1, TailLog DEF ObserveKid, TypeOK
<1>3. KidsWith(n, kind, log)
  BY <1>1, WrittenKid DEF ObserveKid
<1>4. KidsTyped'
  BY <1>2, <1>3, TypedLog
<1> QED
  BY <1>4 DEF ObserveKid, TypeOK, KidsTyped, worker

\* what people make of a child
LEMMA DriftContent ==
  ASSUME TypeOK, NEW n \in Names, NEW kind \in KindSet, Drift(n, kind)
  PROVE  \E content \in Contents(kind, Nat) \cup {Absent} :
           KidsWith(n, kind, Append(kids[n][kind], content))
<1>1. Kid(n, kind) \in Contents(kind, Nat)
  <2>1. kids[n][kind] \in Seq(Contents(kind, Nat) \cup {Absent}) /\ Len(kids[n][kind]) > 0
    BY DEF TypeOK
  <2>2. Kid(n, kind) \in Contents(kind, Nat) \cup {Absent}
    BY <2>1, LogElems DEF Kid, Last
  <2> QED
    BY <2>2 DEF Drift
<1>2. PICK content \in {Absent} \cup
         (CASE kind = "deployment" -> {[Kid(n, kind) EXCEPT !.replicas = @ + 1]}
            [] kind = "pdb" -> {[f \in {"max"} |-> 2]}
            [] OTHER -> {}) :
         kids' = [kids EXCEPT ![n][kind] = Append(@, content)]
  BY DEF Drift
<1>3. content \in Contents(kind, Nat) \cup {Absent}
  <2>1. CASE kind = "deployment"
    BY <1>1, <1>2, <2>1 DEF Contents
  <2>2. CASE kind = "pdb"
    BY <1>2, <2>2 DEF Contents
  <2>3. CASE kind = "monitor"
    BY <1>2, <2>3
  <2> QED
    BY <2>1, <2>2, <2>3, ThreeKinds
<1> QED
  BY <1>2, <1>3, WrittenKid

LEMMA DriftType ==
  ASSUME TypeOK, NEW n \in Names, NEW kind \in KindSet, Drift(n, kind) PROVE TypeOK'
<1>1. PICK content \in Contents(kind, Nat) \cup {Absent} :
        KidsWith(n, kind, Append(kids[n][kind], content))
  BY DriftContent
<1>2. PICK log : log = Append(kids[n][kind], content)
  OBVIOUS
<1>3. log \in Seq(Contents(kind, Nat) \cup {Absent}) /\ Len(log) > 0
  <2>1. kids[n][kind] \in Seq(Contents(kind, Nat) \cup {Absent}) /\ Len(kids[n][kind]) \in Nat
    BY DEF TypeOK
  <2> QED
    BY <1>2, <2>1, AppendLog
<1>4. KidsTyped'
  BY <1>1, <1>2, <1>3, TypedLog
<1>5. faults' \in 0..MaxFaults
  BY FaultCount DEF Drift, TypeOK
<1> QED
  BY <1>4, <1>5 DEF Drift, TypeOK, KidsTyped, worker

LEMMA RestartType ==
  ASSUME TypeOK, Restart PROVE TypeOK'
<1>1. faults' \in 0..MaxFaults
  BY FaultCount DEF Restart, TypeOK
<1>2. name' \in Names
  BY SpecsAssumption DEF Restart, AName
<1> QED
  BY <1>1, <1>2 DEF Restart, TypeOK, Versions

LEMMA UpdateStatusType ==
  ASSUME TypeOK, UpdateStatus PROVE TypeOK'
<1>1. Return(TRUE) \/ Return(FALSE)
  BY DEF UpdateStatus
<1>2. /\ queue' \subseteq Names /\ name' \in Names /\ copy' \in Versions /\ fresh' \in BOOLEAN
      /\ pc' = "idle"
  BY <1>1, TypedReturn
<1> QED
  BY <1>2 DEF UpdateStatus, TypeOK

-----------------------------------------------------------------------------
(* The invariant *)

LeftAlone(n) ==
  Exists(n) /\ n \notin queue /\ Len(crs[n]) = 1 /\ ~(pc # "idle" /\ name = n)
  => \A kind \in KindSet : Len(kids[n][kind]) = 1 => Applied(n, kind)

LEMMA SameApplied ==
  ASSUME NEW n \in Names, NEW kind \in KindSet, CR(n)' = CR(n), Kid(n, kind)' = Kid(n, kind)
  PROVE  Applied(n, kind)' <=> Applied(n, kind)
BY DEF Applied, Wanted

\* Nothing is to be said of n's children any more, or nothing about them has changed.
Undisturbed(n) ==
  \/ n \in queue'
  \/ Len(crs'[n]) # 1
  \/ /\ n \notin queue /\ crs'[n] = crs[n]
     /\ \A kind \in KindSet : kids'[n][kind] = kids[n][kind] \/ Len(kids'[n][kind]) # 1

LEMMA StaysAlone ==
  ASSUME NEW n \in Names, LeftAlone(n), Undisturbed(n),
         pc # "idle" /\ name = n => (pc' # "idle" /\ name' = n) \/ n \in queue'
  PROVE  LeftAlone(n)'
<1> SUFFICES ASSUME n \notin queue', Len(crs'[n]) = 1, Exists(n)', ~(pc' # "idle" /\ name' = n),
                    NEW kind \in KindSet, Len(kids'[n][kind]) = 1
             PROVE  Applied(n, kind)'
  BY DEF LeftAlone
<1>1. /\ n \notin queue /\ crs'[n] = crs[n] /\ kids'[n][kind] = kids[n][kind]
      /\ ~(pc # "idle" /\ name = n)
  BY DEF Undisturbed
<1>2. CR(n)' = CR(n) /\ Kid(n, kind)' = Kid(n, kind)
  BY <1>1 DEF CR, Kid, Last
<1>3. Applied(n, kind)
  BY <1>1, <1>2 DEF LeftAlone, Exists
<1> QED
  BY <1>2, <1>3, SameApplied

LEMMA StaysInHand ==
  ASSUME PassedIsApplied, NEW n \in Names, n = name, Undisturbed(n), UNCHANGED <<pc, name, copy>>
  PROVE  PassedIsApplied'
<1> SUFFICES ASSUME pc' # "idle", n \notin queue', Len(crs'[n]) = 1
             PROVE  /\ copy' = CR(n)'
                    /\ \A k \in Passed' : Len(kids'[n][k]) = 1 => Applied(n, k)'
  BY DEF PassedIsApplied
<1>1. /\ n \notin queue /\ crs'[n] = crs[n] /\ Passed' = Passed /\ Passed \subseteq KindSet
      /\ \A k \in KindSet : kids'[n][k] = kids[n][k] \/ Len(kids'[n][k]) # 1
  BY ThreeKinds DEF Undisturbed, Passed
<1>2. copy = CR(n) /\ \A k \in Passed : Len(kids[n][k]) = 1 => Applied(n, k)
  BY <1>1 DEF PassedIsApplied
<1>3. CR(n)' = CR(n)
  BY <1>1 DEF CR, Last
<1>4. ASSUME NEW k \in Passed, Len(kids'[n][k]) = 1 PROVE Applied(n, k)'
  <2>1. k \in KindSet /\ kids'[n][k] = kids[n][k]
    BY <1>1, <1>4
  <2>2. Kid(n, k)' = Kid(n, k)
    BY <2>1 DEF Kid, Last
  <2> QED
    BY <1>2, <1>3, <1>4, <2>1, <2>2, SameApplied
<1> QED
  BY <1>1, <1>2, <1>3, <1>4

LEMMA InitInvariant ==
  ASSUME Init PROVE TypeOK /\ Invariant
<1>1. \A n \in Names : crs[n] = <<Absent>> /\ CR(n) = Absent
  BY DEF Init, CR, Last
<1>2. \A n \in Names, kind \in KindSet : kids[n][kind] = <<Absent>>
  BY DEF Init
<1>3. <<Absent>> \in Seq(Versions) /\ Len(<<Absent>>) = 1 /\ <<Absent>>[1] = Absent
  BY DEF Versions
<1>4. TypeOK
  <2>2. DOMAIN kids = Names /\ \A n \in Names : DOMAIN kids[n] = KindSet
    BY DEF Init
  <2>3. AName \in Names
    BY SpecsAssumption DEF AName
  <2>4. crs \in [Names -> Seq(Versions)] /\ \A n \in Names : Len(crs[n]) > 0
    BY <1>3 DEF Init
  <2>5. \A n \in Names, kind \in KindSet :
          /\ kids[n][kind] \in Seq(Contents(kind, Nat) \cup {Absent})
          /\ Len(kids[n][kind]) > 0
    <3> TAKE n \in Names, kind \in KindSet
    <3>1. PICK S : S = Contents(kind, Nat) \cup {Absent}
      OBVIOUS
    <3>2. Absent \in S
      BY <3>1
    <3>3. <<Absent>> \in Seq(S) /\ Len(<<Absent>>) > 0
      BY <3>2, SingletonLog
    <3> QED
      BY <1>2, <3>1, <3>3
  <2>6. wrote \in [Names -> Writes \cup {Absent}] /\ warned \in [Names -> BOOLEAN]
    BY DEF Init
  <2>7. /\ monitoring \in BOOLEAN /\ queue \subseteq Names /\ name \in Names /\ copy \in Versions
        /\ fresh \in BOOLEAN /\ pc = "idle"
    BY <2>3 DEF Init, Versions
  <2>8. faults \in 0..MaxFaults
    BY FaultsAssumption DEF Init
  <2> QED
    BY <2>2, <2>4, <2>5, <2>6, <2>7, <2>8 DEF TypeOK
<1>5. pc = "idle" /\ \A n \in Names : ~Exists(n)
  BY <1>1 DEF Init, Exists
<1>6. LabelsFollow
  BY <1>1, <1>3, <1>5 DEF LabelsFollow
<1> QED
  BY <1>4, <1>5, <1>6 DEF Invariant, CopyIsCurrent, UsersSpecIsKept, PassedIsApplied, LeftIsApplied

\* Steps that touch no object keep what is said of objects alone.
LEMMA ObjectsStay ==
  ASSUME Invariant, UNCHANGED <<crs, wrote>>,
         pc' = "idle" \/ (pc # "idle" /\ pc' \notin {"idle", "finalizer"} /\ UNCHANGED <<name, copy, fresh>>)
  PROVE  (LabelsFollow /\ CopyIsCurrent /\ UsersSpecIsKept)'
BY DEF Invariant, LabelsFollow, CopyIsCurrent, UsersSpecIsKept, Exists, CR, Last

LEMMA KidStepInvariant ==
  ASSUME TypeOK, Invariant, NEW kind \in KindSet, KidStep(kind) PROVE Invariant'
<1>1. /\ name \in Names /\ UNCHANGED <<crs, wrote>> /\ pc = kind
      /\ kind \in {"deployment", "monitor", "pdb"}
  BY ThreeKinds DEF TypeOK, KidStep
<1>2. /\ Return(TRUE) => pc' = "idle" /\ queue' = queue \cup {name}
      /\ Goto(NextStep[kind]) => /\ pc' \in {"monitor", "pdb", "status"}
                                 /\ UNCHANGED <<queue, name, copy, fresh>>
      /\ Return(TRUE) \/ Goto(NextStep[kind])
  BY <1>1 DEF Return, Goto, NextStep, KidStep
<1>3. (LabelsFollow /\ CopyIsCurrent /\ UsersSpecIsKept)'
  BY <1>1, <1>2, ObjectsStay
<1>4. \A m \in Names, k \in KindSet : m # name \/ k # kind => kids'[m][k] = kids[m][k]
  BY DEF KidStep, KidsWith
<1>5. PassedIsApplied'
  <2> SUFFICES ASSUME pc' # "idle", NEW n \in Names, n = name', n \notin queue', Len(crs'[n]) = 1
               PROVE  /\ copy' = CR(n)'
                      /\ \A k \in Passed' : Len(kids'[n][k]) = 1 => Applied(n, k)'
    <3>1. \E n \in Names : n = name'
      BY <1>1, <1>2, SpecsAssumption DEF KidStep, Return, Goto, AName
    <3> QED
      BY <3>1 DEF PassedIsApplied
  <2>1. /\ Goto(NextStep[kind]) /\ UNCHANGED <<queue, name, copy, fresh>>
        /\ n = name /\ n \notin queue /\ Len(crs[n]) = 1 /\ pc # "idle"
    BY <1>1, <1>2
  <2>2. copy' = CR(n)' /\ \A k \in Passed : Len(kids[n][k]) = 1 => Applied(n, k)
    BY <1>1, <2>1 DEF Invariant, PassedIsApplied, CR, Last
  <2>3. Passed' = Passed \cup {kind} /\ kind \notin Passed /\ Passed \subseteq KindSet
    BY <1>1, <2>1, ThreeKinds DEF Passed, Goto, NextStep
  <2>4. ASSUME NEW k \in Passed, Len(kids'[n][k]) = 1 PROVE Applied(n, k)'
    <3>1. k # kind /\ k \in KindSet
      BY <2>3
    <3>2. CR(n)' = CR(n) /\ Kid(n, k)' = Kid(n, k) /\ kids'[n][k] = kids[n][k]
      BY <1>1, <1>4, <2>1, <3>1 DEF CR, Kid, Last
    <3>3. Applied(n, k)' <=> Applied(n, k)
      BY <3>1, <3>2, SameApplied
    <3> QED
      BY <2>2, <2>4, <3>2, <3>3
  <2>5. ASSUME Len(kids'[n][kind]) = 1 PROVE Applied(n, kind)'
    <3>1. kids[n][kind] \in Seq(Contents(kind, Nat) \cup {Absent}) /\ Len(kids[n][kind]) > 0
      BY DEF TypeOK
    <3>2. Suits(copy.spec, kind, Last(kids'[n][kind]))
      <4>1. CASE kids' = kids /\ Suits(copy.spec, kind, kids[name][kind][1])
        BY <2>1, <2>5, <4>1 DEF Last
      <4>2. ASSUME NEW content \in Contents(kind, Nat), Suits(copy.spec, kind, content),
                   KidsWith(name, kind, Grown(kids[name][kind], content))
            PROVE  Suits(copy.spec, kind, Last(kids'[n][kind]))
        <5>1. kids'[n][kind] = Grown(kids[n][kind], content)
          BY <1>1, <2>1, <4>2 DEF KidsWith
        <5>2. Last(Grown(kids[n][kind], content)) = content
          BY <3>1, GrownLog
        <5> QED
          BY <4>2, <5>1, <5>2
      <4>3. CASE \A c : Suits(copy.spec, kind, c)
        BY <4>3
      <4>4. ~Return(TRUE)
        BY <1>1, <1>2, <2>1
      <4> QED
        BY <4>1, <4>2, <4>3, <4>4 DEF KidStep
    <3>3. Suits(CR(n)'.spec, kind, Kid(n, kind)')
      BY <2>1, <2>2, <3>2 DEF Kid, Last
    <3> QED
      BY <3>3, AppliedPrimed
  <2> QED
    BY <2>1, <2>2, <2>3, <2>4, <2>5
<1>6. LeftIsApplied'
  <2>1. ASSUME NEW n \in Names PROVE LeftAlone(n)'
    <3>1. LeftAlone(n)
      BY DEF Invariant, LeftIsApplied, LeftAlone
    <3>2. CASE n = name
      BY <1>1, <1>2, <3>2 DEF LeftAlone
    <3>3. CASE n # name
      BY <1>1, <1>2, <1>4, <3>1, <3>3, StaysAlone DEF Undisturbed
    <3> QED
      BY <3>2, <3>3
  <2> QED
    BY <2>1 DEF LeftIsApplied, LeftAlone
<1> QED
  BY <1>3, <1>5, <1>6 DEF Invariant

\* Changes around Reconcile: of the objects' logs, as long as their stored versions
\* stay, of the children's logs and of the queue.
LEMMA ClusterStep ==
  ASSUME TypeOK, Invariant, \A n \in Names : Undisturbed(n),
         UNCHANGED <<wrote, worker>>, LabelsFollow', \A n \in Names : CR(n)' = CR(n)
  PROVE  Invariant'
<1>1. UNCHANGED <<pc, name, copy, fresh>> /\ name \in Names
  BY DEF worker, TypeOK
<1>2. CopyIsCurrent' /\ UsersSpecIsKept'
  BY <1>1 DEF Invariant, CopyIsCurrent, UsersSpecIsKept, Exists
<1>3. PassedIsApplied'
  BY <1>1, StaysInHand DEF Invariant
<1>4. ASSUME NEW n \in Names PROVE LeftAlone(n)'
  <2>1. LeftAlone(n)
    BY DEF Invariant, LeftIsApplied, LeftAlone
  <2> QED
    BY <1>1, <2>1, StaysAlone
<1> QED
  BY <1>2, <1>3, <1>4 DEF Invariant, LeftIsApplied, LeftAlone

LEMMA ObserveKidInvariant ==
  ASSUME TypeOK, Invariant, NEW n \in Names, NEW kind \in KindSet, ObserveKid(n, kind)
  PROVE  Invariant'
<1>1. KidsWith(n, kind, Tail(kids[n][kind])) /\ UNCHANGED <<crs, wrote, worker>>
  BY WrittenKid DEF ObserveKid
<1>2. \A m \in Names : Undisturbed(m)
  BY <1>1 DEF ObserveKid, KidsWith, Undisturbed
<1>3. LabelsFollow' /\ \A m \in Names : CR(m)' = CR(m)
  BY <1>1 DEF Invariant, LabelsFollow, CR, Last, worker
<1> QED
  BY <1>1, <1>2, <1>3, ClusterStep

LEMMA DriftInvariant ==
  ASSUME TypeOK, Invariant, NEW n \in Names, NEW kind \in KindSet, Drift(n, kind)
  PROVE  Invariant'
<1>1. UNCHANGED <<crs, wrote, worker, queue>>
  BY DEF Drift
<1>2. PICK content \in Contents(kind, Nat) \cup {Absent} :
        KidsWith(n, kind, Append(kids[n][kind], content))
  BY DriftContent
<1>3. Len(kids'[n][kind]) # 1
  <2>1. PICK log : log = kids[n][kind] /\ log \in Seq(Contents(kind, Nat) \cup {Absent})
    BY DEF TypeOK
  <2>2. Len(log) \in Nat /\ Len(log) > 0 /\ Len(Append(log, content)) = Len(log) + 1
    BY <2>1, AppendLog DEF TypeOK
  <2>3. kids'[n][kind] = Append(log, content)
    BY <1>2, <2>1 DEF KidsWith
  <2> QED
    BY <2>2, <2>3
<1>4. \A m \in Names : Undisturbed(m)
  BY <1>1, <1>2, <1>3 DEF KidsWith, Undisturbed
<1>5. LabelsFollow' /\ \A m \in Names : CR(m)' = CR(m)
  BY <1>1 DEF Invariant, LabelsFollow, CR, Last, worker
<1> QED
  BY <1>1, <1>4, <1>5, ClusterStep

LEMMA ObserveCRInvariant ==
  ASSUME TypeOK, Invariant, NEW n \in Names, ObserveCR(n) PROVE Invariant'
<1>1. UNCHANGED <<kids, wrote, worker>> /\ n \in queue' /\ queue \subseteq queue'
  BY DEF ObserveCR
<1>2. PICK log : log = Tail(crs[n])
  OBVIOUS
<1>3. crs'[n] = log /\ \A m \in Names : m # n => crs'[m] = crs[m]
  BY <1>2 DEF ObserveCR, TypeOK
<1>4. PICK old : old = crs[n] /\ old \in Seq(Versions) /\ Len(old) > 1 /\ Len(old) \in Nat
  BY DEF ObserveCR, TypeOK
<1>5. /\ Last(log) = Last(old) /\ Len(log) = Len(old) - 1
      /\ \A i \in 1..Len(log) : log[i] = old[i + 1]
  BY <1>2, <1>4, TailLog DEF Last
<1>6. \A m \in Names : CR(m)' = CR(m)
  BY <1>3, <1>4, <1>5 DEF CR, Last
<1>7. LabelsFollow'
  <2>1. ASSUME NEW i \in 1..Len(log), log[i] # Absent PROVE log[i].label = log[i].spec.default
    <3>1. i + 1 \in 1..Len(old) /\ log[i] = old[i + 1]
      BY <1>4, <1>5
    <3> QED
      BY <1>4, <2>1, <3>1 DEF Invariant, LabelsFollow
  <2> QED
    BY <1>1, <1>3, <2>1 DEF Invariant, LabelsFollow, worker
<1>8. \A m \in Names : Undisturbed(m)
  BY <1>1, <1>3 DEF Undisturbed
<1> QED
  BY <1>1, <1>6, <1>7, <1>8, ClusterStep

LEMMA UserWritesInvariant ==
  ASSUME TypeOK, Invariant, NEW n \in Names, CreateCR(n) \/ EditCR(n) PROVE Invariant'
<1>1. PICK cr : /\ Admit(n, cr) /\ Default(cr) \in Objects
                /\ Default(cr).fin = cr.fin /\ Default(cr).spec = cr.spec
                /\ Default(cr).label = cr.spec.default
                /\ cr.spec \in SpecSet /\ cr.fin \in BOOLEAN
  BY UserWrites
<1>2. PICK new : new = Default(cr) /\ new \in Versions
  BY <1>1 DEF Versions
<1>3. PICK old : old = crs[n] /\ old \in Seq(Versions) /\ Len(old) > 0 /\ Len(old) \in Nat
  BY DEF TypeOK
<1>4. PICK log : log = Append(old, new)
  OBVIOUS
<1>5. /\ Len(log) = Len(old) + 1 /\ Last(log) = new
      /\ \A i \in 1..Len(log) : log[i] \in Elems(old) \cup {new}
  BY <1>2, <1>3, <1>4, AppendLog DEF Last, Elems
<1>6. crs'[n] = log /\ \A m \in Names : m # n => crs'[m] = crs[m]
  BY <1>1, <1>2, <1>3, <1>4 DEF Admit, TypeOK
<1>7. CR(n)' = new /\ \A m \in Names : m # n => CR(m)' = CR(m)
  BY <1>5, <1>6 DEF CR
<1>8. /\ wrote'[n] = [spec |-> cr.spec, fin |-> cr.fin] /\ wrote'[n] \in Writes
      /\ \A m \in Names : m # n => wrote'[m] = wrote[m]
      /\ UNCHANGED <<kids, queue, pc, name, copy>> /\ (fresh' <=> fresh /\ n # name)
  BY <1>1 DEF Admit, TypeOK, Writes
<1>9. LabelsFollow'
  <2>1. \A v \in Elems(old) : v # Absent => v.label = v.spec.default
    BY <1>3 DEF Invariant, LabelsFollow, Elems
  <2>2. \A i \in 1..Len(log) : log[i] # Absent => log[i].label = log[i].spec.default
    BY <1>1, <1>2, <1>5, <2>1
  <2> QED
    BY <1>6, <1>8, <2>2 DEF Invariant, LabelsFollow
<1>10. CopyIsCurrent'
  BY <1>1, <1>2, <1>7, <1>8 DEF Invariant, CopyIsCurrent, Exists, TypeOK
<1>11. UsersSpecIsKept'
  BY <1>1, <1>2, <1>7, <1>8 DEF Invariant, UsersSpecIsKept, Exists
<1>12. \A m \in Names : m \notin queue => Undisturbed(m)
  BY <1>3, <1>5, <1>6, <1>8 DEF Undisturbed
<1>13. \A m \in Names : Undisturbed(m)
  BY <1>8, <1>12 DEF Undisturbed
<1>14. PassedIsApplied'
  BY <1>8, <1>13, StaysInHand DEF Invariant, TypeOK
<1>15. ASSUME NEW m \in Names PROVE LeftAlone(m)'
  <2>1. LeftAlone(m)
    BY DEF Invariant, LeftIsApplied, LeftAlone
  <2> QED
    BY <1>8, <1>13, <2>1, StaysAlone
<1> QED
  BY <1>9, <1>10, <1>11, <1>14, <1>15 DEF Invariant, LeftIsApplied, LeftAlone

LEMMA GetInvariant ==
  ASSUME TypeOK, Invariant, NEW n \in Names, Get(n) PROVE Invariant'
<1>1. /\ UNCHANGED <<crs, kids, wrote>> /\ pc = "idle" /\ queue' = queue \ {n}
      /\ \A m \in Names : CR(m)' = CR(m)
  BY DEF Get, CR, Last
<1>2. PICK log : log = crs[n] /\ log \in Seq(Versions) /\ Len(log) > 0
  BY DEF TypeOK
<1>3. log[1] \in Versions /\ (Len(log) = 1 => log[1] = CR(n))
  BY <1>2, LogElems DEF CR, Last
<1>4. \/ log[1] = Absent /\ UNCHANGED worker
      \/ /\ log[1] \in Objects /\ pc' = IF log[1].fin THEN "record" ELSE "finalizer"
         /\ name' = n /\ copy' = log[1] /\ (fresh' <=> Len(log) = 1)
  BY <1>2, <1>3 DEF Get, Versions
<1>5. ASSUME NEW m \in Names, m # n PROVE LeftAlone(m)'
  <2>1. LeftAlone(m) /\ Undisturbed(m)
    BY <1>1, <1>5 DEF Invariant, LeftIsApplied, LeftAlone, Undisturbed
  <2> QED
    BY <1>1, <2>1, StaysAlone
<1>6. UsersSpecIsKept'
  BY <1>1 DEF Invariant, UsersSpecIsKept, Exists
<1>7. CASE log[1] = Absent /\ UNCHANGED worker
  <2>1. UNCHANGED <<pc, name, copy, fresh>>
    BY <1>7 DEF worker
  <2>2. (LabelsFollow /\ CopyIsCurrent)'
    BY <1>1, <2>1, ObjectsStay
  <2>3. LeftAlone(n)'
    BY <1>1, <1>2, <1>3, <1>7 DEF LeftAlone, Exists
  <2> QED
    BY <1>1, <1>5, <1>6, <2>1, <2>2, <2>3 DEF Invariant, PassedIsApplied, LeftIsApplied, LeftAlone
<1>8. CASE /\ log[1] \in Objects /\ pc' = IF log[1].fin THEN "record" ELSE "finalizer"
           /\ name' = n /\ copy' = log[1] /\ (fresh' <=> Len(log) = 1)
  <2>1. LabelsFollow'
    <3>1. log[1].label = log[1].spec.default
      <4>1. 1 \in 1..Len(log) /\ log[1] # Absent
        BY <1>2, <1>8, ObjectsAssumption
      <4> QED
        BY <1>2, <4>1 DEF Invariant, LabelsFollow
    <3> QED
      BY <1>1, <1>8, <3>1 DEF Invariant, LabelsFollow
  <2>2. CopyIsCurrent'
    BY <1>1, <1>3, <1>8 DEF Invariant, CopyIsCurrent, Exists
  <2>3. PassedIsApplied'
    BY <1>1, <1>2, <1>3, <1>8 DEF PassedIsApplied, Passed
  <2>4. LeftAlone(n)'
    BY <1>8 DEF LeftAlone
  <2> QED
    BY <1>5, <1>6, <2>1, <2>2, <2>3, <2>4 DEF Invariant, LeftIsApplied, LeftAlone
<1> QED
  BY <1>4, <1>7, <1>8

\* The controller's writes of the object: one that starts from what is stored may give
\* the finalizer, and the defaults with it, or leaves the specification alone.
LEMMA PutInvariant ==
  ASSUME TypeOK, Invariant, NEW cr \in Objects, Put(cr), pc # "idle",
         cr.label = cr.spec.default, copy.fin => cr.fin,
         \/ cr.fin = copy.fin /\ cr.spec = copy.spec
         \/ ~copy.fin /\ cr.fin /\ cr.spec = Redefaulted(copy.spec)
  PROVE  Invariant'
<1>1. PICK n \in Names : n = name
  BY DEF TypeOK
<1>2. PICK old : old = crs[n] /\ old \in Seq(Versions) /\ Len(old) > 0
  BY DEF TypeOK
<1>3. PICK log : log = Grown(old, cr)
  OBVIOUS
<1>4. /\ Last(log) = cr /\ (Len(log) = 1 => Len(old) = 1)
      /\ \A i \in 1..Len(log) : log[i] \in Elems(old) \cup {cr}
  <2>1. cr \in Versions
    BY DEF Versions
  <2>2. \A i \in 1..Len(Grown(old, cr)) : Grown(old, cr)[i] \in Elems(old) \cup {cr}
    BY <1>2, <2>1, GrownLog
  <2>3. Last(Grown(old, cr)) = cr
    BY <1>2, <2>1, GrownLog
  <2>4. Len(Grown(old, cr)) = 1 => Len(old) = 1
    BY <1>2, <2>1, GrownLog
  <2> QED
    BY <1>3, <2>2, <2>3, <2>4
<1>5. UNCHANGED <<kids, wrote>> /\ (Return(TRUE) => pc' = "idle" /\ queue' = queue \cup {n})
  BY <1>1, PutCases DEF Return
<1>6. CASE crs' = crs /\ Return(TRUE)
  <2>1. (LabelsFollow /\ CopyIsCurrent /\ UsersSpecIsKept)'
    BY <1>5, <1>6, ObjectsStay
  <2>2. ASSUME NEW m \in Names PROVE LeftAlone(m)'
    <3>1. LeftAlone(m) /\ Undisturbed(m)
      BY <1>5, <1>6 DEF Invariant, LeftIsApplied, LeftAlone, Undisturbed
    <3> QED
      BY <1>1, <1>5, <1>6, <3>1, StaysAlone
  <2> QED
    BY <1>5, <1>6, <2>1, <2>2 DEF Invariant, PassedIsApplied, LeftIsApplied, LeftAlone
<1>7. ASSUME fresh, crs' = [crs EXCEPT ![name] = Grown(crs[name], cr)],
             \/ /\ copy' = cr /\ pc' \in {"record", "deployment"}
                /\ UNCHANGED <<queue, name, fresh>>
             \/ Return(TRUE)
      PROVE  Invariant'
  <2>1. crs'[n] = log /\ \A m \in Names : m # n => crs'[m] = crs[m]
    BY <1>1, <1>2, <1>3, <1>7 DEF TypeOK
  <2>2. CR(n)' = cr /\ \A m \in Names : m # n => CR(m)' = CR(m)
    BY <1>4, <2>1 DEF CR, Last
  <2>3. /\ CR(n) = copy /\ Exists(n) /\ wrote[n] \in Writes /\ (wrote[n].fin => CR(n).fin)
        /\ copy.spec = IF copy.fin /\ ~wrote[n].fin THEN Redefaulted(wrote[n].spec)
                       ELSE wrote[n].spec
    <3>1. copy \in Objects /\ copy = CR(n)
      BY <1>1, <1>7 DEF Invariant, LabelsFollow, CopyIsCurrent
    <3>2. Exists(n)
      BY <3>1, ObjectsAssumption DEF Exists
    <3> QED
      BY <3>1, <3>2 DEF Invariant, CopyIsCurrent, UsersSpecIsKept
  <2>4. LabelsFollow'
    <3>1. \A v \in Elems(old) : v # Absent => v.label = v.spec.default
      BY <1>2 DEF Invariant, LabelsFollow, Elems
    <3>2. \A i \in 1..Len(log) : log[i] # Absent => log[i].label = log[i].spec.default
      BY <1>4, <3>1
    <3>3. pc' # "idle" => copy' = cr
      BY <1>5, <1>7
    <3> QED
      BY <2>1, <3>2, <3>3 DEF Invariant, LabelsFollow
  <2>5. CopyIsCurrent'
    <3>1. \A m \in Names : Exists(m)' => wrote'[m] \in Writes /\ (wrote'[m].fin => CR(m)'.fin)
      BY <1>5, <2>2, <2>3 DEF Invariant, CopyIsCurrent, Exists
    <3>2. pc' # "idle" => copy' = CR(n)' /\ name' = n /\ pc' # "finalizer"
      BY <1>1, <1>5, <1>7, <2>2
    <3> QED
      BY <2>2, <3>1, <3>2, <1>5 DEF CopyIsCurrent
  <2>6. UsersSpecIsKept'
    <3>1. CR(n)'.spec = IF CR(n)'.fin /\ ~wrote'[n].fin THEN Redefaulted(wrote'[n].spec)
                        ELSE wrote'[n].spec
      BY <1>5, <2>2, <2>3 DEF Objects, Writes
    <3> QED
      BY <1>5, <2>2, <3>1 DEF Invariant, UsersSpecIsKept, Exists
  <2>7. PassedIsApplied'
    <3> SUFFICES ASSUME pc' # "idle"
                 PROVE  copy' = CR(n)' /\ name' = n /\ Passed' = {}
      BY DEF PassedIsApplied
    <3> QED
      BY <1>1, <1>5, <1>7, <2>2 DEF Passed
  <2>8. ASSUME NEW m \in Names PROVE LeftAlone(m)'
    <3>1. CASE m = n
      BY <1>1, <1>5, <1>7, <3>1 DEF LeftAlone
    <3>2. CASE m # n
      <4>1. LeftAlone(m) /\ Undisturbed(m)
        BY <1>5, <1>7, <2>1, <3>2 DEF Invariant, LeftIsApplied, LeftAlone, Undisturbed
      <4> QED
        BY <1>1, <3>2, <4>1, StaysAlone
    <3> QED
      BY <3>1, <3>2
  <2> QED
    BY <2>4, <2>5, <2>6, <2>7, <2>8 DEF Invariant, LeftIsApplied, LeftAlone
<1> QED
  BY <1>6, <1>7, PutCases

LEMMA AddFinalizerStep ==
  ASSUME TypeOK, Invariant, AddFinalizer PROVE TypeOK' /\ Invariant'
<1>1. pc = "finalizer" /\ copy \in Objects /\ ~copy.fin
  BY DEF AddFinalizer, Invariant, LabelsFollow, CopyIsCurrent
<1>2. PICK cr : cr = Default([copy EXCEPT !.fin = TRUE, !.spec = Redefaulted(@)])
  OBVIOUS
<1>3. Put(cr) /\ cr \in Objects /\ cr.fin = TRUE /\ cr.spec = Redefaulted(copy.spec)
      /\ cr.label = cr.spec.default
  BY <1>1, <1>2, FinalizerObject DEF AddFinalizer
<1> QED
  BY <1>1, <1>3, PutType, PutInvariant

LEMMA RecordTunnelStep ==
  ASSUME TypeOK, Invariant, RecordTunnel PROVE TypeOK' /\ Invariant'
<1>1. pc = "record" /\ copy \in Objects /\ copy.label = copy.spec.default
  BY DEF RecordTunnel, Invariant, LabelsFollow
<1>2. PICK cr : cr = [copy EXCEPT !.tunnel = TRUE]
  OBVIOUS
<1>3. Put(cr) /\ cr \in Objects /\ cr.fin = copy.fin /\ cr.spec = copy.spec
      /\ cr.label = cr.spec.default
  BY <1>1, <1>2, RecordObject DEF RecordTunnel
<1> QED
  BY <1>1, <1>3, PutType, PutInvariant

LEMMA UpdateStatusInvariant ==
  ASSUME TypeOK, Invariant, UpdateStatus PROVE Invariant'
<1>1. PICK n \in Names : n = name
  BY DEF TypeOK
<1>2. UNCHANGED <<crs, kids, wrote>> /\ pc = "status" /\ pc' = "idle" /\ queue \subseteq queue'
  BY DEF UpdateStatus, Return
<1>3. (LabelsFollow /\ CopyIsCurrent /\ UsersSpecIsKept)'
  BY <1>2, ObjectsStay
<1>4. ASSUME NEW m \in Names PROVE LeftAlone(m)'
  <2>1. LeftAlone(m) /\ Undisturbed(m)
    BY <1>2 DEF Invariant, LeftIsApplied, LeftAlone, Undisturbed
  <2>2. CASE m # n
    BY <1>1, <2>1, <2>2, StaysAlone
  <2>3. CASE m = n
    <3> SUFFICES ASSUME n \notin queue', Len(crs'[n]) = 1,
                        NEW kind \in KindSet, Len(kids'[n][kind]) = 1
                 PROVE  Applied(n, kind)'
      BY <2>3 DEF LeftAlone
    <3>1. n \notin queue /\ crs'[n] = crs[n] /\ kids'[n][kind] = kids[n][kind] /\ kind \in Passed
      BY <1>2 DEF Passed
    <3>2. Applied(n, kind)
      BY <1>1, <1>2, <3>1 DEF Invariant, PassedIsApplied
    <3>3. CR(n)' = CR(n) /\ Kid(n, kind)' = Kid(n, kind)
      BY <3>1 DEF CR, Kid, Last
    <3> QED
      BY <3>2, <3>3, SameApplied
  <2> QED
    BY <2>2, <2>3
<1> QED
  BY <1>2, <1>3, <1>4 DEF Invariant, PassedIsApplied, LeftIsApplied, LeftAlone

LEMMA RestartInvariant ==
  ASSUME TypeOK, Invariant, Restart PROVE Invariant'
<1>1. UNCHANGED <<crs, kids, wrote>> /\ pc' = "idle" /\ queue' = Names
  BY DEF Restart
<1>2. (LabelsFollow /\ CopyIsCurrent /\ UsersSpecIsKept)'
  BY <1>1, ObjectsStay
<1> QED
  BY <1>1, <1>2 DEF Invariant, PassedIsApplied, LeftIsApplied

\* By action: what each of them does to the types and to the invariant.
LEMMA InvariantStep ==
  ASSUME TypeOK, Invariant, [Next]_vars PROVE TypeOK' /\ Invariant'
<1>1. CASE UNCHANGED vars
  <2>1. UNCHANGED <<crs, kids, wrote, warned, monitoring, queue, faults, pc, name, copy, fresh, worker>>
    BY <1>1 DEF vars, worker
  <2>2. \A n \in Names : Undisturbed(n) /\ CR(n)' = CR(n)
    BY <2>1 DEF Undisturbed, CR, Last
  <2>3. LabelsFollow'
    BY <2>1 DEF Invariant, LabelsFollow
  <2> QED
    BY <2>1, <2>2, <2>3, ClusterStep DEF TypeOK
<1>2. ASSUME NEW n \in Names, Get(n) PROVE TypeOK' /\ Invariant'
  BY <1>2, GetType, GetInvariant
<1>3. CASE AddFinalizer
  BY <1>3, AddFinalizerStep
<1>4. CASE RecordTunnel
  BY <1>4, RecordTunnelStep
<1>5. CASE ReconcileDeployment \/ ReconcileServiceMonitor \/ ReconcilePDB
  <2>1. pc # "idle"
    BY <1>5 DEF ReconcileDeployment, ReconcileServiceMonitor, ReconcilePDB
  <2>2. copy \in Objects
    BY <2>1 DEF Invariant, LabelsFollow
  <2>3. \E kind \in KindSet : KidStep(kind)
    BY <1>5, <2>2, ThreeKinds, DeploymentStep, MonitorStep, BudgetStep
  <2> QED
    BY <2>3, KidStepType, KidStepInvariant
<1>6. CASE UpdateStatus
  BY <1>6, UpdateStatusType, UpdateStatusInvariant
<1>7. CASE Restart
  BY <1>7, RestartType, RestartInvariant
<1>8. ASSUME NEW n \in Names, CreateCR(n) \/ EditCR(n) PROVE TypeOK' /\ Invariant'
  BY <1>8, UserWritesType, UserWritesInvariant
<1>9. ASSUME NEW n \in Names, ObserveCR(n) PROVE TypeOK' /\ Invariant'
  BY <1>9, ObserveCRType, ObserveCRInvariant
<1>10. ASSUME NEW n \in Names, NEW kind \in KindSet, ObserveKid(n, kind)
       PROVE  TypeOK' /\ Invariant'
  BY <1>10, ObserveKidType, ObserveKidInvariant
<1>11. ASSUME NEW n \in Names, NEW kind \in KindSet, Drift(n, kind)
       PROVE  TypeOK' /\ Invariant'
  BY <1>11, DriftType, DriftInvariant
<1> QED
  BY <1>1, <1>2, <1>3, <1>4, <1>5, <1>6, <1>7, <1>8, <1>9, <1>10, <1>11 DEF Next, Worker

-----------------------------------------------------------------------------
(* The theorems *)

\* The types and the inductive invariant hold throughout, whatever the specifications,
\* the faults and their number, and however far the caches trail.
THEOREM InvariantHolds == Spec => [](TypeOK /\ Invariant)
<1>1. Init => TypeOK /\ Invariant
  BY InitInvariant
<1>2. TypeOK /\ Invariant /\ [Next]_vars => (TypeOK /\ Invariant)'
  BY InvariantStep
<1> QED
  BY <1>1, <1>2, PTL DEF Spec

\* Every variable has its type; above all, whatever numbers a specification asks for and
\* whatever a budget is merged with, what is stored of a child is what the API server
\* takes (cloudflaretunnel_controller.go lines 424-506, 546-597, 607-647).
THEOREM TypeCorrect == Spec => []TypeOK
<1> QED
  BY InvariantHolds, PTL

\* Once every cache has caught up and no object is queued, each child that is wanted is
\* there and says what the stored specification says of it, after any conflicts, lost
\* answers, restarts and changes by others (cloudflaretunnel_controller.go lines 111-191,
\* 451-467, 546, 607).
THEOREM QuietIsApplied == Spec => []SettledIsApplied
<1>1. TypeOK /\ Invariant => SettledIsApplied
  BY DEF Invariant, LeftIsApplied, SettledIsApplied, Settled
<1> QED
  BY <1>1, InvariantHolds, PTL

\* The specification stays what its user wrote last, up to the defaults that come with
\* the finalizer (cloudflaretunnel_controller.go lines 111-117, cloudflaretunnel_types.go
\* lines 17-19 and 56-58).
THEOREM SpecsAreKept == Spec => []UsersSpecIsKept
<1>1. TypeOK /\ Invariant => UsersSpecIsKept
  BY DEF Invariant
<1> QED
  BY <1>1, InvariantHolds, PTL

\* A user who makes or keeps a tunnel the default one beside another default is warned, and
\* a warning goes to nobody whose tunnel is not default, nor to one whose tunnel becomes
\* the only default (cloudflaretunnel_webhook.go lines 91-110), once the cache is current.
THEOREM SecondDefault == Spec => WarnsOfSecondDefault
<1>1. ASSUME TypeOK, Invariant, NEW n \in Names, CreateCR(n) \/ EditCR(n),
             \A m \in Names : Len(crs[m]) = 1
      PROVE  /\ wrote'[n].spec.default /\ OtherDefaults(n) # {} => warned'[n]
             /\ warned'[n] => /\ wrote'[n].spec.default
                              /\ OtherDefaults(n) # {} \/ (Exists(n) /\ CR(n).spec.default)
  <2>1. PICK cr : Admit(n, cr)
    BY <1>1, UserWrites
  <2>2. wrote'[n].spec = cr.spec
    BY <1>1, <2>1 DEF Admit, TypeOK
  <2>3. warned'[n] = Warns(cr)
    BY <1>1, <2>1 DEF Admit, TypeOK
  <2>4. \A m \in Names : /\ crs[m][1] = CR(m)
                         /\ CR(m) # Absent => CR(m).label = CR(m).spec.default
    BY <1>1 DEF Invariant, LabelsFollow, CR, Last
  <2>5. Warns(cr) <=> cr.spec.default /\ \E m \in Names : Exists(m) /\ CR(m).spec.default
    BY <2>4 DEF Warns, Exists
  <2>6. (\E m \in Names : Exists(m) /\ CR(m).spec.default)
          <=> OtherDefaults(n) # {} \/ (Exists(n) /\ CR(n).spec.default)
    BY DEF OtherDefaults
  <2> QED
    BY <2>2, <2>3, <2>5, <2>6
<1>2. TypeOK /\ Invariant /\ [Next]_vars =>
        [\A n \in Names :
           (CreateCR(n) \/ EditCR(n)) /\ (\A m \in Names : Len(crs[m]) = 1) =>
             /\ wrote'[n].spec.default /\ OtherDefaults(n) # {} => warned'[n]
             /\ warned'[n] =>
                  /\ wrote'[n].spec.default
                  /\ OtherDefaults(n) # {} \/ (Exists(n) /\ CR(n).spec.default)]_vars
  BY <1>1
<1> QED
  BY <1>2, InvariantHolds, PTL DEF Spec, WarnsOfSecondDefault
=============================================================================
