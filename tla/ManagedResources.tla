--------------------------- MODULE ManagedResources ---------------------------
(***************************************************************************)
(* What a CloudflareTunnel asks for and what its children say: the webhook *)
(* that admits its specification, the API server that stores it, and the   *)
(* part of CloudflareTunnelReconciler that turns it into a Deployment, a   *)
(* ServiceMonitor and a PodDisruptionBudget.                               *)
(*                                                                         *)
(* TunnelController.tla has the tunnel, the Secret, conditions, deletion   *)
(* and the owners of children; here a child is its content.  The Service   *)
(* is applied like the Deployment, and its content never changes.          *)
(***************************************************************************)
EXTENDS Integers, Sequences, FiniteSets

CONSTANTS
  Names,         \* CloudflareTunnel objects
  Specs,         \* per name, the specifications its user writes, see IsSpec
  NoList,        \* resources that are not given; else a function from resource names
  NoPDB,         \* no PodDisruptionBudget; else a function from fields to numbers
  Absent,        \* an object that does not exist
  Monitor,       \* the content of a ServiceMonitor
  Faults,        \* the kinds of fault and interference that may happen
  MaxFaults,     \* bound: how many of them in one behaviour
  MaxLag         \* bound: how many versions a cache may trail when the controller writes

Kinds == <<"deployment", "monitor", "pdb">>      \* in the order of Reconcile
KindSet == {Kinds[k] : k \in 1..3}

\* The custom resource's schema sets no bounds to any of the numbers.
IsSpec(s) ==
  /\ DOMAIN s = {"default", "monitor", "replicas", "limits", "requests", "pdb"}
  /\ s.default \in BOOLEAN /\ s.monitor \in BOOLEAN /\ s.replicas \in Int
  /\ \A l \in {"limits", "requests"} :
       s[l] # NoList => \A r \in DOMAIN s[l] \cap {"cpu", "memory"} : s[l][r] \in Int
  /\ s.pdb = NoPDB \/ \E fields \in SUBSET {"min", "max"} : s.pdb \in [fields -> Int]

\* what a child of each kind may be, with the numbers in N
Lists(N) == [{"cpu", "memory"} -> N] \cup {NoList}
Contents(kind, N) ==
  CASE kind = "deployment" -> [replicas : N, limits : Lists(N), requests : Lists(N)]
    [] kind = "monitor" -> {Monitor}
    [] kind = "pdb" -> [{} -> N] \cup [{"min"} -> N] \cup [{"max"} -> N]

ASSUME SpecsAssumption ==
  /\ Names # {} /\ \A n \in Names : \A s \in Specs[n] : IsSpec(s)
  /\ \A kind \in KindSet : Absent \notin Contents(kind, Int)
  /\ Absent \notin [{"min", "max"} -> Int]

ASSUME FaultsAssumption ==
  /\ Faults \subseteq {"error", "lost", "restart", "edit", "drift"}
  /\ MaxFaults \in Nat
  /\ MaxLag \in Nat \ {0}

VARIABLES
  crs,         \* per name, its versions from the cached one (first) to the stored one (last)
  kids,        \* per name and kind, such versions of a child's content
  wrote,       \* per name, what its user wrote last, and whether the finalizer was there
  warned,      \* per name, whether the answer to that was a warning
  monitoring,  \* the CRD of ServiceMonitors is installed
  queue, pc, name, copy, fresh,  \* the work queue and locals of Reconcile
  faults

worker == <<pc, name, copy, fresh>>
vars == <<crs, kids, wrote, warned, monitoring, queue, worker, faults>>

-----------------------------------------------------------------------------
Last(log) == log[Len(log)]
CR(n) == Last(crs[n])
Exists(n) == CR(n) # Absent
Kid(n, kind) == Last(kids[n][kind])

AName == CHOOSE n \in Names : TRUE

Init ==
  /\ crs = [n \in Names |-> <<Absent>>]
  /\ kids = [n \in Names |-> [kind \in KindSet |-> <<Absent>>]]
  /\ wrote = [n \in Names |-> Absent] /\ warned = [n \in Names |-> FALSE]
  /\ monitoring \in BOOLEAN
  /\ queue = {} /\ pc = "idle" /\ name = AName /\ copy = Absent /\ fresh = FALSE
  /\ faults = 0

-----------------------------------------------------------------------------
(* Admission *)

\* CloudflareTunnelCustomDefaulter.Default: the label by which defaults are found
DefaultMutant(cr) == IF cr.spec.default THEN [cr EXCEPT !.label = TRUE] ELSE cr

Default(cr) == [cr EXCEPT !.label = cr.spec.default]

\* checkDefaultTunnel, against the cache; the object itself counts when it is there
Warns(cr) == cr.spec.default /\ \E m \in Names : crs[m][1] # Absent /\ crs[m][1].label

\* An update by the controller sends the whole object.  Fields that are zero and have
\* omitempty are left out, and the API server fills them in with their defaults.
Redefaulted(spec) ==
  [spec EXCEPT !.replicas = IF @ = 0 THEN 1 ELSE @, !.monitor = TRUE]

-----------------------------------------------------------------------------
(* Requests, as in TunnelController *)

Fault(kind) == kind \in Faults /\ faults < MaxFaults /\ faults' = faults + 1

Call(ok, Effect, NoEffect, Done, Failed) ==
  \/ ok /\ Effect /\ Done /\ UNCHANGED faults
  \/ ok /\ Fault("lost") /\ Effect /\ Failed
  \/ ok /\ Fault("error") /\ NoEffect /\ Failed
  \/ ~ok /\ NoEffect /\ Failed /\ UNCHANGED faults

Return(again) ==
  /\ pc' = "idle" /\ name' = AName /\ copy' = Absent /\ fresh' = FALSE
  /\ queue' = IF again THEN queue \cup {name} ELSE queue

Goto(label) == pc' = label /\ UNCHANGED <<queue, name, copy, fresh>>

-----------------------------------------------------------------------------
(* Reconcile *)

Get(n) ==
  /\ pc = "idle" /\ n \in queue /\ queue' = queue \ {n}
  /\ LET cr == crs[n][1] IN
     \/ cr = Absent /\ UNCHANGED worker
     \/ /\ cr # Absent
        /\ pc' = IF cr.fin THEN "record" ELSE "finalizer"
        /\ name' = n /\ copy' = cr /\ fresh' = (Len(crs[n]) = 1)
  /\ UNCHANGED <<crs, kids, wrote, warned, monitoring, faults>>

\* Update and Status().Update, refused unless the copy is the stored version
Put(cr) ==
  /\ Len(crs[name]) <= MaxLag
  /\ Call(fresh, crs' = [crs EXCEPT ![name] = IF cr = CR(name) THEN @ ELSE Append(@, cr)],
          UNCHANGED crs,
          copy' = cr /\ pc' = (IF pc = "finalizer" THEN "record" ELSE "deployment")
            /\ UNCHANGED <<queue, name, fresh>>,
          Return(TRUE))
  /\ UNCHANGED <<kids, wrote, warned, monitoring>>

AddFinalizerMutant ==   \* whatever is stored by now
  /\ pc = "finalizer"
  /\ LET cr == Default([copy EXCEPT !.fin = TRUE, !.spec = Redefaulted(@)]) IN
     /\ crs' = [crs EXCEPT ![name] = Append(@, cr)]
     /\ copy' = cr /\ pc' = "record"
  /\ UNCHANGED <<kids, wrote, warned, monitoring, queue, name, fresh, faults>>

AddFinalizer ==
  /\ pc = "finalizer"
  /\ Put(Default([copy EXCEPT !.fin = TRUE, !.spec = Redefaulted(@)]))

\* reconcileTunnel, reconcileSecret and the status update with the tunnel's id
RecordTunnel == pc = "record" /\ Put([copy EXCEPT !.tunnel = TRUE])

\* cpu and memory only, and 0 for the one that is not given
QuantitiesMutant(list) == list    \* as they were given

Quantities(list) ==
  IF list = NoList THEN NoList
  ELSE [r \in {"cpu", "memory"} |-> IF r \in DOMAIN list THEN list[r] ELSE 0]

\* what the controller applies as the Deployment
Template(spec) ==
  [replicas |-> spec.replicas, limits |-> Quantities(spec.limits),
   requests |-> Quantities(spec.requests)]

\* the API server's rules for the contents of children
ValidTemplate(t) ==
  /\ t.replicas >= 0
  /\ \A list \in {t.limits, t.requests} : list # NoList => \A r \in DOMAIN list : list[r] >= 0
  /\ t.limits # NoList /\ t.requests # NoList =>
       \A r \in DOMAIN t.requests \cap DOMAIN t.limits : t.requests[r] <= t.limits[r]
ValidBudget(b) == ~({"min", "max"} \subseteq DOMAIN b) /\ \A f \in DOMAIN b : b[f] >= 0

\* what the controller makes of the PodDisruptionBudget it finds: it sets the fields
\* that are given and clears none
MergedBudgetMutant(old, want) == \* only what is missing
  [f \in DOMAIN old \cup DOMAIN want |-> IF f \in DOMAIN old THEN old[f] ELSE want[f]]

MergedBudget(old, want) ==
  [f \in DOMAIN old \cup DOMAIN want |-> IF f \in DOMAIN want THEN want[f] ELSE old[f]]

Budget(old, want) == IF old = Absent THEN want ELSE MergedBudget(old, want)

\* The child of this kind is written, or already as it should be, or the API server
\* refuses; the next kind follows, updateStatus after the last.
NextStep == [deployment |-> "monitor", monitor |-> "pdb", pdb |-> "status"]

Write(kind, ok, content) ==
  /\ Len(kids[name][kind]) <= MaxLag
  /\ Call(ok, kids' = [kids EXCEPT ![name][kind] = IF content = Last(@) THEN @ ELSE Append(@, content)],
          UNCHANGED kids, Goto(NextStep[kind]), Return(TRUE))
  /\ UNCHANGED <<crs, wrote, warned, monitoring>>

Skip(kind) == Goto(NextStep[kind]) /\ UNCHANGED <<crs, kids, wrote, warned, monitoring, faults>>

\* Server-side apply, unless the cached Deployment is as wanted
ReconcileDeployment ==
  /\ pc = "deployment"
  /\ LET want == Template(copy.spec)
         cached == kids[name].deployment[1]
     IN \/ cached = want /\ Skip("deployment")
        \/ cached # want /\ Write("deployment", ValidTemplate(want), want)

\* CreateOrUpdate, by what the cache holds: an absent child is created, another one
\* updated at the version that was read
CreateOrUpdate(kind, want, valid) ==
  LET log == kids[name][kind] IN
  \/ log[1] = Absent /\ Write(kind, Last(log) = Absent /\ valid, want)
  \/ log[1] # Absent /\ log[1] # want /\ Write(kind, Len(log) = 1 /\ valid, want)
  \/ log[1] = want /\ Skip(kind)

ReconcileServiceMonitor ==
  /\ pc = "monitor"
  /\ \/ ~copy.spec.monitor /\ Skip("monitor")
     \* no kind of that name: the cached read fails
     \/ /\ copy.spec.monitor /\ ~monitoring
        /\ Return(TRUE) /\ UNCHANGED <<crs, kids, wrote, warned, monitoring, faults>>
     \/ copy.spec.monitor /\ monitoring /\ CreateOrUpdate("monitor", Monitor, TRUE)

ReconcilePDB ==
  /\ pc = "pdb"
  /\ \/ copy.spec.pdb = NoPDB /\ Skip("pdb")
     \/ /\ copy.spec.pdb # NoPDB
        /\ LET want == Budget(kids[name].pdb[1], copy.spec.pdb)
           IN CreateOrUpdate("pdb", want, ValidBudget(want))

\* updateStatus asks to be called again while no replica is available: any number of
\* them may be, but none of none.
UpdateStatus ==
  /\ pc = "status"
  /\ Return(TRUE) \/ (copy.spec.replicas > 0 /\ Return(FALSE))
  /\ UNCHANGED <<crs, kids, wrote, warned, monitoring, faults>>

-----------------------------------------------------------------------------
(* Users and the cluster *)

\* a user's write passes the webhook; the answer may be a warning
Admit(n, cr) ==
  /\ crs' = [crs EXCEPT ![n] = Append(@, Default(cr))]
  /\ wrote' = [wrote EXCEPT ![n] = [spec |-> cr.spec, fin |-> cr.fin]]
  /\ warned' = [warned EXCEPT ![n] = Warns(cr)]
  /\ fresh' = (fresh /\ n # name)
  /\ UNCHANGED <<kids, monitoring, queue, pc, name, copy>>

CreateCR(n) ==
  /\ ~Exists(n)
  /\ \E s \in Specs[n] :
       Admit(n, [spec |-> s, label |-> FALSE, fin |-> FALSE, tunnel |-> FALSE])
  /\ UNCHANGED faults

EditCR(n) ==
  /\ Exists(n) /\ Fault("edit")
  /\ \E s \in Specs[n] \ {CR(n).spec} : Admit(n, [CR(n) EXCEPT !.spec = s])

ObserveCR(n) ==
  /\ Len(crs[n]) > 1
  /\ crs' = [crs EXCEPT ![n] = Tail(@)] /\ queue' = queue \cup {n}
  /\ UNCHANGED <<kids, wrote, warned, monitoring, worker, faults>>

\* Owns: the change of a child queues its owner
ObserveKidMutant(n, kind) ==   \* without Owns
  /\ Len(kids[n][kind]) > 1
  /\ kids' = [kids EXCEPT ![n][kind] = Tail(@)] /\ UNCHANGED queue
  /\ UNCHANGED <<crs, wrote, warned, monitoring, worker, faults>>

ObserveKid(n, kind) ==
  /\ Len(kids[n][kind]) > 1
  /\ kids' = [kids EXCEPT ![n][kind] = Tail(@)] /\ queue' = queue \cup {n}
  /\ UNCHANGED <<crs, wrote, warned, monitoring, worker, faults>>

\* somebody deletes a child, scales the Deployment or gives the budget its other field
Drift(n, kind) ==
  /\ Kid(n, kind) # Absent /\ Fault("drift")
  /\ \E content \in {Absent} \cup
         (CASE kind = "deployment" -> {[Kid(n, kind) EXCEPT !.replicas = @ + 1]}
            [] kind = "pdb" -> {[f \in {"max"} |-> 2]}
            [] OTHER -> {}) :
       kids' = [kids EXCEPT ![n][kind] = Append(@, content)]
  /\ UNCHANGED <<crs, wrote, warned, monitoring, queue, worker>>

Restart ==
  /\ pc # "idle" /\ Fault("restart")
  /\ pc' = "idle" /\ name' = AName /\ copy' = Absent /\ fresh' = FALSE /\ queue' = Names
  /\ UNCHANGED <<crs, kids, wrote, warned, monitoring>>

-----------------------------------------------------------------------------
Worker ==
  \/ \E n \in Names : Get(n)
  \/ AddFinalizer \/ RecordTunnel
  \/ ReconcileDeployment \/ ReconcileServiceMonitor \/ ReconcilePDB \/ UpdateStatus

Next ==
  \/ Worker \/ Restart
  \/ \E n \in Names :
       \/ CreateCR(n) \/ EditCR(n) \/ ObserveCR(n)
       \/ \E kind \in KindSet : ObserveKid(n, kind) \/ Drift(n, kind)

Spec == Init /\ [][Next]_vars

\* The queue is first in, first out, Reconcile goes on, watches deliver.
Fairness ==
  /\ WF_vars(Worker)
  /\ \A n \in Names : SF_vars(Get(n)) /\ WF_vars(ObserveCR(n))
  /\ \A n \in Names, kind \in KindSet : WF_vars(ObserveKid(n, kind))

FairSpec == Spec /\ Fairness

-----------------------------------------------------------------------------
(* Properties *)

SpecSet == UNION {Specs[n] : n \in Names}
Objects ==
  [spec : SpecSet \cup {Redefaulted(s) : s \in SpecSet}, label : BOOLEAN,
   fin : BOOLEAN, tunnel : BOOLEAN]
\* no object is taken for an absent one
ASSUME ObjectsAssumption == Absent \notin Objects
Versions == Objects \cup {Absent}
Writes == [spec : SpecSet, fin : BOOLEAN]

TypeOK ==
  /\ crs \in [Names -> Seq(Versions)] /\ \A n \in Names : Len(crs[n]) > 0
  /\ DOMAIN kids = Names /\ \A n \in Names : DOMAIN kids[n] = KindSet
  /\ \A n \in Names, kind \in KindSet :
       kids[n][kind] \in Seq(Contents(kind, Nat) \cup {Absent}) /\ Len(kids[n][kind]) > 0
  /\ wrote \in [Names -> Writes \cup {Absent}]
  /\ warned \in [Names -> BOOLEAN] /\ monitoring \in BOOLEAN
  /\ queue \subseteq Names /\ name \in Names /\ copy \in Versions /\ fresh \in BOOLEAN
  /\ pc \in {"idle", "finalizer", "record", "status"} \cup KindSet
  /\ faults \in 0..MaxFaults

Settled ==
  /\ pc = "idle" /\ queue = {}
  /\ \A n \in Names : Len(crs[n]) = 1 /\ \A kind \in KindSet : Len(kids[n][kind]) = 1

Wanted(n, kind) ==
  CASE kind = "deployment" -> TRUE
    [] kind = "monitor" -> CR(n).spec.monitor
    [] kind = "pdb" -> CR(n).spec.pdb # NoPDB

\* the child says what the stored specification does, as far as that goes
Applied(n, kind) ==
  Wanted(n, kind) =>
    /\ Kid(n, kind) # Absent
    /\ kind = "deployment" =>
         /\ Kid(n, kind).replicas = CR(n).spec.replicas
         /\ \A l \in {"limits", "requests"} :
              CR(n).spec[l] # NoList => \A r \in DOMAIN CR(n).spec[l] \cap {"cpu", "memory"} :
                Kid(n, kind)[l][r] = CR(n).spec[l][r]
    /\ kind = "pdb" => \A f \in DOMAIN CR(n).spec.pdb :
         f \in DOMAIN Kid(n, kind) /\ Kid(n, kind)[f] = CR(n).spec.pdb[f]

\* The controller never goes quiet over a child that is missing or says something
\* else than the specification, although it compares with a cached child: it may skip
\* the write when the child it sees is the one before last (lines 451-467, 546, 607).
SettledIsApplied ==
  Settled => \A n \in Names, kind \in KindSet : Exists(n) => Applied(n, kind)

\* What the API server will not take, given what is there
Refused(n, kind) ==
  Wanted(n, kind) /\
  CASE kind = "deployment" -> ~ValidTemplate(Template(CR(n).spec))
    [] kind = "monitor" -> ~monitoring
    [] kind = "pdb" -> ~ValidBudget(Budget(Kid(n, kind), CR(n).spec.pdb))

Reachable(n, k) == Exists(n) /\ \A j \in 1..k : ~Refused(n, Kinds[j])

\* Each child ends up as specified unless the API server refuses it or one before it:
\* a memory limit that is filled in as 0, a ServiceMonitor without its CRD and a budget
\* changed from one field to the other hold back the children after them for ever, and
\* nothing else does (lines 143-175, 311-344, 546, 619-624).
ChildrenFollow ==
  \A n \in Names, k \in 1..3 :
    Reachable(n, k) ~> (Reachable(n, k) => Applied(n, Kinds[k]))

\* The specification stays what its user wrote last, against conflicting updates by
\* the controller, except that the update that adds the finalizer gives fields with
\* value zero their defaults back; what is written after that is kept as it is
\* (lines 111-117, cloudflaretunnel_types.go lines 17-19 and 56-58).
UsersSpecIsKept ==
  \A n \in Names : Exists(n) =>
    CR(n).spec = IF CR(n).fin /\ ~wrote[n].fin THEN Redefaulted(wrote[n].spec) ELSE wrote[n].spec

OtherDefaults(n) == {m \in Names \ {n} : Exists(m) /\ CR(m).spec.default}

\* Once the webhook's cache has caught up, a user who makes or keeps a tunnel the default
\* one is warned if another one is default too, whatever was default before and is no
\* more; nobody else is warned, except the user who edits the sole default tunnel, which
\* the webhook counts itself (cloudflaretunnel_webhook.go lines 41-53 and 91-110).
WarnsOfSecondDefault ==
  [][\A n \in Names :
       (CreateCR(n) \/ EditCR(n)) /\ (\A m \in Names : Len(crs[m]) = 1) =>
         /\ wrote'[n].spec.default /\ OtherDefaults(n) # {} => warned'[n]
         /\ warned'[n] => /\ wrote'[n].spec.default
                          /\ OtherDefaults(n) # {} \/ (Exists(n) /\ CR(n).spec.default)]_vars

-----------------------------------------------------------------------------
(* The inductive invariant: what makes the safety properties hold *)

\* The webhook keeps the label in step with the specification, the controller with it.
LabelsFollow ==
  /\ \A n \in Names : \A k \in 1..Len(crs[n]) :
       crs[n][k] # Absent => crs[n][k].label = crs[n][k].spec.default
  /\ pc # "idle" => copy \in Objects /\ copy.label = copy.spec.default

\* A copy that no other write has outdated is the stored version, and once there, the
\* finalizer stays.
CopyIsCurrent ==
  /\ pc # "idle" /\ fresh => copy = CR(name)
  /\ pc = "finalizer" => ~copy.fin
  /\ \A n \in Names : Exists(n) => wrote[n] \in Writes /\ (wrote[n].fin => CR(n).fin)

\* The steps of Reconcile that are behind it
Passed ==
  CASE pc = "monitor" -> {"deployment"}
    [] pc = "pdb" -> {"deployment", "monitor"}
    [] pc = "status" -> KindSet
    [] OTHER -> {}

\* Unless a change is on its way or the object is queued again, the copy in hand is the
\* stored version, and the children that Reconcile has dealt with are as it says ...
PassedIsApplied ==
  pc # "idle" /\ name \notin queue /\ Len(crs[name]) = 1 =>
    /\ copy = CR(name)
    /\ \A kind \in Passed : Len(kids[name][kind]) = 1 => Applied(name, kind)

\* ... and those of an object that Reconcile has left.
LeftIsApplied ==
  \A n \in Names :
    /\ Exists(n) /\ n \notin queue /\ Len(crs[n]) = 1 /\ ~(pc # "idle" /\ name = n)
    => \A kind \in KindSet : Len(kids[n][kind]) = 1 => Applied(n, kind)

Invariant ==
  LabelsFollow /\ CopyIsCurrent /\ UsersSpecIsKept /\ PassedIsApplied /\ LeftIsApplied
=============================================================================
