--------------------------- MODULE TunnelController ---------------------------
(***************************************************************************)
(* The CloudflareTunnel controller: CloudflareTunnelReconciler of          *)
(* internal/controller/cloudflaretunnel_controller.go with the calls it    *)
(* makes to Cloudflare through pkg/external/cloudflare.go.                 *)
(*                                                                         *)
(* One CloudflareTunnel object (one namespace/name, which may be deleted   *)
(* and created again) is reconciled by one worker.  Reconcile reads the    *)
(* object and its children from informer caches that trail the API server, *)
(* and calls Cloudflare and the API server one request at a time; each     *)
(* request is a step of the model, so users, the garbage collector, the    *)
(* Ingress controller, late watch events and a restart of the operator can *)
(* come between any two of them.                                           *)
(***************************************************************************)
EXTENDS Integers, Sequences, FiniteSets

CONSTANTS
  TunnelIDs,        \* the ids Cloudflare hands out; their number bounds CreateTunnel
  NoID,             \* the empty string of Status.TunnelID and of an absent token
  Hosts,            \* host names the Ingress controller publishes
  Optional,         \* subset of {"ServiceMonitor", "PDB"} that the spec asks for
  UniqueNames,      \* TRUE: Cloudflare refuses a second tunnel of the same name
  ReportsNotFound,  \* TRUE: the manager returns ErrTunnelNotFound for a missing tunnel
  Refuses,          \* the DeleteTunnel requests Cloudflare refuses:
                    \* subset of {"absent", "empty", "connected"}
  Faults,           \* the kinds of fault and interference that may happen
  MaxFaults,        \* bound: how many of them in one behaviour
  MaxCreations,     \* bound: how many times the user creates the object
  MaxLag            \* bound: how many versions a cache may trail the API server

FaultKinds == {"error", "lost", "restart", "edit", "pod", "kid", "tunnel", "withdraw"}

ASSUME ConstantsAssumption ==
  /\ NoID \notin TunnelIDs /\ NoID \notin Hosts
  /\ Optional \subseteq {"ServiceMonitor", "PDB"}
  /\ UniqueNames \in BOOLEAN /\ ReportsNotFound \in BOOLEAN
  /\ Refuses \subseteq {"absent", "empty", "connected"}
  /\ Faults \subseteq FaultKinds
  /\ MaxFaults \in Nat /\ MaxCreations \in Nat /\ MaxLag \in Nat \ {0}

VARIABLES
  crs,      \* the versions of the CloudflareTunnel object, from the one in the
            \* controller's cache (first) to the one the API server stores (last)
  created,  \* how many objects the user has created; the last one's uid
  kids,     \* the versions of each kind of child, from the cached to the stored one
  tunnels,  \* the tunnels that exist in the Cloudflare account
  issued,   \* the tunnel ids ever handed out
  recorded, \* history: the ids ever written to Status.TunnelID
  zone,     \* per host, the tunnel id its managed CNAME record names, or NoID
  queued,   \* the request is in the work queue
  pc,       \* the next step of the running Reconcile, or "idle"
  copy,     \* Reconcile's local copy cfTunnel
  fresh,    \* the resourceVersion of the copy is the stored one
  tid,      \* Reconcile's local tunnel.ID
  token,    \* Reconcile's local token, named by the tunnel it belongs to
  todo,     \* the hosts whose records DeleteAllDNS has listed and not yet deleted;
            \* NoID stands for listed records that are gone by now
  faults    \* how many faults have happened

cluster == <<crs, created, recorded, kids>>
cloud == <<tunnels, issued, zone>>
locals == <<pc, copy, fresh, tid, token, todo>>
vars == <<cluster, cloud, queued, locals, faults>>

-----------------------------------------------------------------------------
(* Objects *)

IDs == TunnelIDs \cup {NoID}
Kinds == {"Secret", "Deployment", "Service", "ServiceMonitor", "PDB"}

\* uid 0 is no object
CRs == [phase : {"absent", "live", "deleting"}, uid : Nat, fin : BOOLEAN,
        tid : IDs, cond : {"none", "Available", "Unavailable", "Degraded"}]

Absent == [phase |-> "absent", uid |-> 0, fin |-> FALSE, tid |-> NoID, cond |-> "none"]

\* a child: its controller (0: the child does not exist), a Secret's token and
\* whether a Deployment has available replicas
Children == [owner : Nat, token : IDs, up : BOOLEAN]
Missing == [owner |-> 0, token |-> NoID, up |-> FALSE]

Api == crs[Len(crs)]                       \* the object as the API server stores it
Cached(k) == kids[k][1]
Stored(k) == kids[k][Len(kids[k])]

Lagging(log) == Len(log) > MaxLag          \* no write until the cache catches up

\* A write that changes nothing makes no new version.
Extend(log, v) == IF v = log[Len(log)] THEN log ELSE Append(log, v)

PCs == {"idle", "finalizer", "tunnel", "lookup", "create", "token", "secret", "record",
        "Deployment", "Service", "ServiceMonitor", "PDB", "status", "failed",
        "purge", "unpublish", "delete", "unfinalize"}

Init ==
  /\ crs = <<Absent>> /\ created = 0 /\ recorded = {}
  /\ kids = [k \in Kinds |-> <<Missing>>]
  /\ tunnels = {} /\ issued = {}
  /\ zone = [h \in Hosts |-> NoID]
  /\ queued = FALSE /\ pc = "idle" /\ copy = Absent /\ fresh = FALSE
  /\ tid = NoID /\ token = NoID /\ todo = {} /\ faults = 0

-----------------------------------------------------------------------------
(* One request and its outcome *)

Fault(kind) == kind \in Faults /\ faults < MaxFaults /\ faults' = faults + 1

\* A request the server accepts when ok: it takes effect and is answered, or
\* takes effect and the answer is lost (a timeout), or fails before any effect.
Call(ok, Effect, NoEffect, Done, Failed) ==
  \/ ok /\ Effect /\ Done /\ UNCHANGED faults
  \/ ok /\ Fault("lost") /\ Effect /\ Failed
  \/ ok /\ Fault("error") /\ NoEffect /\ Failed
  \/ ~ok /\ NoEffect /\ Failed /\ UNCHANGED faults

Step(next) == pc' = next /\ UNCHANGED <<queued, copy, fresh, tid, token, todo>>

\* Reconcile returns; an error or Result{Requeue: true} puts the request back.
Return(again) ==
  /\ pc' = "idle" /\ copy' = Absent /\ fresh' = FALSE
  /\ tid' = NoID /\ token' = NoID /\ todo' = {}
  /\ queued' = (queued \/ again)

\* Update and Status().Update carry the resourceVersion that was read: any
\* version stored since then makes a conflict, and the error ends Reconcile.
PutMutant(cr, Done) ==    \* a patch without the resourceVersion
  /\ crs' = Extend(crs, cr) /\ recorded' = recorded \cup ({cr.tid} \ {NoID}) /\ Done
  /\ UNCHANGED <<created, kids, cloud, faults>>

PutAs(logs, cr, Done) ==
  /\ ~Lagging(crs)
  /\ Call(fresh, crs' \in logs /\ recorded' = recorded \cup ({cr.tid} \ {NoID}),
          UNCHANGED <<crs, recorded>>, Done, Return(TRUE))
  /\ UNCHANGED <<created, kids, cloud>>

Put(cr, Done) == PutAs({Extend(crs, cr)}, cr, Done)

\* After a successful write the local copy holds the new version.
Written(cr, next) ==
  pc' = next /\ copy' = cr /\ UNCHANGED <<queued, fresh, tid, token, todo>>

\* Server-side apply with Force has no version check; errors are handled by updateStatus.
Apply(k, child, next) ==
  /\ ~Lagging(kids[k])
  /\ Call(TRUE, kids' = [kids EXCEPT ![k] = Extend(@, child)], UNCHANGED kids,
          Step(next), Step("failed"))
  /\ UNCHANGED <<crs, created, recorded, cloud>>

-----------------------------------------------------------------------------
(* Reconcile of a live object *)

Get ==
  /\ pc = "idle" /\ queued
  /\ LET cr == crs[1] IN
     \/ cr.phase = "live" /\ ~cr.fin /\ pc' = "finalizer" /\ copy' = cr
     \/ cr.phase = "live" /\ cr.fin /\ pc' = "tunnel" /\ copy' = cr
     \/ cr.phase = "deleting" /\ cr.fin /\ pc' = "purge" /\ copy' = cr
     \/ cr.phase = "absent" /\ UNCHANGED <<pc, copy>>
  /\ queued' = FALSE /\ fresh' = (pc' # "idle" /\ Len(crs) = 1)
  /\ UNCHANGED <<tid, token, todo, faults, cluster, cloud>>

AddFinalizer ==
  /\ pc = "finalizer"
  /\ LET cr == [copy EXCEPT !.fin = TRUE] IN Put(cr, Written(cr, "tunnel"))

\* reconcileTunnel: reuse the recorded tunnel and the cached Secret's token
ReconcileTunnel ==
  /\ pc = "tunnel"
  /\ LET id == copy.tid
         t == Cached("Secret").token
     IN \/ id # NoID /\ t # NoID /\ pc' = "secret" /\ tid' = id /\ token' = t
        \/ id # NoID /\ t = NoID /\ pc' = "lookup" /\ tid' = id /\ UNCHANGED token
        \/ id = NoID /\ pc' = "create" /\ UNCHANGED <<tid, token>>
  /\ UNCHANGED <<queued, copy, fresh, todo, faults, cluster, cloud>>

Fetched == pc' = "secret" /\ token' = tid /\ UNCHANGED <<queued, copy, fresh, tid, todo>>

LookupTokenMutant ==      \* replaces the tunnel whatever the error is
  /\ pc = "lookup"
  /\ Call(tid \in tunnels, TRUE, TRUE, Fetched, Step("create"))
  /\ UNCHANGED <<cluster, cloud>>

\* GetTunnelToken of the recorded tunnel; only ErrTunnelNotFound leads to a new tunnel
LookupToken ==
  /\ pc = "lookup"
  /\ Call(tid \in tunnels, TRUE, TRUE, Fetched,
          Step(IF tid \notin tunnels /\ ReportsNotFound THEN "create" ELSE "failed"))
  /\ UNCHANGED <<cluster, cloud>>

CreateTunnel ==
  /\ pc = "create"
  /\ \/ \E t \in TunnelIDs \ issued :
          Call(UniqueNames => tunnels = {},
               tunnels' = tunnels \cup {t} /\ issued' = issued \cup {t},
               UNCHANGED <<tunnels, issued>>,
               pc' = "token" /\ tid' = t /\ UNCHANGED <<queued, copy, fresh, token, todo>>,
               Step("failed"))
     \/ TunnelIDs \subseteq issued /\ Step("failed") /\ UNCHANGED <<tunnels, issued, faults>>
  /\ UNCHANGED <<cluster, zone>>

FetchToken ==
  /\ pc = "token"
  /\ Call(tid \in tunnels, TRUE, TRUE, Fetched, Step("failed"))
  /\ UNCHANGED <<cluster, cloud>>

\* reconcileSecret compares with a Service, never finds them equal and always applies
ReconcileSecret ==
  /\ pc = "secret"
  /\ Apply("Secret", [owner |-> copy.uid, token |-> token, up |-> FALSE], "record")

\* cfTunnel.Status.TunnelID = tunnel.ID; Status().Update
RecordTunnel ==
  /\ pc = "record"
  /\ LET cr == [copy EXCEPT !.tid = tid] IN Put(cr, Written(cr, "Deployment"))

\* reconcileDeployment, reconcileService: nothing to do if the cached child is as wanted
ApplyWorkload(k, next) ==
  /\ pc = k
  /\ LET want == [Stored(k) EXCEPT !.owner = copy.uid] IN
     \/ Cached(k).owner = copy.uid /\ Step(next) /\ UNCHANGED <<faults, cluster, cloud>>
     \/ Cached(k).owner # copy.uid /\ Apply(k, want, next)

\* reconcileServiceMonitor, reconcilePDB: CreateOrUpdate sets the owner only on
\* a child missing from the cache, and Create fails on one that exists already
EnsureOptional(k, next) ==
  /\ pc = k
  /\ \/ (k \notin Optional \/ Cached(k).owner # 0) /\ Step(next) /\ UNCHANGED <<kids, faults>>
     \/ /\ k \in Optional /\ Cached(k).owner = 0 /\ ~Lagging(kids[k])
        /\ Call(Stored(k).owner = 0,
                kids' = [kids EXCEPT ![k] = Extend(@, [Missing EXCEPT !.owner = copy.uid])],
                UNCHANGED kids, Step(next), Step("failed"))
  /\ UNCHANGED <<crs, created, recorded, cloud>>

ReconcileChildren ==
  \/ ApplyWorkload("Deployment", "Service")
  \/ ApplyWorkload("Service", "ServiceMonitor")
  \/ EnsureOptional("ServiceMonitor", "PDB")
  \/ EnsureOptional("PDB", "status")

ConditionMutant ==        \* the reason instead of the condition
  IF Cached("Deployment").up THEN "OK" ELSE "Reconciling"

Condition ==
  IF \E k \in {"Secret", "Service", "Deployment"} : Cached(k).owner = 0 THEN "Degraded"
  ELSE IF Cached("Deployment").up THEN "Available" ELSE "Unavailable"

\* SetStatusCondition says "Available" first and takes it back: the second before it may
\* be another one, and then the same conditions are a new version
Restamped(cr) == IF cr.cond = "Available" THEN {} ELSE {Append(crs, cr)}

\* updateStatus, at the end of Reconcile or after an error; it writes nothing
\* while the local copy has no TunnelID
UpdateStatus ==
  /\ pc \in {"status", "failed"}
  /\ \/ /\ copy.tid = NoID
        /\ Return(pc = "failed") /\ UNCHANGED <<faults, cluster, cloud>>
     \/ /\ copy.tid # NoID
        /\ LET cr == [copy EXCEPT !.cond = Condition] IN
           PutAs({Extend(crs, cr)} \cup Restamped(cr), cr,
                 Return(pc = "failed" \/ ~Cached("Deployment").up))

-----------------------------------------------------------------------------
(* Reconcile of an object being deleted *)

Published(id) == {h \in Hosts : id # NoID /\ zone[h] = id}

\* DeleteAllDNS lists the records whose comment names the tunnel ...
ListRecords ==
  /\ pc = "purge"
  /\ LET found == Published(copy.tid) IN
     Call(TRUE, TRUE, TRUE,
          /\ pc' = IF found = {} THEN "delete" ELSE "unpublish"
          /\ todo' = found /\ UNCHANGED <<queued, copy, fresh, tid, token>>,
          Return(TRUE))
  /\ UNCHANGED <<cluster, cloud>>

\* ... and deletes them one by one, by record id, giving up at the first error
DeleteRecord ==
  /\ pc = "unpublish"
  /\ \E h \in todo :
       Call(h # NoID, zone' = [zone EXCEPT ![h] = NoID], UNCHANGED zone,
            /\ pc' = IF todo = {h} THEN "delete" ELSE "unpublish"
            /\ todo' = todo \ {h} /\ UNCHANGED <<queued, copy, fresh, tid, token>>,
            Return(TRUE))
  /\ UNCHANGED <<cluster, tunnels, issued>>

\* pods of the Deployment keep connections to the tunnel their token belongs to
Connected(id) == Stored("Deployment").up /\ Stored("Secret").token = id

Refused(id) ==
  \/ id = NoID /\ "empty" \in Refuses
  \/ id # NoID /\ id \notin tunnels /\ "absent" \in Refuses
  \/ id \in tunnels /\ Connected(id) /\ "connected" \in Refuses

DeleteTunnelMutant ==     \* the finalizer is removed whatever DeleteTunnel answers
  /\ pc = "delete"
  /\ LET id == copy.tid IN
     Call(~Refused(id), tunnels' = tunnels \ {id}, UNCHANGED tunnels,
          Step("unfinalize"), Step("unfinalize"))
  /\ UNCHANGED <<cluster, issued, zone>>

DeleteTunnel ==
  /\ pc = "delete"
  /\ LET id == copy.tid IN
     Call(~Refused(id), tunnels' = tunnels \ {id}, UNCHANGED tunnels,
          Step("unfinalize"), Return(TRUE))
  /\ UNCHANGED <<cluster, issued, zone>>

RemoveFinalizerMutant ==  \* a failed Update is not returned
  /\ pc = "unfinalize"
  /\ Call(fresh, crs' = Extend(crs, Absent), UNCHANGED crs, Return(FALSE), Return(FALSE))
  /\ UNCHANGED <<created, recorded, kids, cloud>>

\* without its last finalizer the object is gone
RemoveFinalizer ==
  /\ pc = "unfinalize"
  /\ Put(Absent, Return(FALSE))

-----------------------------------------------------------------------------
(* The API server, the cluster, the users and Cloudflare *)

\* somebody else stores a new version of the object
Store(cr) ==
  /\ ~Lagging(crs)
  /\ crs' = Append(crs, cr) /\ fresh' = FALSE
  /\ UNCHANGED <<recorded, kids, cloud, queued, pc, copy, tid, token, todo>>

CreateCR ==
  /\ Api.phase = "absent" /\ created < MaxCreations
  /\ created' = created + 1
  /\ Store([Absent EXCEPT !.phase = "live", !.uid = created']) /\ UNCHANGED faults

\* an edit of fields the model leaves out still makes a new version
EditCR == Api.phase # "absent" /\ Store(Api) /\ Fault("edit") /\ UNCHANGED created

DeleteCR ==
  /\ Api.phase = "live"
  /\ Store(IF Api.fin THEN [Api EXCEPT !.phase = "deleting"] ELSE Absent)
  /\ UNCHANGED <<created, faults>>

\* For() and Owns(): a watch event updates the cache and queues the request
ObserveCR ==
  /\ Len(crs) > 1 /\ crs' = Tail(crs) /\ queued' = TRUE
  /\ UNCHANGED <<created, recorded, kids, cloud, locals, faults>>

ObserveKidMutant(k) ==    \* without Owns(): changes of children wake nobody
  /\ Len(kids[k]) > 1 /\ kids' = [kids EXCEPT ![k] = Tail(@)]
  /\ UNCHANGED <<crs, created, recorded, cloud, queued, locals, faults>>

ObserveKid(k) ==
  /\ Len(kids[k]) > 1 /\ kids' = [kids EXCEPT ![k] = Tail(@)] /\ queued' = TRUE
  /\ UNCHANGED <<crs, created, recorded, cloud, locals, faults>>

SetKid(k, child) ==
  /\ ~Lagging(kids[k])
  /\ kids' = [kids EXCEPT ![k] = Append(@, child)]
  /\ UNCHANGED <<crs, created, recorded, cloud, queued, locals>>

\* the garbage collector removes children whose owner does not exist
CollectKid(k) ==
  Stored(k).owner \notin {0, Api.uid} /\ SetKid(k, Missing) /\ UNCHANGED faults

\* cloudflared becomes ready once its token opens a connection
DeploymentUp ==
  /\ Stored("Deployment").owner # 0 /\ ~Stored("Deployment").up
  /\ Stored("Secret").token \in tunnels
  /\ SetKid("Deployment", [Stored("Deployment") EXCEPT !.up = TRUE]) /\ UNCHANGED faults

DeploymentDown ==
  /\ Stored("Deployment").up /\ SetKid("Deployment", [Stored("Deployment") EXCEPT !.up = FALSE])
  /\ \/ Stored("Secret").token \notin tunnels /\ UNCHANGED faults
     \/ Fault("pod")

\* somebody deletes a child
LoseKid(k) == Stored(k).owner # 0 /\ SetKid(k, Missing) /\ Fault("kid")

\* somebody deletes a tunnel in the Cloudflare dashboard
LoseTunnel ==
  /\ \E t \in tunnels : tunnels' = tunnels \ {t}
  /\ Fault("tunnel")
  /\ UNCHANGED <<cluster, issued, zone, queued, locals>>

\* The Ingress controller writes the record of a host (appendDNSRecord) with an
\* id it read from the object's status, perhaps long ago ...
Publish(h) ==
  /\ \E t \in recorded : zone' = [zone EXCEPT ![h] = t]
  /\ UNCHANGED <<cluster, tunnels, issued, queued, locals, faults>>

\* ... or removes one (removeDNSRecord); the next one of this host is another record
Withdraw(h) ==
  /\ zone[h] # NoID /\ zone' = [zone EXCEPT ![h] = NoID] /\ Fault("withdraw")
  /\ todo' = {IF g = h THEN NoID ELSE g : g \in todo}
  /\ UNCHANGED <<cluster, tunnels, issued, queued, pc, copy, fresh, tid, token>>

\* The operator dies in the middle of Reconcile; its successor lists every
\* object and queues it.  What its caches hold may still trail the API server.
Restart == pc # "idle" /\ Return(TRUE) /\ Fault("restart") /\ UNCHANGED <<cluster, cloud>>

-----------------------------------------------------------------------------
Worker ==
  \/ Get \/ AddFinalizer \/ ReconcileTunnel \/ LookupToken \/ CreateTunnel \/ FetchToken
  \/ ReconcileSecret \/ RecordTunnel \/ ReconcileChildren \/ UpdateStatus
  \/ ListRecords \/ DeleteRecord \/ DeleteTunnel \/ RemoveFinalizer

Environment ==
  \/ CreateCR \/ EditCR \/ DeleteCR \/ ObserveCR
  \/ \E k \in Kinds : ObserveKid(k) \/ CollectKid(k) \/ LoseKid(k)
  \/ DeploymentUp \/ DeploymentDown \/ LoseTunnel \/ Restart
  \/ \E h \in Hosts : Publish(h) \/ Withdraw(h)

Next == Worker \/ Environment

Spec == Init /\ [][Next]_vars

\* The worker is never idle with a queued request, watches deliver every event,
\* the garbage collector and the Deployment controller do their work.
Fairness ==
  /\ WF_vars(Worker) /\ WF_vars(ObserveCR) /\ WF_vars(DeploymentUp)
  /\ \A k \in Kinds : WF_vars(ObserveKid(k)) /\ WF_vars(CollectKid(k))

FairSpec == Spec /\ Fairness

-----------------------------------------------------------------------------
(* Properties *)

TypeOK ==
  /\ crs \in Seq(CRs) /\ Len(crs) > 0 /\ created \in 0..MaxCreations
  /\ kids \in [Kinds -> Seq(Children)] /\ \A k \in Kinds : Len(kids[k]) > 0
  /\ tunnels \subseteq TunnelIDs /\ issued \subseteq TunnelIDs /\ recorded \subseteq TunnelIDs
  /\ zone \in [Hosts -> IDs]
  /\ queued \in BOOLEAN /\ pc \in PCs /\ copy \in CRs /\ fresh \in BOOLEAN
  /\ tid \in IDs /\ token \in IDs /\ todo \subseteq Hosts \cup {NoID}
  /\ faults \in 0..MaxFaults

\* Whatever crashes, conflicts, stale caches and races with the user there are, a
\* tunnel whose id was ever written to Status.TunnelID and that still exists in
\* Cloudflare is the tunnel the stored object names now: the finalizer is not
\* removed, and the id is not overwritten, before that tunnel is deleted
\* (Reconcile, lines 92-141).
NoRecordedLeak == recorded \cap tunnels \subseteq {Api.tid}

\* The controller deletes a recorded tunnel only while the stored object is being
\* deleted and names that tunnel, however old the copy it acts on (line 98).
DeletesOnlyItsOwn ==
  [][\A t \in (tunnels \ tunnels') \cap recorded :
       LoseTunnel \/ (Api.phase = "deleting" /\ Api.tid = t)]_vars

\* The inductive invariant behind both.
Versions == {crs[i] : i \in 1..Len(crs)} \cup {copy}

VersionsOK ==
  \A v \in Versions :
    /\ v.tid \in recorded \cup {NoID}
    /\ ~v.fin => v.tid = NoID /\ v.phase # "deleting"
    /\ v.phase = "absent" => v.tid = NoID

\* an old version being deleted names the stored object's tunnel only if that
\* object is being deleted
DeletingOK ==
  \A v \in Versions :
    v.phase = "deleting" /\ v.tid # NoID /\ v.tid = Api.tid => Api.phase = "deleting"

CopyOK ==
  /\ fresh => copy = Api /\ pc # "idle"
  /\ pc = "finalizer" => copy.phase = "live"
  /\ pc \in {"tunnel", "lookup", "create", "token", "secret", "record", "Deployment",
            "Service", "ServiceMonitor", "PDB", "status", "failed"}
       => copy.phase = "live" /\ copy.fin
  /\ pc \in {"purge", "unpublish", "delete", "unfinalize"} => copy.phase = "deleting" /\ copy.fin

TunnelStepOK ==
  /\ recorded \cup tunnels \subseteq issued
  /\ pc = "lookup" => tid = copy.tid /\ tid # NoID
  /\ pc \in {"create", "unfinalize"} => copy.tid \notin tunnels
  /\ pc \in {"token", "secret", "record"} =>
       /\ tid \in issued
       /\ tid = copy.tid \/ (tid \notin recorded /\ copy.tid \notin tunnels)

Invariant == VersionsOK /\ DeletingOK /\ CopyOK /\ TunnelStepOK /\ NoRecordedLeak

\* The controller implements the abstract life cycle of the object's tunnel.
Lifecycle == INSTANCE TunnelLifecycle
  WITH phase <- Api.phase, recorded <- Api.tid,
       Removable <- IF "tunnel" \in Faults THEN TunnelIDs ELSE {}

ImplementsLifecycle == Lifecycle!Spec

Settled ==
  /\ pc = "idle" /\ ~queued /\ Len(crs) = 1
  /\ \A k \in Kinds : Len(kids[k]) = 1 /\ Stored(k).owner \in {0, Api.uid}

Wanted == {"Secret", "Deployment", "Service"} \cup Optional

Converged ==
  /\ Api.phase = "live" /\ Api.fin /\ Api.tid # NoID /\ Api.cond = "Available"
  /\ \A k \in Wanted : Stored(k).owner = Api.uid
  /\ Stored("Deployment").up

\* a tunnel exists that the object does not name, and nobody is about to record it
Orphaned == pc = "idle" /\ Api.tid = NoID /\ tunnels # {}

\* The controller never goes quiet on unfinished work: with nothing queued and
\* nothing left to observe, the object is gone or its finalizer, tunnel, children
\* and conditions are all in place (every error is returned or requeued).
SettledIsConverged == Settled => Api.phase = "absent" \/ Converged

\* The inductive invariant behind that.  An object has a uid, which tells its children
\* from orphans.
UidsOK == \A v \in Versions : v.phase # "absent" => v.uid # 0

\* the children that Reconcile has dealt with
Passed ==
  CASE pc \in {"record", "Deployment"} -> {"Secret"}
    [] pc = "Service" -> {"Secret", "Deployment"}
    [] pc = "ServiceMonitor" -> {"Secret", "Deployment", "Service"}
    [] pc = "PDB" -> Kinds \ {"PDB"}
    [] pc = "status" -> Kinds
    [] OTHER -> {}

\* They are there unless the cache is about to say otherwise, and the id is recorded first.
PassedOK ==
  /\ pc \in {"Deployment", "Service", "ServiceMonitor", "PDB", "status"} => copy.tid # NoID
  /\ \A k \in Passed \cap Wanted :
       Len(kids[k]) = 1 /\ Stored(k).owner \in {0, copy.uid} => queued \/ Stored(k).owner = copy.uid

\* Children that Reconcile has passed are in place, or it is going to look again, so that
\* nothing is missing when it goes quiet (Reconcile, lines 143-175, and the watches).
QuietInvariant == UidsOK /\ PassedOK /\ SettledIsConverged

\* The deletion of an object with a recorded tunnel completes (lines 92-109),
\* with every request retried until it succeeds.
DeletionCompletes == (Api.phase = "deleting" /\ Api.tid # NoID) ~> (Api.phase = "absent")

\* ingress_watcher.go:400 leaves a deleted object's tunnel alone because deleting the
\* object deletes the tunnel: no tunnel stays for ever while no live object has it.
DeletionRemovesTunnel == (Api.phase # "live") ~> (tunnels = {} \/ Api.phase = "live")

\* The object's own Secret holds the token of another tunnel than the one it names.
Misled ==
  /\ Api.tid # NoID
  /\ Stored("Secret").owner = Api.uid /\ Stored("Secret").token # Api.tid

\* A live object ends up served by an available Deployment, whatever requests fail,
\* whoever deletes children and whichever pods die, unless it is deleted, or a tunnel
\* was created whose id nobody stored, so that its name is taken (lines 119-175 and 220),
\* or Reconcile took the token from the Secret of an earlier object (lines 198-204).
LiveIsServed == (Api.phase = "live") ~> (Converged \/ Api.phase # "live" \/ Orphaned \/ Misled)

\* README.md:39: once the object has been applied, cloudflared is up and running.  That
\* its name may be taken is left to DeletionRemovesTunnel.
DeploymentRuns ==
  (Api.phase = "live") ~> (Stored("Deployment").up \/ Api.phase # "live" \/ Orphaned)
=============================================================================
