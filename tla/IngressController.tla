-------------------------- MODULE IngressController --------------------------
(***************************************************************************)
(* The Ingress controller: IngressReconciler of                            *)
(* internal/controller/ingress_watcher.go, which gives every host of an    *)
(* Ingress a rule in the remote configuration of a tunnel and a CNAME      *)
(* record, with the calls it makes through pkg/external/cloudflare.go.     *)
(*                                                                         *)
(* One worker takes Ingresses from a work queue.  It watches Ingresses     *)
(* only; CloudflareTunnel objects are read from a cache.  What the         *)
(* CloudflareTunnel controller does to them and to DNS is reduced here to  *)
(* the steps of its life cycle (TunnelController.tla has it in full), with *)
(* the listing and the deletion of records kept apart.                     *)
(***************************************************************************)
EXTENDS Integers, Sequences, FiniteSets

CONSTANTS
  Ingresses,       \* names of Ingress objects
  CFTunnels,       \* names of CloudflareTunnel objects
  DefaultTunnels,  \* those labelled as default
  TunnelIDs,       \* tunnel ids; their number bounds CreateTunnel
  NoID,            \* the empty tunnel id, or no DNS record
  Foreign,         \* the content of a CNAME record somebody else made
  Hosts,
  IPs, NoIP,       \* load balancer addresses
  Specs,           \* per Ingress, the specifications its user writes:
                   \* [hosts, tls : sets of hosts, ignored : BOOLEAN, tunnel]
                   \* where tunnel is a CFTunnel, "default" or "malformed"
  Faults,          \* the kinds of fault and interference that may happen
  MaxFaults,       \* bound: how many of them in one behaviour
  MaxIngress,      \* bound: how often users create each Ingress
  MaxCF            \* bound: how often users create each CloudflareTunnel

FaultKinds == {"error", "lost", "restart", "edit", "lateEdit", "retire", "tunnel", "foreign"}
Spec0 == [hosts |-> {}, tls |-> {}, ignored |-> FALSE, tunnel |-> "default"]
SpecType == [hosts : SUBSET Hosts, tls : SUBSET Hosts, ignored : BOOLEAN,
             tunnel : CFTunnels \cup {"default", "malformed"}]

ASSUME ConstantsAssumption ==
  /\ Ingresses # {} /\ Hosts # {}
  /\ NoID \notin TunnelIDs /\ Foreign \notin TunnelIDs /\ Foreign # NoID
  /\ DefaultTunnels \subseteq CFTunnels
  /\ CFTunnels \cap {"default", "malformed"} = {} /\ Ingresses \cap CFTunnels = {}
  /\ NoIP \notin IPs
  /\ \A i \in Ingresses : Specs[i] \subseteq SpecType
  /\ Faults \subseteq FaultKinds /\ MaxFaults \in Nat
  /\ MaxIngress \in Nat /\ MaxCF \in Nat

VARIABLES
  ings,     \* per Ingress, its versions from the cached one (first) to the stored one (last)
  cfs,      \* per CloudflareTunnel, its versions from the cached one to the stored one
  made,     \* per name, how many objects were created
  tunnels,  \* the tunnels that exist
  issued,   \* the tunnel ids ever handed out
  configs,  \* per tunnel id, the endpoint its remote configuration gives each host
  zone,     \* per host, the tunnel its CNAME record names, Foreign, or NoID
  purge,    \* per CloudflareTunnel, the progress of its DeleteAllDNS: the records left
  queue,    \* the Ingresses in the work queue
  pc, name, copy, fresh, target, snap, todo, host, record,  \* locals of Reconcile
  faults

worker == <<pc, name, copy, fresh, target, snap, todo, host, record>>
cloud == <<tunnels, issued, configs, zone>>
vars == <<ings, cfs, made, cloud, purge, queue, worker, faults>>

-----------------------------------------------------------------------------
(* Objects *)

NoRule == <<>>
Endpoints == IPs \X BOOLEAN                         \* address and whether https is spoken
IDs == TunnelIDs \cup {NoID}
Records == IDs \cup {Foreign}
NoConfig == [h \in Hosts |-> NoRule]

Ings == [phase : {"absent", "live", "deleting"}, fin : BOOLEAN, spec : SpecType,
         ip : IPs \cup {NoIP}]
NoIngress == [phase |-> "absent", fin |-> FALSE, spec |-> Spec0, ip |-> NoIP]

CFs == [phase : {"absent", "live", "deleting"}, tid : IDs]
NoCF == [phase |-> "absent", tid |-> NoID]

Ing(i) == ings[i][Len(ings[i])]
CF(c) == cfs[c][Len(cfs[c])]
CachedIng(i) == ings[i][1]
CachedCF(c) == cfs[c][1]

\* DeleteAllDNS of c has not listed the records yet
Unlisted == [listed |-> FALSE, left |-> {}]

\* what the locals name while Reconcile is not running
AnIngress == CHOOSE i \in Ingresses : TRUE
AHost == CHOOSE h \in Hosts : TRUE

PCs == {"idle", "finalizer", "resolve", "getConfig", "putConfig", "getDNS", "putDNS", "unfinalize"}

Init ==
  /\ ings = [i \in Ingresses |-> <<NoIngress>>]
  /\ cfs = [c \in CFTunnels |-> <<NoCF>>]
  /\ made = [n \in Ingresses \cup CFTunnels |-> 0]
  /\ tunnels = {} /\ issued = {}
  /\ configs = [t \in TunnelIDs |-> NoConfig]
  /\ zone \in [Hosts -> IF "foreign" \in Faults THEN {NoID, Foreign} ELSE {NoID}]
  /\ purge = [c \in CFTunnels |-> Unlisted]
  /\ queue = {} /\ pc = "idle" /\ name = AnIngress /\ copy = NoIngress /\ fresh = FALSE
  /\ target = NoID /\ snap = NoConfig /\ todo = {} /\ host = AHost /\ record = NoID
  /\ faults = 0

-----------------------------------------------------------------------------
(* Requests, as in TunnelController *)

Fault(kind) == kind \in Faults /\ faults < MaxFaults /\ faults' = faults + 1

Call(ok, Effect, NoEffect, Done, Failed) ==
  \/ ok /\ Effect /\ Done /\ UNCHANGED faults
  \/ ok /\ Fault("lost") /\ Effect /\ Failed
  \/ ok /\ Fault("error") /\ NoEffect /\ Failed
  \/ ~ok /\ NoEffect /\ Failed /\ UNCHANGED faults

Idle ==
  /\ pc' = "idle" /\ name' = AnIngress /\ copy' = NoIngress /\ fresh' = FALSE
  /\ target' = NoID /\ snap' = NoConfig /\ todo' = {} /\ host' = AHost /\ record' = NoID

\* Reconcile returns; an error puts the request back.
Return(again) ==
  /\ Idle
  /\ queue' = IF again THEN queue \cup {name} ELSE queue

\* Update of the Ingress with the resourceVersion that was read
Put(ing, Done) ==
  /\ Call(fresh, ings' = [ings EXCEPT ![name] = Append(@, ing)], UNCHANGED ings,
          Done, Return(TRUE))
  /\ UNCHANGED <<cfs, made, cloud, purge>>

-----------------------------------------------------------------------------
(* Reconcile *)

Get(i) ==
  /\ pc = "idle" /\ i \in queue /\ queue' = queue \ {i}
  /\ LET ing == CachedIng(i) IN
     \/ ing.phase = "absent" /\ UNCHANGED worker
     \/ /\ ing.phase = "live" \/ (ing.phase = "deleting" /\ ing.fin)
        /\ pc' = IF ing.fin THEN "resolve" ELSE "finalizer"
        /\ name' = i /\ copy' = ing /\ fresh' = (Len(ings[i]) = 1)
        /\ UNCHANGED <<target, snap, todo, host, record>>
  /\ UNCHANGED <<ings, cfs, made, cloud, purge, faults>>

AddFinalizerMutant ==     \* the error of Update is only logged
  /\ pc = "finalizer"
  /\ LET ing == [copy EXCEPT !.fin = TRUE]
         Go == pc' = "resolve" /\ copy' = ing
                 /\ UNCHANGED <<queue, name, fresh, target, snap, todo, host, record>>
     IN Call(fresh, ings' = [ings EXCEPT ![name] = Append(@, ing)], UNCHANGED ings, Go, Go)
  /\ UNCHANGED <<cfs, made, cloud, purge>>

AddFinalizer ==
  /\ pc = "finalizer"
  /\ LET ing == [copy EXCEPT !.fin = TRUE] IN
     Put(ing, pc' = "resolve" /\ copy' = ing
              /\ UNCHANGED <<queue, name, fresh, target, snap, todo, host, record>>)

Finalizing == copy.phase = "deleting"
Removing == Finalizing \/ copy.spec.ignored

\* detectCloudflareTunnelName and getCloudflareTunnel: the annotated tunnel, or
\* the first of the cached default ones, in no particular order
Uses(spec) ==
  {c \in CFTunnels : c = spec.tunnel \/ (spec.tunnel = "default" /\ c \in DefaultTunnels)}
Candidates == {c \in Uses(copy.spec) : CachedCF(c).phase # "absent"}

UseTunnelMutant(c) ==     \* without the check of the load balancer's address
  LET cf == CachedCF(c) IN
  \/ (cf.phase = "deleting" \/ cf.tid = NoID) /\ Return(TRUE)
  \/ /\ cf.phase = "live" /\ cf.tid # NoID
     /\ pc' = "getConfig" /\ target' = cf.tid
     /\ UNCHANGED <<queue, name, copy, fresh, snap, todo, host, record>>

UseTunnel(c) ==
  LET cf == CachedCF(c) IN
  \/ cf.phase = "deleting" /\ Finalizing
       /\ pc' = "unfinalize"
       /\ UNCHANGED <<queue, name, copy, fresh, target, snap, todo, host, record>>
  \/ /\ \/ cf.phase = "deleting" /\ ~Finalizing
        \/ cf.phase = "live" /\ cf.tid = NoID
        \/ cf.phase = "live" /\ cf.tid # NoID /\ copy.ip = NoIP /\ ~Finalizing
     /\ Return(TRUE)
  \/ /\ cf.phase = "live" /\ cf.tid # NoID /\ (Finalizing \/ copy.ip # NoIP)
     /\ pc' = "getConfig" /\ target' = cf.tid
     /\ UNCHANGED <<queue, name, copy, fresh, snap, todo, host, record>>

Resolve ==
  /\ pc = "resolve"
  /\ \/ \E c \in Candidates : UseTunnel(c)
     \/ /\ Candidates = {} /\ copy.spec.tunnel = "default" /\ Finalizing
        /\ pc' = "unfinalize"
        /\ UNCHANGED <<queue, name, copy, fresh, target, snap, todo, host, record>>
     \/ Candidates = {} /\ copy.spec.tunnel = "default" /\ ~Finalizing /\ Return(FALSE)
     \/ Candidates = {} /\ copy.spec.tunnel # "default" /\ Return(TRUE)
  /\ UNCHANGED <<ings, cfs, made, cloud, purge, faults>>

\* append/removeCloudflareTunnelConfig: read the whole configuration ...
GetTunnelConfiguration ==
  /\ pc = "getConfig"
  /\ Call(target \in tunnels, TRUE, TRUE,
          pc' = "putConfig" /\ snap' = configs[target]
            /\ UNCHANGED <<queue, name, copy, fresh, target, todo, host, record>>,
          Return(TRUE))
  /\ UNCHANGED <<ings, cfs, made, cloud, purge>>

Endpoint(h) == <<copy.ip, h \in copy.spec.tls>>

\* ... and write it back with the hosts of this Ingress set or removed
NewConfigMutant ==        \* built from the hosts of this Ingress alone
  [h \in Hosts |-> IF h \notin copy.spec.hosts \/ Removing THEN NoRule ELSE Endpoint(h)]

NewConfig ==
  [h \in Hosts |-> IF h \notin copy.spec.hosts THEN snap[h]
                   ELSE IF Removing THEN NoRule ELSE Endpoint(h)]

\* after the last host
Finish ==
  \/ ~Finalizing /\ Return(FALSE)
  \/ Finalizing /\ pc' = "unfinalize" /\ todo' = {}
       /\ UNCHANGED <<queue, name, copy, fresh, target, snap, host, record>>

NextHost(left) ==
  \/ left = {} /\ Finish
  \/ left # {} /\ pc' = "getDNS" /\ todo' = left
       /\ UNCHANGED <<queue, name, copy, fresh, target, snap, host, record>>

UpdateTunnelConfigurationMutant ==    \* a failed update is given up
  /\ pc = "putConfig"
  /\ Call(target \in tunnels, configs' = [configs EXCEPT ![target] = NewConfig],
          UNCHANGED configs, NextHost(copy.spec.hosts), Return(FALSE))
  /\ UNCHANGED <<ings, cfs, made, tunnels, issued, zone, purge>>

UpdateTunnelConfigurationLaxMutant == \* a failed update is only logged
  /\ pc = "putConfig"
  /\ Call(target \in tunnels, configs' = [configs EXCEPT ![target] = NewConfig],
          UNCHANGED configs, NextHost(copy.spec.hosts), NextHost(copy.spec.hosts))
  /\ UNCHANGED <<ings, cfs, made, tunnels, issued, zone, purge>>

UpdateTunnelConfiguration ==
  /\ pc = "putConfig"
  /\ Call(target \in tunnels, configs' = [configs EXCEPT ![target] = NewConfig],
          UNCHANGED configs, NextHost(copy.spec.hosts), Return(TRUE))
  /\ UNCHANGED <<ings, cfs, made, tunnels, issued, zone, purge>>

GetDNSMutant ==           \* a record is taken to be right wherever it leads
  /\ pc = "getDNS"
  /\ \E h \in todo :
       Call(TRUE, TRUE, TRUE,
            \/ (zone[h] = NoID <=> Removing) /\ NextHost(todo \ {h})
            \/ /\ ~(zone[h] = NoID <=> Removing)
               /\ pc' = "putDNS" /\ host' = h /\ record' = zone[h]
               /\ UNCHANGED <<queue, name, copy, fresh, target, snap, todo>>,
            Return(TRUE))
  /\ UNCHANGED <<ings, cfs, made, cloud, purge>>

\* append/removeDNSRecord: look the host's record up; nothing may be left to do
GetDNS ==
  /\ pc = "getDNS"
  /\ \E h \in todo :
       Call(TRUE, TRUE, TRUE,
            \/ zone[h] = (IF Removing THEN NoID ELSE target) /\ NextHost(todo \ {h})
            \/ /\ zone[h] # (IF Removing THEN NoID ELSE target)
               /\ pc' = "putDNS" /\ host' = h /\ record' = zone[h]
               /\ UNCHANGED <<queue, name, copy, fresh, target, snap, todo>>,
            Return(TRUE))
  /\ UNCHANGED <<ings, cfs, made, cloud, purge>>

\* DeleteDNS and UpdateDNS name the record that was read, AddDNS needs it absent
PutDNS ==
  /\ pc = "putDNS"
  /\ Call(record = NoID <=> zone[host] = NoID,
          zone' = [zone EXCEPT ![host] = IF Removing THEN NoID ELSE target],
          UNCHANGED zone, NextHost(todo \ {host}), Return(TRUE))
  /\ UNCHANGED <<ings, cfs, made, tunnels, issued, configs, purge>>

RemoveFinalizerMutant ==  \* a failed Update is not returned
  /\ pc = "unfinalize"
  /\ Call(fresh, ings' = [ings EXCEPT ![name] = Append(@, NoIngress)], UNCHANGED ings,
          Return(FALSE), Return(FALSE))
  /\ UNCHANGED <<cfs, made, cloud, purge>>

RemoveFinalizer == pc = "unfinalize" /\ Put(NoIngress, Return(FALSE))

-----------------------------------------------------------------------------
(* Users and the cluster *)

\* somebody else stores a version of Ingress i
Store(i, ing) ==
  /\ ings' = [ings EXCEPT ![i] = Append(@, ing)]
  /\ fresh' = (fresh /\ i # name)
  /\ UNCHANGED <<cfs, cloud, purge, queue, pc, name, copy, target, snap, todo, host, record>>

CreateIngress(i) ==
  /\ Ing(i).phase = "absent" /\ made[i] < MaxIngress
  /\ \E s \in Specs[i] : Store(i, [NoIngress EXCEPT !.phase = "live", !.spec = s])
  /\ made' = [made EXCEPT ![i] = @ + 1] /\ UNCHANGED faults

\* an Ingress that is being deleted can still be edited
EditIngress(i) ==
  /\ \/ Ing(i).phase = "live" /\ Fault("edit")
     \/ Ing(i).phase = "deleting" /\ Fault("lateEdit")
  /\ \E s \in Specs[i] : Store(i, [Ing(i) EXCEPT !.spec = s])
  /\ UNCHANGED made

\* the cluster's own ingress controller reports an address
AssignIP(i) ==
  /\ Ing(i).phase # "absent" /\ Ing(i).ip = NoIP
  /\ \E a \in IPs : Store(i, [Ing(i) EXCEPT !.ip = a])
  /\ UNCHANGED <<made, faults>>

DeleteIngress(i) ==
  /\ Ing(i).phase = "live"
  /\ Store(i, IF Ing(i).fin THEN [Ing(i) EXCEPT !.phase = "deleting"] ELSE NoIngress)
  /\ UNCHANGED <<made, faults>>

ObserveIngress(i) ==
  /\ Len(ings[i]) > 1
  /\ ings' = [ings EXCEPT ![i] = Tail(@)] /\ queue' = queue \cup {i}
  /\ UNCHANGED <<cfs, made, cloud, purge, worker, faults>>

-----------------------------------------------------------------------------
(* The CloudflareTunnel controller, reduced to its life cycle, and the dashboard.  None of *)
(* this is fair: a tunnel may be created late, or for ever not recorded or not deleted.   *)

StoreCF(c, cf) ==
  /\ cfs' = [cfs EXCEPT ![c] = Append(@, cf)]
  /\ UNCHANGED <<ings, queue, worker, faults>>

CreateCF(c) ==
  /\ CF(c).phase = "absent" /\ made[c] < MaxCF
  /\ StoreCF(c, [NoCF EXCEPT !.phase = "live"])
  /\ made' = [made EXCEPT ![c] = @ + 1] /\ UNCHANGED <<cloud, purge>>

\* CreateTunnel, the token, the Secret and the status update with the id, once all of
\* them have succeeded: nothing of them shows before
RecordTunnel(c) ==
  /\ CF(c).phase = "live" /\ CF(c).tid = NoID
  /\ \E t \in TunnelIDs \ issued :
       /\ issued' = issued \cup {t} /\ tunnels' = tunnels \cup {t}
       /\ StoreCF(c, [CF(c) EXCEPT !.tid = t])
  /\ UNCHANGED <<made, configs, zone, purge>>

DeleteCF(c) ==
  /\ CF(c).phase = "live"
  /\ cfs' = [cfs EXCEPT ![c] = Append(@, [CF(c) EXCEPT !.phase = "deleting"])]
  /\ Fault("retire") /\ UNCHANGED <<ings, made, cloud, purge, queue, worker>>

\* The Ingress controller does not watch CloudflareTunnels: nothing is queued.
ObserveCF(c) ==
  /\ Len(cfs[c]) > 1 /\ cfs' = [cfs EXCEPT ![c] = Tail(@)]
  /\ UNCHANGED <<ings, made, cloud, purge, queue, worker, faults>>

\* DeleteAllDNS lists the records of the tunnel ...
ListRecords(c) ==
  /\ CachedCF(c).phase = "deleting" /\ CF(c).phase = "deleting" /\ ~purge[c].listed
  /\ purge' = [purge EXCEPT ![c] =
       [listed |-> TRUE, left |-> {h \in Hosts : CF(c).tid # NoID /\ zone[h] = CF(c).tid}]]
  /\ UNCHANGED <<ings, cfs, made, cloud, queue, worker, faults>>

\* ... deletes them one by one, starting over when one is gone already ...
DeleteRecord(c) ==
  /\ \E h \in purge[c].left :
       /\ zone' = [zone EXCEPT ![h] = NoID]
       /\ purge' = [purge EXCEPT ![c] = IF zone[h] = NoID THEN Unlisted
                                        ELSE [listed |-> TRUE, left |-> @.left \ {h}]]
  /\ UNCHANGED <<ings, cfs, made, tunnels, issued, configs, queue, worker, faults>>

\* ... then the tunnel goes, with its configuration, and the object after it
DeleteTunnel(c) ==
  /\ purge[c].listed /\ purge[c].left = {}
  /\ tunnels' = tunnels \ {CF(c).tid}
  /\ configs' = [t \in TunnelIDs |-> IF t = CF(c).tid THEN NoConfig ELSE configs[t]]
  /\ purge' = [purge EXCEPT ![c] = Unlisted]
  /\ StoreCF(c, NoCF) /\ UNCHANGED <<made, issued, zone>>

\* Somebody deletes a tunnel at the dashboard.  The object keeps its id: the client's
\* error never is the one for which the CloudflareTunnel controller makes a new tunnel.
LoseTunnel ==
  /\ \E t \in tunnels :
       /\ tunnels' = tunnels \ {t}
       /\ configs' = [configs EXCEPT ![t] = NoConfig]
  /\ Fault("tunnel")
  /\ UNCHANGED <<ings, cfs, made, issued, zone, purge, queue, worker>>

\* The operator restarts; its successor queues every Ingress it lists.
Restart ==
  /\ pc # "idle" /\ Fault("restart") /\ Idle /\ queue' = Ingresses
  /\ UNCHANGED <<ings, cfs, made, cloud, purge>>

-----------------------------------------------------------------------------
Worker ==
  \/ \E i \in Ingresses : Get(i)
  \/ AddFinalizer \/ Resolve \/ GetTunnelConfiguration \/ UpdateTunnelConfiguration
  \/ GetDNS \/ PutDNS \/ RemoveFinalizer

Users ==
  \/ \E i \in Ingresses :
       CreateIngress(i) \/ EditIngress(i) \/ AssignIP(i) \/ DeleteIngress(i) \/ ObserveIngress(i)
  \/ \E c \in CFTunnels : CreateCF(c) \/ DeleteCF(c) \/ ObserveCF(c)
  \/ Restart

TunnelSteps ==
  \/ \E c \in CFTunnels :
       RecordTunnel(c) \/ ListRecords(c) \/ DeleteRecord(c) \/ DeleteTunnel(c)
  \/ LoseTunnel

Next == Worker \/ Users \/ TunnelSteps

Spec == Init /\ [][Next]_vars

\* Each queued Ingress gets its turn (the queue is first in, first out), Reconcile
\* goes on, watches deliver, the cluster's ingress controller reports an address.
Fairness ==
  /\ \A i \in Ingresses : SF_vars(Get(i)) /\ WF_vars(ObserveIngress(i)) /\ WF_vars(AssignIP(i))
  /\ WF_vars(Worker)
  /\ \A c \in CFTunnels : WF_vars(ObserveCF(c))

FairSpec == Spec /\ Fairness

-----------------------------------------------------------------------------
(* Properties *)

TypeOK ==
  /\ ings \in [Ingresses -> Seq(Ings)] /\ \A i \in Ingresses : Len(ings[i]) > 0
  /\ cfs \in [CFTunnels -> Seq(CFs)] /\ \A c \in CFTunnels : Len(cfs[c]) > 0
  /\ made \in [Ingresses \cup CFTunnels -> Nat]
  /\ tunnels \subseteq issued /\ issued \subseteq TunnelIDs
  /\ configs \in [TunnelIDs -> [Hosts -> Endpoints \cup {NoRule}]]
  /\ zone \in [Hosts -> Records]
  /\ purge \in [CFTunnels -> [listed : BOOLEAN, left : SUBSET Hosts]]
  /\ queue \subseteq Ingresses /\ pc \in PCs /\ name \in Ingresses /\ copy \in Ings
  /\ fresh \in BOOLEAN /\ target \in IDs /\ snap \in [Hosts -> Endpoints \cup {NoRule}]
  /\ todo \subseteq Hosts /\ host \in Hosts /\ record \in Records
  /\ faults \in 0..MaxFaults

Settled ==
  /\ pc = "idle" /\ queue = {}
  /\ \A i \in Ingresses : Len(ings[i]) = 1
  /\ \A c \in CFTunnels : Len(cfs[c]) = 1

\* a live object whose tunnel is recorded and exists
Serving(c) == CF(c).phase = "live" /\ CF(c).tid # NoID /\ CF(c).tid \in tunnels

\* an object that was created and is not live any more
Gone(c) == made[c] > 0 /\ CF(c).phase # "live"

Wants(i) == Ing(i).phase = "live" /\ ~Ing(i).spec.ignored

RoutedBy(i, t) ==
  \A h \in Ing(i).spec.hosts :
    /\ configs[t][h] = <<Ing(i).ip, h \in Ing(i).spec.tls>>
    /\ zone[h] = t

HiddenFrom(i, t) == \A h \in Ing(i).spec.hosts : configs[t][h] = NoRule /\ zone[h] = NoID

\* The controller never goes quiet on unfinished work: with nothing queued and
\* nothing left to observe, an Ingress that names a tunnel which is live has a rule
\* and a record for each of its hosts, or none if it is to be ignored, whatever
\* conflicts, crashes and failed requests came in between (Reconcile, lines 82-142).
SettledIsRouted ==
  Settled => \A i \in Ingresses, c \in CFTunnels :
    Ing(i).phase = "live" /\ Ing(i).spec.tunnel = c /\ Serving(c) =>
      IF Wants(i) THEN RoutedBy(i, CF(c).tid) ELSE HiddenFrom(i, CF(c).tid)

PublishedThrough(i, c) == Wants(i) /\ Ing(i).spec.tunnel = c /\ Serving(c)

\* A record may be missing when another tunnel has been deleted: DeleteAllDNS deletes what
\* it listed by record id, even if that leads to this tunnel by now, and nobody queues the
\* Ingress again (cloudflare.go lines 180-207).
RedirectedTo(i, c) ==
  \A h \in Ing(i).spec.hosts :
    /\ configs[CF(c).tid][h] = <<Ing(i).ip, h \in Ing(i).spec.tls>>
    /\ \/ zone[h] = CF(c).tid
       \/ zone[h] = NoID /\ \E d \in CFTunnels \ {c} : Gone(d)

\* An Ingress that is moved to another tunnel is redirected: when all is quiet, its rules
\* and records lead to the tunnel it names (Reconcile, lines 96-142 and 286-306).
MovedIsRouted ==
  Settled => \A i \in Ingresses, c \in CFTunnels : PublishedThrough(i, c) => RedirectedTo(i, c)

\* A record never leads to a live tunnel that knows nothing of its host, except while
\* an Ingress of that host is being withdrawn, although rules and records are written
\* one by one, retried, and each retry may find another tunnel (lines 96-140): rules
\* go on first, and off first.
RecordsHaveRules ==
  \A c \in CFTunnels, h \in Hosts :
    Serving(c) /\ zone[h] = CF(c).tid /\ configs[zone[h]][h] = NoRule =>
      \E i \in Ingresses : /\ Ing(i).fin /\ h \in Ing(i).spec.hosts
                           /\ Ing(i).phase = "deleting" \/ Ing(i).spec.ignored

\* A rule or a record that leads to a live tunnel is one an Ingress still answers
\* for: the finalizer goes on before the first entry and off only after the last
\* one, even when Reconcile acts on an old copy of a deleted object (lines 61-80).
\* Assumes that an Ingress is not moved to other hosts or to another tunnel.
EntriesGoWithIngress ==
  \A c \in CFTunnels, h \in Hosts :
    Serving(c) /\ (configs[CF(c).tid][h] # NoRule \/ zone[h] = CF(c).tid) =>
      \E i \in Ingresses : Ing(i).fin /\ h \in Ing(i).spec.hosts

\* A step of the controller changes the rules and records of the hosts of the
\* Ingress in hand and nobody else's, although the configuration is read and
\* written back as a whole with other steps in between (lines 176-284).
TouchesOnlyItsHosts ==
  [][\A h \in Hosts \ copy.spec.hosts :
       /\ zone'[h] # zone[h] => \E c \in CFTunnels : h \in purge[c].left
       /\ \A t \in tunnels' : configs'[t][h] = configs[t][h]]_vars

\* An Ingress that names a live tunnel ends up published through it, with a rule
\* and a record for every host at once, unless its user or the tunnel's user
\* changes that, or the purge of another tunnel takes a record along
\* (Reconcile, lines 82-142, every error retried).
LiveIsRouted ==
  \A i \in Ingresses, c \in CFTunnels :
    PublishedThrough(i, c) ~> (PublishedThrough(i, c) => RedirectedTo(i, c))

\* A deleted Ingress goes away, unless it is edited or its tunnels change: through the
\* tunnel it names if that one is live, recorded and exists; through the default tunnel
\* also if there is none or it is being deleted.  In the other cases finalizeIngress fails
\* for ever: a malformed annotation or a named tunnel that is gone (lines 387 and 397), a
\* live tunnel whose id was never recorded (line 407), one that was deleted at the
\* dashboard (lines 243-245) (lines 61-73 and 384-421).
Cleanable(i) ==
  /\ Ing(i).phase = "deleting"
  /\ \/ /\ Ing(i).spec.tunnel = "default"
        /\ \A c \in DefaultTunnels : CF(c).phase = "live" => Serving(c)
     \/ \E c \in CFTunnels : Ing(i).spec.tunnel = c /\ Serving(c)

CleanupCompletes == \A i \in Ingresses : Cleanable(i) ~> ~Cleanable(i)

\* The comment of line 400: nothing is to be done for an Ingress whose CloudflareTunnel is
\* deleted, since that deletes its tunnel and its records.  So the Ingress goes away.
DeletedIngressGoes ==
  \A i \in Ingresses, c \in CFTunnels :
    (Ing(i).phase = "deleting" /\ Ing(i).spec.tunnel = c /\ Gone(c))
      ~> (Ing(i).phase # "deleting")

\* The comment of line 400: deleting a CloudflareTunnel deletes its records, so
\* the finalizer of an Ingress has nothing to do.
RecordsGoWithTunnel ==
  Settled /\ (\A c \in CFTunnels : CF(c).phase = "absent") =>
    \A h \in Hosts : zone[h] \notin TunnelIDs
-----------------------------------------------------------------------------
(* The inductive invariant: what makes the safety properties hold.  First what users *)
(* may do: some of the properties, and parts of the invariant, hold under these.     *)

\* the hosts and the tunnels that Ingress i ever has
Hosted(i) == UNION {s.hosts : s \in Specs[i]}
Home(i) == UNION {Uses(s) : s \in Specs[i]}

\* There is one default tunnel.
OneTunnel == \A i \in Ingresses : \A s \in Specs[i] : \A c, d \in Uses(s) : c = d

\* Users leave the hosts of an Ingress as they are and move it to no other tunnel.
StaysPut ==
  \A i \in Ingresses : \A r, s \in Specs[i] :
    /\ r.hosts = s.hosts
    /\ \A c \in Uses(r), d \in Uses(s) : c = d
    /\ "malformed" \notin {r.tunnel, s.tunnel} => Uses(r) = Uses(s)

\* No host is in two Ingresses.
SharesNoHost == \A i, j \in Ingresses : i # j => Hosted(i) \cap Hosted(j) = {}

\* Each CloudflareTunnel is created once.
CreatesOnce == MaxCF <= 1

\* An Ingress is to be ignored or not once and for all.
KeepsIgnoring == \A i \in Ingresses : \A r, s \in Specs[i] : r.ignored = s.ignored

\* Users leave an Ingress that is being deleted as it is.
EditsOnlyLive == "lateEdit" \notin Faults

\* No rule is written before the load balancer has an address.
HasAddress ==
  pc \in {"getConfig", "putConfig"} => Finalizing \/ copy.ip # NoIP

\* A finalizer that was seen on a live object stays until the cache has caught up
\* with its deletion, and an object that is being deleted says the same as before,
\* unless its user still edits it.
IngressVersions ==
  \A i \in Ingresses : \A k \in 1..Len(ings[i]) :
    LET v == ings[i][k] IN
    /\ v.phase = "absent" => ~v.fin
    /\ v.phase # "absent" => v.spec \in Specs[i]
    /\ v.phase = "live" /\ v.fin => Ing(i).fin
    /\ v.phase = "deleting" => v.fin
    /\ v.phase = "deleting" /\ Ing(i).fin => Ing(i).phase = "deleting"
    /\ EditsOnlyLive /\ v.phase = "deleting" /\ Ing(i).fin => Ing(i).spec = v.spec

\* The copy in hand is of an object that keeps its finalizer meanwhile.
CopyIsGuarded ==
  pc # "idle" =>
    /\ copy.phase # "absent" /\ copy.spec \in Specs[name]
    /\ copy.phase = "live" => pc = "finalizer" \/ Ing(name).fin
    /\ copy.phase = "deleting" /\ Ing(name).fin => Ing(name).phase = "deleting"
    /\ EditsOnlyLive /\ copy.phase = "deleting" /\ Ing(name).fin => Ing(name).spec = copy.spec
    /\ pc = "finalizer" => copy.phase = "live"
    /\ fresh => copy.spec = Ing(name).spec
    /\ fresh => \A k \in 1..Len(ings[name]) : ings[name][k].phase = copy.phase

\* The copy in hand is the cached version, unless the Ingress is queued again.
CopyIsCached ==
  pc # "idle" /\ name \notin queue =>
    copy \in {ings[name][1], [ings[name][1] EXCEPT !.fin = TRUE]}

\* Reconcile works on the hosts of its copy, DNS comes last.
WorksOnItsHosts ==
  /\ todo \subseteq copy.spec.hosts
  /\ pc = "putDNS" => host \in todo
  /\ pc \notin {"getDNS", "putDNS"} => todo = {}
  /\ pc \in {"idle", "finalizer", "resolve"} => target = NoID
  /\ pc = "unfinalize" => Finalizing

\* The configuration that was read is the one that is replaced.
SnapIsCurrent ==
  /\ target \in issued \cup {NoID}
  /\ pc = "putConfig" /\ target \in tunnels => snap = configs[target]

\* The target is the tunnel of an object that the copy in hand uses.
TargetIsUsed ==
  target # NoID =>
    \A c \in CFTunnels : \A k \in 1..Len(cfs[c]) : cfs[c][k].tid = target => c \in Uses(copy.spec)

\* When records are looked up, the rules are written, unless the tunnel has gone.
RulesInHand ==
  pc \in {"getDNS", "putDNS"} /\ target \in tunnels =>
    \A h \in copy.spec.hosts : configs[target][h] = IF Removing THEN NoRule ELSE Endpoint(h)

\* A tunnel id belongs to one object and to one stretch of its versions, which ends
\* when the object is deleted.
TunnelVersions ==
  \A c \in CFTunnels : \A k \in 1..Len(cfs[c]) :
    LET t == cfs[c][k].tid IN
    /\ t \in issued \cup {NoID}
    /\ cfs[c][k].phase = "absent" => t = NoID
    /\ t # NoID => \A d \in CFTunnels \ {c} : \A l \in 1..Len(cfs[d]) : cfs[d][l].tid # t
    /\ t # NoID => \A j \in 1..(k - 1) :
         /\ cfs[c][j].phase = "deleting" /\ cfs[c][k].phase = "live" => cfs[c][j].tid # t
         /\ cfs[c][j].tid # t => \A l \in 1..j : cfs[c][l].tid # t

\* Nothing leads to tunnel t, and Reconcile is not about to change that.
Untouched(t) ==
  /\ configs[t] = NoConfig /\ target # t
  /\ \A h \in Hosts : zone[h] # t

\* The tunnels that the cache has not reached
Unreached ==
  {t \in TunnelIDs :
     \/ t \notin issued
     \/ \E c \in CFTunnels : \E k \in 1..Len(cfs[c]) : \E j \in 1..(k - 1) :
          cfs[c][k].tid = t /\ cfs[c][j].tid # t}

UnreachedAreUntouched == \A t \in Unreached : Untouched(t)

\* Some Ingress has, in one of its specifications, host h and tunnel object c.
Linked(h, c) == \E i \in Ingresses : h \in Hosted(i) /\ c \in Home(i)

\* A record leads to a tunnel that an Ingress of its host may use ...
RecordsAreHome ==
  \A h \in Hosts, c \in CFTunnels : \A k \in 1..Len(cfs[c]) :
    zone[h] = cfs[c][k].tid /\ zone[h] # NoID => Linked(h, c)

\* ... and is there for one that is not to be ignored.
RecordsAreWanted ==
  \A h \in Hosts : zone[h] \in TunnelIDs =>
    \E i \in Ingresses : \E s \in Specs[i] : h \in s.hosts /\ ~s.ignored

\* Only a tunnel that is being deleted is purged, of the records that led to it.
PurgesItsOwn ==
  \A c \in CFTunnels :
    /\ purge[c].listed \/ purge[c].left # {} => CF(c).phase = "deleting"
    /\ \A h \in purge[c].left : Linked(h, c)

\* With one default tunnel: what a copy may be published through, but is not, is
\* not touched yet.
OthersUntouched ==
  pc \in {"getConfig", "putConfig", "getDNS", "putDNS"} =>
    \A c \in Uses(copy.spec) : Serving(c) /\ CF(c).tid # target => Untouched(CF(c).tid)

\* A deleted Ingress keeps its finalizer until its entries are gone.
CleansBeforeLeaving ==
  pc \in {"getDNS", "putDNS", "unfinalize"} /\ Finalizing =>
    \A c \in Uses(copy.spec), h \in copy.spec.hosts : Serving(c) =>
      configs[CF(c).tid][h] = NoRule /\ (h \in todo \/ zone[h] # CF(c).tid)

\* When Ingresses stay put: each entry has an Ingress of this tunnel that answers for it.
EntriesAreOwned ==
  \A c \in CFTunnels, h \in Hosts :
    Serving(c) /\ (configs[CF(c).tid][h] # NoRule \/ zone[h] = CF(c).tid) =>
      \E i \in Ingresses : Ing(i).fin /\ h \in Ing(i).spec.hosts /\ c \in Home(i)

\* When each CloudflareTunnel is created once: the versions of one that is live name
\* no other tunnel than its last.
MadeOnce ==
  \A c \in CFTunnels :
    /\ made[c] \in 0..MaxCF
    /\ \A k \in 1..Len(cfs[c]) :
         /\ made[c] = 0 => cfs[c][k].phase = "absent"
         /\ CF(c).phase = "live" => cfs[c][k].tid \in {NoID, CF(c).tid}

\* Reconcile works on the tunnel that its copy names, until that one is deleted.
TargetIsServed ==
  pc \in {"getConfig", "putConfig", "getDNS", "putDNS"} =>
    /\ target # NoID
    /\ \A c \in CFTunnels : copy.spec.tunnel = c => CF(c).tid = target \/ Gone(c)

\* The record of h is lost: another tunnel, deleted meanwhile, has taken it along.
Lost(h, c) == zone[h] = NoID /\ \E d \in CFTunnels \ {c} : Gone(d) /\ Linked(h, d)

\* The records that have been looked up are right, or lost again.
EntriesInHand ==
  pc \in {"getDNS", "putDNS"} =>
    \A c \in CFTunnels : copy.spec.tunnel = c /\ Serving(c) =>
      \A h \in copy.spec.hosts :
        /\ configs[target][h] = IF Removing THEN NoRule ELSE Endpoint(h)
        /\ h \in todo \/ zone[h] = (IF Removing THEN NoID ELSE target) \/ Lost(h, c)

\* Ingress i names tunnel object c and is neither waiting nor being worked on ...
Quiescent(i, c) ==
  /\ Ing(i).phase = "live" /\ Ing(i).spec.tunnel = c
  /\ i \notin queue /\ Len(ings[i]) = 1 /\ ~(pc # "idle" /\ name = i)

\* ... so it is done with, unless the tunnel has been lost or deleted.
Astray(c) == CF(c).tid \in issued \ tunnels

Done(i, c) ==
  /\ Serving(c)
  /\ \A h \in Ing(i).spec.hosts :
       /\ configs[CF(c).tid][h] = IF Wants(i) THEN <<Ing(i).ip, h \in Ing(i).spec.tls>> ELSE NoRule
       /\ zone[h] = (IF Wants(i) THEN CF(c).tid ELSE NoID) \/ Lost(h, c)

NothingIsForgotten ==
  \A i \in Ingresses, c \in CFTunnels : Quiescent(i, c) => Gone(c) \/ Astray(c) \/ Done(i, c)

\* Nothing of what version v of an Ingress had is in the zone.
HasLeft(v) ==
  \A c \in Uses(v.spec), h \in v.spec.hosts : Serving(c) => zone[h] # CF(c).tid

\* With one default tunnel, no shared host and no late edit: what an old copy of a deleted Ingress
\* may still withdraw is withdrawn.
LeavesNothing ==
  /\ \A i \in Ingresses : ~Ing(i).fin =>
       \A k \in 1..Len(ings[i]) : ings[i][k].phase = "deleting" => HasLeft(ings[i][k])
  /\ pc # "idle" /\ Finalizing /\ ~Ing(name).fin => HasLeft(copy)

\* A record without a rule is one of an Ingress that is being deleted.
WithdrawsInOrder ==
  \A c \in CFTunnels, h \in Hosts :
    Serving(c) /\ zone[h] = CF(c).tid /\ configs[CF(c).tid][h] = NoRule =>
      \E i \in Ingresses : /\ Ing(i).fin /\ Ing(i).phase = "deleting"
                           /\ h \in Ing(i).spec.hosts /\ c \in Uses(Ing(i).spec)

\* Reconcile's locals, the versions on their way to the caches, the tunnels, rules and
\* records fit together in every state (Reconcile and its helpers, lines 49-421).
Invariant ==
  /\ HasAddress /\ IngressVersions /\ CopyIsGuarded /\ CopyIsCached /\ WorksOnItsHosts
  /\ SnapIsCurrent /\ TargetIsUsed /\ RulesInHand /\ TunnelVersions
  /\ UnreachedAreUntouched /\ RecordsAreHome /\ RecordsAreWanted /\ PurgesItsOwn
  /\ OneTunnel => OthersUntouched /\ CleansBeforeLeaving
  /\ StaysPut => EntriesAreOwned
  /\ SharesNoHost /\ CreatesOnce =>
       MadeOnce /\ TargetIsServed /\ EntriesInHand /\ NothingIsForgotten
  /\ OneTunnel /\ SharesNoHost /\ EditsOnlyLive => LeavesNothing
  /\ OneTunnel /\ SharesNoHost /\ EditsOnlyLive /\ KeepsIgnoring => WithdrawsInOrder
=============================================================================
