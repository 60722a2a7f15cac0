----------------------- MODULE IngressControllerProofs -----------------------
(* Theorems about IngressController, for every value of its constants. *)
EXTENDS IngressController, VersionLogs

-----------------------------------------------------------------------------
(* Type correctness *)

LEMMA RecordTypes ==
  /\ Spec0 \in SpecType /\ NoIngress \in Ings /\ NoCF \in CFs /\ NoConfig \in [Hosts -> Endpoints \cup {NoRule}]
  /\ \A v \in Ings : [v EXCEPT !.fin = TRUE] \in Ings /\ [v EXCEPT !.phase = "deleting"] \in Ings
  /\ \A v \in Ings, a \in IPs : [v EXCEPT !.ip = a] \in Ings
  /\ \A v \in Ings, s \in SpecType :
       [v EXCEPT !.spec = s] \in Ings /\ [v EXCEPT !.phase = "live", !.spec = s] \in Ings
  /\ \A v \in CFs : [v EXCEPT !.phase = "live"] \in CFs /\ [v EXCEPT !.phase = "deleting"] \in CFs
  /\ \A v \in CFs, t \in TunnelIDs : [v EXCEPT !.tid = t] \in CFs
<1>1. Spec0 \in SpecType /\ NoIngress \in Ings
  BY DEF Spec0, SpecType, NoIngress, Ings
<1> QED
  BY <1>1 DEF NoCF, CFs, IDs, NoConfig, Ings

LEMMA Chosen0 == AnIngress \in Ingresses /\ AHost \in Hosts
BY ConstantsAssumption DEF AnIngress, AHost

IngsOK == ings \in [Ingresses -> Seq(Ings)] /\ \A i \in Ingresses : Len(ings[i]) > 0
CFsOK == cfs \in [CFTunnels -> Seq(CFs)] /\ \A c \in CFTunnels : Len(cfs[c]) > 0
CloudOK ==
  /\ tunnels \subseteq issued /\ issued \subseteq TunnelIDs
  /\ configs \in [TunnelIDs -> [Hosts -> Endpoints \cup {NoRule}]]
  /\ zone \in [Hosts -> Records]
  /\ purge \in [CFTunnels -> [listed : BOOLEAN, left : SUBSET Hosts]]
LocalsOK ==
  /\ queue \subseteq Ingresses /\ pc \in PCs /\ name \in Ingresses /\ copy \in Ings
  /\ fresh \in BOOLEAN /\ target \in IDs /\ snap \in [Hosts -> Endpoints \cup {NoRule}]
  /\ todo \subseteq Hosts /\ host \in Hosts /\ record \in Records

CountersOK == made \in [Ingresses \cup CFTunnels -> Nat] /\ faults \in 0..MaxFaults

LEMMA TypeParts == TypeOK <=> IngsOK /\ CFsOK /\ CloudOK /\ LocalsOK /\ CountersOK
BY DEF TypeOK, IngsOK, CFsOK, CloudOK, LocalsOK, CountersOK

LEMMA TypePartsNext == IngsOK' /\ CFsOK' /\ CloudOK' /\ LocalsOK' /\ CountersOK' => TypeOK'
BY DEF TypeOK, IngsOK, CFsOK, CloudOK, LocalsOK, CountersOK

LEMMA TypeInit == Init => TypeOK
<1> SUFFICES ASSUME Init PROVE TypeOK
  OBVIOUS
<1>1. IngsOK /\ CFsOK
  BY SingletonLog, RecordTypes DEF Init, IngsOK, CFsOK
<1>2. CloudOK
  BY RecordTypes DEF Init, CloudOK, Unlisted, Records, IDs
<1>3. LocalsOK
  BY RecordTypes, Chosen0 DEF Init, LocalsOK, PCs, Records, IDs
<1>4. CountersOK
  BY ConstantsAssumption DEF Init, CountersOK
<1> QED
  BY <1>1, <1>2, <1>3, <1>4, TypeParts

\* Steps of the worker: what Reconcile leaves in its locals.
LEMMA IdleType == ASSUME TypeOK, Idle, queue' \subseteq Ingresses PROVE LocalsOK'
BY RecordTypes, Chosen0 DEF Idle, LocalsOK, PCs, Records, IDs

LEMMA ReturnType == ASSUME TypeOK, NEW b \in BOOLEAN, Return(b) PROVE LocalsOK'
BY IdleType DEF TypeOK, Return

LEMMA NextHostType ==
  ASSUME TypeOK, NEW left \in SUBSET Hosts, NextHost(left) PROVE LocalsOK'
<1>1. CASE Return(FALSE)
  BY <1>1, ReturnType
<1>2. CASE ~Return(FALSE)
  BY <1>2 DEF NextHost, Finish, TypeOK, LocalsOK, PCs
<1> QED
  BY <1>1, <1>2

LEMMA FaultType ==
  ASSUME TypeOK, NEW f, Fault(f) \/ UNCHANGED faults, UNCHANGED made PROVE CountersOK'
BY ConstantsAssumption DEF TypeOK, Fault, CountersOK

LEMMA NewVersionType ==
  ASSUME TypeOK, NEW i \in Ingresses, NEW v \in Ings, ings' = [ings EXCEPT ![i] = Append(@, v)]
  PROVE  IngsOK'
<1>1. ings[i] \in Seq(Ings) /\ Len(ings[i]) \in Nat
  BY DEF TypeOK
<1>2. Append(ings[i], v) \in Seq(Ings) /\ Len(Append(ings[i], v)) > 0
  BY <1>1, AppendLog
<1> QED
  BY <1>2 DEF TypeOK, IngsOK

LEMMA SameIngsType == ASSUME TypeOK, UNCHANGED ings PROVE IngsOK'
BY DEF TypeOK, IngsOK

LEMMA SameCFsType == ASSUME TypeOK, UNCHANGED cfs PROVE CFsOK'
BY DEF TypeOK, CFsOK

LEMMA SameCloudType == ASSUME TypeOK, UNCHANGED <<cloud, purge>> PROVE CloudOK'
BY DEF TypeOK, CloudOK, cloud

LEMMA CachedTypes ==
  ASSUME TypeOK
  PROVE  /\ \A i \in Ingresses : CachedIng(i) \in Ings /\ Ing(i) \in Ings
         /\ \A c \in CFTunnels : /\ CachedCF(c) \in CFs /\ CachedCF(c).tid \in IDs
                                 /\ CF(c) \in CFs /\ CF(c).tid \in IDs
<1>1. ASSUME NEW i \in Ingresses PROVE CachedIng(i) \in Ings /\ Ing(i) \in Ings
  BY LogElems DEF TypeOK, CachedIng, Ing
<1>2. ASSUME NEW c \in CFTunnels PROVE CachedCF(c) \in CFs /\ CF(c) \in CFs
  BY LogElems DEF TypeOK, CachedCF, CF
<1> QED
  BY <1>1, <1>2 DEF CFs

LEMMA NewConfigType ==
  ASSUME TypeOK, HasAddress, pc = "putConfig"
  PROVE  NewConfig \in [Hosts -> Endpoints \cup {NoRule}]
<1>1. ~Removing => copy.ip \in IPs
  BY DEF HasAddress, Removing, TypeOK, Ings
<1>2. \A h \in Hosts : ~Removing => Endpoint(h) \in Endpoints
  <2>1. ASSUME NEW h \in Hosts, ~Removing PROVE <<copy.ip, h \in copy.spec.tls>> \in IPs \X BOOLEAN
    <3>1. \A a \in IPs, b \in BOOLEAN : <<a, b>> \in IPs \X BOOLEAN
      OBVIOUS
    <3>2. (h \in copy.spec.tls) \in BOOLEAN
      OBVIOUS
    <3> QED
      BY <1>1, <2>1, <3>1, <3>2, Zenon
  <2> QED
    BY <2>1 DEF Endpoint, Endpoints
<1>3. \A h \in Hosts : snap[h] \in Endpoints \cup {NoRule}
  <2>1. snap \in [Hosts -> Endpoints \cup {NoRule}]
    BY DEF TypeOK
  <2> QED
    BY <2>1
<1> QED
  BY <1>2, <1>3 DEF NewConfig

LEMMA TypeWorker == ASSUME TypeOK, HasAddress, Worker PROVE TypeOK'
<1>a. IngsOK /\ CFsOK /\ CloudOK /\ LocalsOK /\ CountersOK
  BY TypeParts
<1>b. copy.spec.hosts \in SUBSET Hosts
  BY DEF TypeOK, Ings, SpecType
<1>1. ASSUME NEW i \in Ingresses, Get(i) PROVE TypeOK'
  <2>1. CASE UNCHANGED worker
    <3>1. LocalsOK'
      BY <1>1, <1>a, <2>1 DEF Get, LocalsOK, worker
    <3> QED
      BY <1>1, <3>1, SameIngsType, SameCFsType, SameCloudType, FaultType, TypePartsNext DEF Get
  <2>2. CASE ~UNCHANGED worker
    <3>1. /\ queue' = queue \ {i} /\ pc' \in {"resolve", "finalizer"} /\ name' = i
          /\ copy' = CachedIng(i) /\ fresh' \in BOOLEAN
          /\ UNCHANGED <<target, snap, todo, host, record>>
      BY <1>1, <2>2 DEF Get
    <3>2. LocalsOK'
      BY <3>1, <1>a, CachedTypes DEF LocalsOK, PCs
    <3> QED
      BY <1>1, <3>2, SameIngsType, SameCFsType, SameCloudType, FaultType, TypePartsNext DEF Get
  <2> QED
    BY <2>1, <2>2
<1>2. CASE AddFinalizer
  <2> DEFINE ing == [copy EXCEPT !.fin = TRUE]
  <2>1. ing \in Ings
    BY RecordTypes DEF TypeOK
  <2>2. UNCHANGED ings \/ ings' = [ings EXCEPT ![name] = Append(@, ing)]
    BY <1>2 DEF AddFinalizer, Put, Call
  <2>3. IngsOK'
    BY <1>a, <2>1, <2>2, SameIngsType, NewVersionType DEF LocalsOK
  <2>4. \/ Return(TRUE)
        \/ /\ pc' = "resolve" /\ copy' = ing
           /\ UNCHANGED <<queue, name, fresh, target, snap, todo, host, record>>
    BY <1>2 DEF AddFinalizer, Put, Call
  <2>5. LocalsOK'
    BY <1>a, <2>1, <2>4, ReturnType DEF LocalsOK, PCs
  <2>6. CountersOK'
    BY <1>2, FaultType DEF AddFinalizer, Put, Call
  <2> QED
    BY <1>2, <2>3, <2>5, <2>6, SameCFsType, SameCloudType, TypePartsNext DEF AddFinalizer, Put
<1>3. CASE Resolve
  <2>1. \/ \E c \in CFTunnels :
              pc' = "getConfig" /\ target' = CachedCF(c).tid
                /\ UNCHANGED <<queue, name, copy, fresh, snap, todo, host, record>>
        \/ pc' = "unfinalize"
             /\ UNCHANGED <<queue, name, copy, fresh, target, snap, todo, host, record>>
        \/ \E b \in BOOLEAN : Return(b)
    BY <1>3 DEF Resolve, UseTunnel, Candidates, Uses
  <2>5. LocalsOK'
    BY <1>a, <2>1, CachedTypes, ReturnType DEF LocalsOK, PCs
  <2> QED
    BY <1>3, <2>5, SameIngsType, SameCFsType, SameCloudType, FaultType, TypePartsNext DEF Resolve
<1>4. CASE GetTunnelConfiguration
  <2>1. \/ Return(TRUE)
        \/ /\ target \in TunnelIDs /\ pc' = "putConfig" /\ snap' = configs[target]
           /\ UNCHANGED <<queue, name, copy, fresh, target, todo, host, record>>
    BY <1>4 DEF GetTunnelConfiguration, Call, TypeOK
  <2>2. LocalsOK'
    BY <1>a, <2>1, ReturnType DEF LocalsOK, CloudOK, PCs
  <2>3. CountersOK'
    BY <1>4, FaultType DEF GetTunnelConfiguration, Call
  <2> QED
    BY <1>4, <2>2, <2>3, SameIngsType, SameCFsType, SameCloudType, TypePartsNext
       DEF GetTunnelConfiguration
<1>5. CASE UpdateTunnelConfiguration
  <2>1. Return(TRUE) \/ NextHost(copy.spec.hosts)
    BY <1>5 DEF UpdateTunnelConfiguration, Call
  <2>2. LocalsOK'
    BY <1>b, <2>1, ReturnType, NextHostType
  <2>3. UNCHANGED configs \/ configs' = [configs EXCEPT ![target] = NewConfig]
    BY <1>5 DEF UpdateTunnelConfiguration, Call
  <2>4. CloudOK'
    BY <1>5, <1>a, <2>3, NewConfigType DEF UpdateTunnelConfiguration, CloudOK
  <2>5. CountersOK'
    BY <1>5, FaultType DEF UpdateTunnelConfiguration, Call
  <2> QED
    BY <1>5, <2>2, <2>4, <2>5, SameIngsType, SameCFsType, TypePartsNext DEF UpdateTunnelConfiguration
<1>6. CASE GetDNS
  <2>1. PICK h \in todo :
          \/ Return(TRUE)
          \/ NextHost(todo \ {h})
          \/ /\ pc' = "putDNS" /\ host' = h /\ record' = zone[h]
             /\ UNCHANGED <<queue, name, copy, fresh, target, snap, todo>>
    BY <1>6 DEF GetDNS, Call
  <2>2. h \in Hosts /\ zone[h] \in Records /\ todo \ {h} \in SUBSET Hosts
    BY <1>a DEF LocalsOK, CloudOK
  <2>3. LocalsOK'
    BY <1>a, <2>1, <2>2, ReturnType, NextHostType DEF LocalsOK, PCs
  <2>4. CountersOK'
    BY <1>6, FaultType DEF GetDNS, Call
  <2> QED
    BY <1>6, <2>3, <2>4, SameIngsType, SameCFsType, SameCloudType, TypePartsNext DEF GetDNS
<1>7. CASE PutDNS
  <2>1. Return(TRUE) \/ NextHost(todo \ {host})
    BY <1>7 DEF PutDNS, Call
  <2>2. LocalsOK'
    BY <1>a, <2>1, ReturnType, NextHostType DEF LocalsOK
  <2>3. UNCHANGED zone \/ zone' = [zone EXCEPT ![host] = IF Removing THEN NoID ELSE target]
    BY <1>7 DEF PutDNS, Call
  <2>4. CloudOK'
    BY <1>7, <1>a, <2>3 DEF PutDNS, CloudOK, LocalsOK, Records, IDs
  <2>5. CountersOK'
    BY <1>7, FaultType DEF PutDNS, Call
  <2> QED
    BY <1>7, <2>2, <2>4, <2>5, SameIngsType, SameCFsType, TypePartsNext DEF PutDNS
<1>8. CASE RemoveFinalizer
  <2>1. UNCHANGED ings \/ ings' = [ings EXCEPT ![name] = Append(@, NoIngress)]
    BY <1>8 DEF RemoveFinalizer, Put, Call
  <2>2. IngsOK'
    BY <1>a, <2>1, RecordTypes, SameIngsType, NewVersionType DEF LocalsOK
  <2>3. \E b \in BOOLEAN : Return(b)
    BY <1>8 DEF RemoveFinalizer, Put, Call
  <2>4. LocalsOK'
    BY <2>3, ReturnType
  <2>5. CountersOK'
    BY <1>8, FaultType DEF RemoveFinalizer, Put, Call
  <2> QED
    BY <1>8, <2>2, <2>4, <2>5, SameCFsType, SameCloudType, TypePartsNext DEF RemoveFinalizer, Put
<1> QED
  BY <1>1, <1>2, <1>3, <1>4, <1>5, <1>6, <1>7, <1>8 DEF Worker

LEMMA StoreType ==
  ASSUME TypeOK, NEW i \in Ingresses, NEW v \in Ings, Store(i, v) PROVE IngsOK' /\ CFsOK' /\ CloudOK' /\ LocalsOK'
<1>1. LocalsOK'
  BY DEF Store, TypeOK, LocalsOK
<1> QED
  BY <1>1, NewVersionType, SameCFsType, SameCloudType DEF Store

LEMMA StoreCFType ==
  ASSUME TypeOK, NEW c \in CFTunnels, NEW v \in CFs, cfs' = [cfs EXCEPT ![c] = Append(@, v)]
  PROVE  CFsOK'
<1>1. cfs[c] \in Seq(CFs) /\ Len(cfs[c]) \in Nat
  BY DEF TypeOK
<1>2. Append(cfs[c], v) \in Seq(CFs) /\ Len(Append(cfs[c], v)) > 0
  BY <1>1, AppendLog
<1> QED
  BY <1>2 DEF TypeOK, CFsOK

LEMMA SameLocalsType == ASSUME TypeOK, UNCHANGED <<queue, worker>> PROVE LocalsOK'
BY DEF TypeOK, LocalsOK, worker

LEMMA TypeUsers == ASSUME TypeOK, Users PROVE TypeOK'
<1>a. IngsOK /\ CFsOK /\ CloudOK /\ LocalsOK /\ CountersOK
  BY TypeParts
<1>b. made \in [Ingresses \cup CFTunnels -> Nat] /\ \A n \in Ingresses \cup CFTunnels : made[n] + 1 \in Nat
  BY DEF TypeOK
<1>1. ASSUME NEW i \in Ingresses, CreateIngress(i) PROVE TypeOK'
  <2>1. PICK s \in Specs[i] : Store(i, [NoIngress EXCEPT !.phase = "live", !.spec = s])
    BY <1>1 DEF CreateIngress
  <2>2. [NoIngress EXCEPT !.phase = "live", !.spec = s] \in Ings
    BY ConstantsAssumption, RecordTypes
  <2>3. CountersOK'
    BY <1>1, <1>a, <1>b DEF CreateIngress, CountersOK
  <2> QED
    BY <2>1, <2>2, <2>3, StoreType, TypePartsNext
<1>2. ASSUME NEW i \in Ingresses, EditIngress(i) PROVE TypeOK'
  <2>1. PICK s \in Specs[i] : Store(i, [Ing(i) EXCEPT !.spec = s])
    BY <1>2 DEF EditIngress
  <2>2. [Ing(i) EXCEPT !.spec = s] \in Ings
    BY ConstantsAssumption, RecordTypes, CachedTypes
  <2>3. CountersOK'
    BY <1>2, FaultType DEF EditIngress
  <2> QED
    BY <2>1, <2>2, <2>3, StoreType, TypePartsNext
<1>3. ASSUME NEW i \in Ingresses, AssignIP(i) PROVE TypeOK'
  <2>1. PICK a \in IPs : Store(i, [Ing(i) EXCEPT !.ip = a])
    BY <1>3 DEF AssignIP
  <2>2. [Ing(i) EXCEPT !.ip = a] \in Ings
    BY RecordTypes, CachedTypes
  <2>3. CountersOK'
    BY <1>3, <1>a DEF AssignIP, CountersOK
  <2> QED
    BY <2>1, <2>2, <2>3, StoreType, TypePartsNext
<1>4. ASSUME NEW i \in Ingresses, DeleteIngress(i) PROVE TypeOK'
  <2>1. (IF Ing(i).fin THEN [Ing(i) EXCEPT !.phase = "deleting"] ELSE NoIngress) \in Ings
    BY RecordTypes, CachedTypes
  <2>2. CountersOK'
    BY <1>4, <1>a DEF DeleteIngress, CountersOK
  <2> QED
    BY <1>4, <2>1, <2>2, StoreType, TypePartsNext DEF DeleteIngress
<1>5. ASSUME NEW i \in Ingresses, ObserveIngress(i) PROVE TypeOK'
  <2>1. Tail(ings[i]) \in Seq(Ings) /\ Len(Tail(ings[i])) > 0
    BY <1>5, <1>a, TailLog DEF ObserveIngress, IngsOK
  <2>2. IngsOK'
    BY <1>5, <1>a, <2>1 DEF ObserveIngress, IngsOK
  <2>3. LocalsOK'
    BY <1>5, <1>a DEF ObserveIngress, LocalsOK, worker
  <2> QED
    BY <1>5, <2>2, <2>3, SameCFsType, SameCloudType, FaultType, TypePartsNext DEF ObserveIngress
<1>6. ASSUME NEW c \in CFTunnels, CreateCF(c) PROVE TypeOK'
  <2>1. CFsOK'
    BY <1>6, StoreCFType, RecordTypes DEF CreateCF, StoreCF
  <2>2. CountersOK'
    BY <1>6, <1>a, <1>b DEF CreateCF, StoreCF, CountersOK
  <2> QED
    BY <1>6, <2>1, <2>2, SameIngsType, SameCloudType, SameLocalsType, TypePartsNext DEF CreateCF, StoreCF
<1>7. ASSUME NEW c \in CFTunnels, DeleteCF(c) PROVE TypeOK'
  <2>1. CFsOK'
    BY <1>7, StoreCFType, RecordTypes, CachedTypes DEF DeleteCF
  <2> QED
    BY <1>7, <2>1, FaultType, SameIngsType, SameCloudType, SameLocalsType, TypePartsNext DEF DeleteCF
<1>8. ASSUME NEW c \in CFTunnels, ObserveCF(c) PROVE TypeOK'
  <2>1. Tail(cfs[c]) \in Seq(CFs) /\ Len(Tail(cfs[c])) > 0
    BY <1>8, <1>a, TailLog DEF ObserveCF, CFsOK
  <2>2. CFsOK'
    BY <1>8, <1>a, <2>1 DEF ObserveCF, CFsOK
  <2> QED
    BY <1>8, <2>2, FaultType, SameIngsType, SameCloudType, SameLocalsType, TypePartsNext DEF ObserveCF
<1>9. CASE Restart
  <2>1. LocalsOK'
    BY <1>9, IdleType DEF Restart
  <2> QED
    BY <1>9, <2>1, FaultType, SameIngsType, SameCFsType, SameCloudType, TypePartsNext DEF Restart
<1> QED
  BY <1>1, <1>2, <1>3, <1>4, <1>5, <1>6, <1>7, <1>8, <1>9 DEF Users

LEMMA TypeTunnelSteps == ASSUME TypeOK, TunnelSteps PROVE TypeOK'
<1>a. IngsOK /\ CFsOK /\ CloudOK /\ LocalsOK /\ CountersOK
  BY TypeParts
<1>1. ASSUME NEW c \in CFTunnels, RecordTunnel(c) PROVE TypeOK'
  <2>1. PICK t \in TunnelIDs \ issued :
          /\ issued' = issued \cup {t} /\ tunnels' = tunnels \cup {t}
          /\ StoreCF(c, [CF(c) EXCEPT !.tid = t])
    BY <1>1 DEF RecordTunnel
  <2>2. CFsOK'
    BY <2>1, StoreCFType, RecordTypes, CachedTypes DEF StoreCF
  <2>3. CloudOK'
    BY <1>1, <1>a, <2>1 DEF RecordTunnel, CloudOK
  <2> QED
    BY <1>1, <2>1, <2>2, <2>3, FaultType, SameIngsType, SameLocalsType, TypePartsNext
       DEF RecordTunnel, StoreCF
<1>2. ASSUME NEW c \in CFTunnels, ListRecords(c) PROVE TypeOK'
  <2>1. CloudOK'
    BY <1>2, <1>a DEF ListRecords, CloudOK, cloud
  <2> QED
    BY <1>2, <2>1, FaultType, SameIngsType, SameCFsType, SameLocalsType, TypePartsNext DEF ListRecords
<1>3. ASSUME NEW c \in CFTunnels, DeleteRecord(c) PROVE TypeOK'
  <2>1. PICK h \in purge[c].left :
          /\ zone' = [zone EXCEPT ![h] = NoID]
          /\ purge' = [purge EXCEPT ![c] = IF zone[h] = NoID THEN Unlisted
                                           ELSE [listed |-> TRUE, left |-> @.left \ {h}]]
    BY <1>3 DEF DeleteRecord
  <2>2. zone' \in [Hosts -> Records]
    BY <1>a, <2>1 DEF CloudOK, Records, IDs
  <2>3. purge' \in [CFTunnels -> [listed : BOOLEAN, left : SUBSET Hosts]]
    BY <1>a, <2>1 DEF CloudOK, Unlisted
  <2>4. CloudOK'
    BY <1>3, <1>a, <2>2, <2>3 DEF DeleteRecord, CloudOK
  <2> QED
    BY <1>3, <2>4, FaultType, SameIngsType, SameCFsType, SameLocalsType, TypePartsNext DEF DeleteRecord
<1>4. ASSUME NEW c \in CFTunnels, DeleteTunnel(c) PROVE TypeOK'
  <2>1. CFsOK'
    BY <1>4, StoreCFType, RecordTypes DEF DeleteTunnel, StoreCF
  <2>2. CloudOK'
    BY <1>4, <1>a, RecordTypes DEF DeleteTunnel, CloudOK, Unlisted
  <2> QED
    BY <1>4, <2>1, <2>2, FaultType, SameIngsType, SameLocalsType, TypePartsNext DEF DeleteTunnel, StoreCF
<1>5. CASE LoseTunnel
  <2>1. PICK t \in tunnels :
          tunnels' = tunnels \ {t} /\ configs' = [configs EXCEPT ![t] = NoConfig]
    BY <1>5 DEF LoseTunnel
  <2>2. CloudOK'
    BY <1>5, <1>a, <2>1, RecordTypes DEF LoseTunnel, CloudOK
  <2> QED
    BY <1>5, <2>2, FaultType, SameIngsType, SameCFsType, SameLocalsType, TypePartsNext DEF LoseTunnel
<1> QED
  BY <1>1, <1>2, <1>3, <1>4, <1>5 DEF TunnelSteps

-----------------------------------------------------------------------------
(* Reconcile and its locals *)

Rest == UNCHANGED <<pc, name, copy, target, snap, todo, host, record>>

LEMMA OthersRest ==
  ASSUME Users \/ TunnelSteps
  PROVE  Idle \/ Rest
BY DEF Users, TunnelSteps, CreateIngress, EditIngress, AssignIP, DeleteIngress, ObserveIngress,
       Store, CreateCF, DeleteCF, ObserveCF, Restart, RecordTunnel, ListRecords, DeleteRecord,
       DeleteTunnel, LoseTunnel, StoreCF, Rest, worker

\* Where each step of Reconcile leads when it does not return.
GetMove(i) ==
  /\ pc = "idle" /\ CachedIng(i).phase \in {"live", "deleting"}
  /\ pc' = (IF CachedIng(i).fin THEN "resolve" ELSE "finalizer")
  /\ CachedIng(i).fin \/ CachedIng(i).phase = "live"
  /\ name' = i /\ copy' = CachedIng(i) /\ UNCHANGED <<target, todo, snap>>

AddFinalizerMove ==
  /\ pc = "finalizer" /\ pc' = "resolve" /\ copy' = [copy EXCEPT !.fin = TRUE]
  /\ UNCHANGED <<name, target, todo, snap>>

ResolveMove ==
  /\ pc = "resolve" /\ UNCHANGED <<name, copy, todo, snap>>
  /\ \/ /\ pc' = "unfinalize" /\ Finalizing /\ UNCHANGED target
        /\ \/ \E c \in Candidates : CachedCF(c).phase = "deleting"
           \/ Candidates = {} /\ copy.spec.tunnel = "default"
     \/ /\ pc' = "getConfig" /\ (Finalizing \/ copy.ip # NoIP)
        /\ \E c \in Candidates : /\ target' = CachedCF(c).tid /\ target' # NoID
                                 /\ CachedCF(c).phase = "live"

GetConfigMove ==
  /\ pc = "getConfig" /\ pc' = "putConfig" /\ UNCHANGED <<name, copy, target, todo>>
  /\ target \in tunnels /\ snap' = configs[target]

NextMove(left) ==
  /\ UNCHANGED <<name, copy, target, snap>> /\ todo' = left
  /\ \/ pc' = "getDNS" /\ left # {}
     \/ pc' = "unfinalize" /\ left = {} /\ Finalizing

PutConfigMove == pc = "putConfig" /\ NextMove(copy.spec.hosts)

GetDNSMove ==
  /\ pc = "getDNS"
  /\ \E h \in todo :
       \/ zone[h] = (IF Removing THEN NoID ELSE target) /\ NextMove(todo \ {h})
       \/ /\ zone[h] # (IF Removing THEN NoID ELSE target)
          /\ pc' = "putDNS" /\ host' = h /\ UNCHANGED <<name, copy, target, todo, snap>>

PutDNSMove == pc = "putDNS" /\ NextMove(todo \ {host})

Move ==
  \/ \E i \in Ingresses : GetMove(i)
  \/ AddFinalizerMove \/ ResolveMove \/ GetConfigMove \/ PutConfigMove \/ GetDNSMove \/ PutDNSMove

LEMMA NextHostMove == ASSUME NEW left, NextHost(left) PROVE Idle \/ NextMove(left)
BY DEF NextHost, Finish, NextMove, Return

LEMMA WorkerMoves ==
  ASSUME Worker
  PROVE  Idle \/ Rest \/ Move
<1>1. ASSUME NEW i \in Ingresses, Get(i) PROVE Rest \/ GetMove(i)
  BY <1>1 DEF Get, Rest, worker, GetMove
<1>2. CASE AddFinalizer
  BY <1>2 DEF AddFinalizer, Put, Call, Return, Move, AddFinalizerMove
<1>3. CASE Resolve
  <2>1. ASSUME NEW c \in Candidates, UseTunnel(c), pc = "resolve" PROVE Idle \/ ResolveMove
    BY <2>1 DEF UseTunnel, Return, ResolveMove
  <2> QED
    BY <1>3, <2>1 DEF Resolve, Return, Move, ResolveMove
<1>4. CASE GetTunnelConfiguration
  BY <1>4 DEF GetTunnelConfiguration, Call, Return, Move, GetConfigMove
<1>5. CASE UpdateTunnelConfiguration
  BY <1>5, NextHostMove DEF UpdateTunnelConfiguration, Call, Return, Move, PutConfigMove
<1>6. CASE GetDNS
  BY <1>6, NextHostMove DEF GetDNS, Call, Return, Move, GetDNSMove
<1>7. CASE PutDNS
  BY <1>7, NextHostMove DEF PutDNS, Call, Return, Move, PutDNSMove
<1>8. CASE RemoveFinalizer
  BY <1>8 DEF RemoveFinalizer, Put, Call, Return
<1> QED
  BY <1>1, <1>2, <1>3, <1>4, <1>5, <1>6, <1>7, <1>8 DEF Worker, Move

LEMMA AllMoves == ASSUME [Next]_vars PROVE Idle \/ Rest \/ Move
BY OthersRest, WorkerMoves DEF Next, vars, worker, Rest

LEMMA AddressStep == ASSUME HasAddress, [Next]_vars PROVE HasAddress'
<1>1. CASE Idle
  BY <1>1 DEF Idle, HasAddress
<1>2. CASE Rest
  BY <1>2 DEF Rest, HasAddress, Finalizing
<1>3. CASE Move
  BY <1>3 DEF HasAddress, Finalizing, Move, GetMove, AddFinalizerMove, ResolveMove, GetConfigMove,
              PutConfigMove, GetDNSMove, PutDNSMove, NextMove
<1> QED
  BY <1>1, <1>2, <1>3, AllMoves

LEMMA WorksStep == ASSUME WorksOnItsHosts, [Next]_vars PROVE WorksOnItsHosts'
<1>1. CASE Idle
  BY <1>1 DEF Idle, WorksOnItsHosts
<1>2. CASE Rest
  BY <1>2 DEF Rest, WorksOnItsHosts, Finalizing
<1>3. CASE Move
  BY <1>3 DEF WorksOnItsHosts, Finalizing, Move, GetMove, AddFinalizerMove, ResolveMove, GetConfigMove,
              PutConfigMove, GetDNSMove, PutDNSMove, NextMove
<1> QED
  BY <1>1, <1>2, <1>3, AllMoves

-----------------------------------------------------------------------------
(* Versions of Ingresses *)

IngAppend(i, v) == ings' = [ings EXCEPT ![i] = Append(@, v)]

LEMMA IngAppended ==
  ASSUME TypeOK, NEW i \in Ingresses, NEW v \in Ings, IngAppend(i, v)
  PROVE  /\ \A j \in Ingresses \ {i} : ings'[j] = ings[j] /\ Ing(j)' = Ing(j)
         /\ Len(ings[i]) \in Nat \ {0} /\ Len(ings'[i]) = Len(ings[i]) + 1
         /\ \A k \in 1..Len(ings[i]) : ings'[i][k] = ings[i][k]
         /\ ings'[i][Len(ings[i]) + 1] = v /\ Ing(i)' = v
<1>1. ings[i] \in Seq(Ings) /\ Len(ings[i]) > 0 /\ Len(ings[i]) \in Nat
  BY DEF TypeOK
<1>2. \A j \in Ingresses \ {i} : ings'[j] = ings[j]
  BY DEF IngAppend
<1>3. ings'[i] = Append(ings[i], v)
  BY DEF IngAppend, TypeOK
<1> QED
  BY <1>1, <1>2, <1>3, AppendLog DEF Ing

LEMMA IngTailed ==
  ASSUME TypeOK, NEW i \in Ingresses, Len(ings[i]) > 1, ings' = [ings EXCEPT ![i] = Tail(@)]
  PROVE  /\ \A j \in Ingresses \ {i} : ings'[j] = ings[j] /\ Ing(j)' = Ing(j)
         /\ Len(ings[i]) \in Nat /\ Len(ings'[i]) = Len(ings[i]) - 1
         /\ \A k \in 1..Len(ings'[i]) : k + 1 \in 1..Len(ings[i]) /\ ings'[i][k] = ings[i][k + 1]
         /\ Ing(i)' = Ing(i)
<1>1. ings[i] \in Seq(Ings) /\ Len(ings[i]) \in Nat
  BY DEF TypeOK
<1>2. \A j \in Ingresses \ {i} : ings'[j] = ings[j]
  OBVIOUS
<1>3. ings'[i] = Tail(ings[i])
  BY DEF TypeOK
<1>4. /\ Len(Tail(ings[i])) = Len(ings[i]) - 1
      /\ Tail(ings[i])[Len(Tail(ings[i]))] = ings[i][Len(ings[i])]
      /\ \A k \in 1..Len(Tail(ings[i])) : Tail(ings[i])[k] = ings[i][k + 1]
  BY <1>1, TailLog
<1>5. \A k \in 1..(Len(ings[i]) - 1) : k + 1 \in 1..Len(ings[i])
  BY <1>1
<1> QED
  BY <1>1, <1>2, <1>3, <1>4, <1>5 DEF Ing

LEMMA IngLog ==
  ASSUME TypeOK, NEW i \in Ingresses
  PROVE  /\ Len(ings[i]) \in Nat \ {0} /\ 1 \in 1..Len(ings[i]) /\ Len(ings[i]) \in 1..Len(ings[i])
         /\ \A k \in 1..Len(ings[i]) : ings[i][k] \in Ings
<1>1. ings[i] \in Seq(Ings) /\ Len(ings[i]) > 0 /\ Len(ings[i]) \in Nat
  BY DEF TypeOK
<1> QED
  BY <1>1

\* What users and the cluster store, after the version u, as a version of Ingress i
Successor(i, u, v) ==
  \/ v = NoIngress /\ ~u.fin /\ u.phase = "live"
  \/ /\ v.phase # "absent" /\ v.fin = u.fin
     /\ v.spec \in Specs[i] \/ (u.phase # "absent" /\ v.spec = u.spec)
     /\ u.phase = "deleting" => v.phase = "deleting" /\ (EditsOnlyLive => v.spec = u.spec)
     /\ v.phase = "deleting" => u.fin

UserStep(i) ==
  /\ \E v \in Ings : IngAppend(i, v) /\ Successor(i, Ing(i), v)
  /\ fresh' = (fresh /\ i # name) /\ Rest /\ UNCHANGED <<cfs, cloud, purge, queue>>

LEMMA UserSteps ==
  ASSUME TypeOK, IngressVersions, NEW i \in Ingresses,
         CreateIngress(i) \/ EditIngress(i) \/ AssignIP(i) \/ DeleteIngress(i)
  PROVE  UserStep(i)
<1>a. /\ Ing(i) \in Ings /\ (Ing(i).phase = "absent" => Ing(i).fin = FALSE)
      /\ Ing(i).phase = "deleting" => Ing(i).fin
  BY CachedTypes, IngLog DEF IngressVersions, Ing, Ings
<1>b. \A s \in Specs[i] : s \in SpecType
  BY ConstantsAssumption
<1>1. CASE CreateIngress(i)
  <2>1. PICK s \in Specs[i] : Store(i, [NoIngress EXCEPT !.phase = "live", !.spec = s])
    BY <1>1 DEF CreateIngress
  <2> DEFINE v == [NoIngress EXCEPT !.phase = "live", !.spec = s]
  <2>2. v \in Ings /\ v.phase = "live" /\ v.fin = FALSE /\ v.spec = s
    BY <1>b, RecordTypes DEF NoIngress
  <2>3. Successor(i, Ing(i), v)
    BY <1>1, <1>a, <2>2 DEF Successor, CreateIngress
  <2> QED
    BY <2>1, <2>2, <2>3 DEF UserStep, Store, Rest, IngAppend
<1>2. CASE EditIngress(i)
  <2>1. PICK s \in Specs[i] : Store(i, [Ing(i) EXCEPT !.spec = s])
    BY <1>2 DEF EditIngress
  <2> DEFINE v == [Ing(i) EXCEPT !.spec = s]
  <2>2. v \in Ings /\ v.phase = Ing(i).phase /\ v.fin = Ing(i).fin /\ v.spec = s
    BY <1>a, <1>b, RecordTypes DEF Ings
  <2>3. Successor(i, Ing(i), v)
    <3>1. CASE Ing(i).phase = "live"
      BY <2>2, <3>1 DEF Successor
    <3>2. CASE Ing(i).phase = "deleting" /\ ~EditsOnlyLive
      BY <1>a, <2>2, <3>2 DEF Successor
    <3> QED
      BY <1>2, <3>1, <3>2 DEF EditIngress, Fault, EditsOnlyLive
  <2> QED
    BY <2>1, <2>2, <2>3 DEF UserStep, Store, Rest, IngAppend
<1>3. CASE AssignIP(i)
  <2>1. PICK a \in IPs : Store(i, [Ing(i) EXCEPT !.ip = a])
    BY <1>3 DEF AssignIP
  <2> DEFINE v == [Ing(i) EXCEPT !.ip = a]
  <2>2. v \in Ings /\ v.phase = Ing(i).phase /\ v.fin = Ing(i).fin /\ v.spec = Ing(i).spec
    BY <1>a, RecordTypes DEF Ings
  <2>3. Successor(i, Ing(i), v)
    BY <1>3, <1>a, <2>2 DEF Successor, AssignIP
  <2> QED
    BY <2>1, <2>2, <2>3 DEF UserStep, Store, Rest, IngAppend
<1>4. CASE DeleteIngress(i)
  <2> DEFINE v == IF Ing(i).fin THEN [Ing(i) EXCEPT !.phase = "deleting"] ELSE NoIngress
  <2>1. v \in Ings
    BY <1>a, RecordTypes
  <2>2. CASE Ing(i).fin
    <3>1. v.phase = "deleting" /\ v.fin = Ing(i).fin /\ v.spec = Ing(i).spec
      BY <1>a, <2>2 DEF Ings
    <3> QED
      BY <1>4, <2>1, <3>1 DEF Successor, DeleteIngress, UserStep, Store, Rest, IngAppend
  <2>3. CASE ~Ing(i).fin
    BY <1>4, <2>1, <2>3 DEF Successor, DeleteIngress, UserStep, Store, Rest, IngAppend
  <2> QED
    BY <2>2, <2>3
<1> QED
  BY <1>1, <1>2, <1>3, <1>4

\* What the worker stores
FinalizerStep ==
  /\ fresh /\ pc = "finalizer" /\ IngAppend(name, [copy EXCEPT !.fin = TRUE])
  /\ \/ Idle
     \/ AddFinalizerMove /\ UNCHANGED <<queue, fresh>>

RemovalStep ==
  fresh /\ pc = "unfinalize" /\ IngAppend(name, NoIngress) /\ Idle

ObserveStep(i) ==
  /\ Len(ings[i]) > 1 /\ ings' = [ings EXCEPT ![i] = Tail(@)] /\ queue' = queue \cup {i}
  /\ Rest /\ UNCHANGED <<cfs, cloud, purge, fresh>>

OtherStep ==
  /\ UNCHANGED ings
  /\ \/ Idle
     \/ Rest /\ UNCHANGED fresh
     \/ \E i \in Ingresses : GetMove(i) /\ fresh' = (Len(ings[i]) = 1)
     \/ /\ ResolveMove \/ GetConfigMove \/ PutConfigMove \/ GetDNSMove \/ PutDNSMove
        /\ UNCHANGED fresh

IngSteps ==
  \/ FinalizerStep \/ RemovalStep \/ OtherStep
  \/ \E i \in Ingresses : UserStep(i) \/ ObserveStep(i)

LEMMA NextHostStep == ASSUME NEW left, NextHost(left) PROVE Idle \/ (NextMove(left) /\ UNCHANGED fresh)
BY DEF NextHost, Finish, NextMove, Return

LEMMA IngStepsOfNext == ASSUME TypeOK, IngressVersions, [Next]_vars PROVE IngSteps
<1>1. CASE Worker
  <2>1. ASSUME NEW i \in Ingresses, Get(i) PROVE OtherStep
    BY <2>1 DEF Get, OtherStep, GetMove, Rest, worker
  <2>2. CASE AddFinalizer
    BY <2>2 DEF AddFinalizer, Put, Call, Return, IngSteps, FinalizerStep, OtherStep, AddFinalizerMove, IngAppend
  <2>3. CASE Resolve
    <3>1. ASSUME NEW c \in Candidates, UseTunnel(c), pc = "resolve"
          PROVE  Idle \/ (ResolveMove /\ UNCHANGED fresh)
      BY <3>1 DEF UseTunnel, Return, ResolveMove
    <3> QED
      BY <2>3, <3>1 DEF Resolve, Return, ResolveMove, IngSteps, OtherStep
  <2>4. CASE GetTunnelConfiguration
    BY <2>4 DEF GetTunnelConfiguration, Call, Return, IngSteps, OtherStep, GetConfigMove
  <2>5. CASE UpdateTunnelConfiguration
    BY <2>5, NextHostStep DEF UpdateTunnelConfiguration, Call, Return, IngSteps, OtherStep, PutConfigMove
  <2>6. CASE GetDNS
    BY <2>6, NextHostStep DEF GetDNS, Call, Return, IngSteps, OtherStep, GetDNSMove
  <2>7. CASE PutDNS
    BY <2>7, NextHostStep DEF PutDNS, Call, Return, IngSteps, OtherStep, PutDNSMove
  <2>8. CASE RemoveFinalizer
    BY <2>8 DEF RemoveFinalizer, Put, Call, Return, IngSteps, RemovalStep, OtherStep, IngAppend
  <2> QED
    BY <1>1, <2>1, <2>2, <2>3, <2>4, <2>5, <2>6, <2>7, <2>8 DEF Worker, IngSteps
<1>2. CASE Users
  <2>1. ASSUME NEW i \in Ingresses, ObserveIngress(i) PROVE ObserveStep(i)
    BY <2>1 DEF ObserveIngress, ObserveStep, Rest, worker
  <2>2. ASSUME NEW c \in CFTunnels, CreateCF(c) \/ DeleteCF(c) \/ ObserveCF(c) PROVE OtherStep
    BY <2>2 DEF CreateCF, DeleteCF, ObserveCF, StoreCF, OtherStep, Rest, worker
  <2>3. CASE Restart
    BY <2>3 DEF Restart, OtherStep, IngSteps
  <2> QED
    BY <1>2, <2>1, <2>2, <2>3, UserSteps DEF Users, IngSteps
<1>3. CASE TunnelSteps
  <2>1. OtherStep
    BY <1>3 DEF TunnelSteps, RecordTunnel, ListRecords, DeleteRecord, DeleteTunnel, LoseTunnel,
                StoreCF, OtherStep, Rest, worker
  <2> QED
    BY <2>1 DEF IngSteps
<1>4. CASE UNCHANGED vars
  BY <1>4 DEF vars, worker, Rest, OtherStep, IngSteps
<1> QED
  BY <1>1, <1>2, <1>3, <1>4 DEF Next

LEMMA StoredGuarded ==
  ASSUME TypeOK, IngressVersions, NEW i \in Ingresses
  PROVE  /\ Ing(i) \in Ings /\ (Ing(i).phase = "absent" => ~Ing(i).fin)
         /\ Ing(i).phase # "absent" => Ing(i).spec \in Specs[i]
         /\ CachedIng(i) \in Ings
         /\ CachedIng(i).phase # "absent" => CachedIng(i).spec \in Specs[i]
         /\ CachedIng(i).phase = "live" /\ CachedIng(i).fin => Ing(i).fin
         /\ Ing(i).phase = "deleting" => Ing(i).fin
         /\ CachedIng(i).phase = "deleting" => CachedIng(i).fin
         /\ CachedIng(i).phase = "deleting" /\ Ing(i).fin =>
              Ing(i).phase = "deleting" /\ (EditsOnlyLive => Ing(i).spec = CachedIng(i).spec)
BY IngLog, CachedTypes DEF IngressVersions, Ing, CachedIng

LEMMA AppendKeepsVersions ==
  ASSUME TypeOK, IngressVersions, NEW i \in Ingresses, NEW v \in Ings, IngAppend(i, v),
         v.phase = "absent" => ~v.fin, v.phase # "absent" => v.spec \in Specs[i],
         v.phase = "deleting" => v.fin,
         v.fin => \A k \in 1..Len(ings[i]) :
                    ings[i][k].phase = "deleting" =>
                      v.phase = "deleting" /\ (EditsOnlyLive => v.spec = ings[i][k].spec),
         v.fin \/ \A k \in 1..Len(ings[i]) : ings[i][k].phase = "live" => ~ings[i][k].fin
  PROVE  IngressVersions'
<1> SUFFICES ASSUME NEW j \in Ingresses, NEW k \in 1..Len(ings'[j])
             PROVE  LET u == ings'[j][k] IN
                    /\ u.phase = "absent" => ~u.fin
                    /\ u.phase # "absent" => u.spec \in Specs[j]
                    /\ u.phase = "live" /\ u.fin => Ing(j)'.fin
                    /\ u.phase = "deleting" => u.fin
                    /\ u.phase = "deleting" /\ Ing(j)'.fin =>
                         Ing(j)'.phase = "deleting" /\ (EditsOnlyLive => Ing(j)'.spec = u.spec)
  BY DEF IngressVersions
<1>1. CASE j # i
  <2>1. ings'[j] = ings[j] /\ Ing(j)' = Ing(j)
    BY <1>1, IngAppended
  <2> QED
    BY <2>1 DEF IngressVersions
<1>2. CASE j = i /\ k \in 1..Len(ings[i])
  <2>1. ings'[i][k] = ings[i][k] /\ Ing(i)' = v
    BY <1>2, IngAppended
  <2> QED
    BY <1>2, <2>1 DEF IngressVersions
<1>3. CASE j = i /\ k \notin 1..Len(ings[i])
  <2>1. Len(ings[i]) \in Nat /\ Len(ings'[i]) = Len(ings[i]) + 1
        /\ ings'[i][Len(ings[i]) + 1] = v /\ Ing(i)' = v
    BY IngAppended
  <2>2. k = Len(ings[i]) + 1
    BY <1>3, <2>1
  <2> QED
    BY <1>3, <2>1, <2>2
<1> QED
  BY <1>1, <1>2, <1>3

LEMMA VersionsStep ==
  ASSUME TypeOK, IngressVersions, CopyIsGuarded, WorksOnItsHosts, [Next]_vars
  PROVE  IngressVersions'
<1>1. CASE FinalizerStep
  <2>1. copy \in Ings /\ name \in Ingresses
    BY DEF TypeOK
  <2>2. [copy EXCEPT !.fin = TRUE] \in Ings /\ [copy EXCEPT !.fin = TRUE].phase = copy.phase
        /\ [copy EXCEPT !.fin = TRUE].spec = copy.spec /\ [copy EXCEPT !.fin = TRUE].fin
    BY <2>1, RecordTypes DEF Ings
  <2>3. \A k \in 1..Len(ings[name]) : ings[name][k].phase = "live"
    BY <1>1 DEF FinalizerStep, CopyIsGuarded
  <2> QED
    BY <1>1, <2>1, <2>2, <2>3, AppendKeepsVersions DEF FinalizerStep, CopyIsGuarded
<1>2. CASE RemovalStep
  <2>1. copy.phase = "deleting" /\ \A k \in 1..Len(ings[name]) : ings[name][k].phase = "deleting"
    BY <1>2 DEF RemovalStep, CopyIsGuarded, WorksOnItsHosts, Finalizing
  <2>2. NoIngress \in Ings /\ NoIngress.phase = "absent" /\ ~NoIngress.fin
    BY RecordTypes DEF NoIngress
  <2> QED
    BY <1>2, <2>1, <2>2, AppendKeepsVersions DEF RemovalStep, TypeOK
<1>3. ASSUME NEW i \in Ingresses, UserStep(i) PROVE IngressVersions'
  <2>1. PICK v \in Ings : IngAppend(i, v) /\ Successor(i, Ing(i), v)
    BY <1>3 DEF UserStep
  <2>2. v.fin \/ \A k \in 1..Len(ings[i]) : ings[i][k].phase = "live" => ~ings[i][k].fin
    <3>1. CASE Ing(i).fin
      BY <2>1, <3>1 DEF Successor
    <3>2. CASE ~Ing(i).fin
      BY <3>2 DEF IngressVersions
    <3> QED
      BY <3>1, <3>2
  <2>3. (v.phase = "absent" => ~v.fin) /\ (v.phase # "absent" => v.spec \in Specs[i])
    BY <2>1, StoredGuarded DEF Successor, NoIngress
  <2>4. v.phase = "deleting" => v.fin
    BY <2>1 DEF Successor, NoIngress
  <2>5. v.fin => \A k \in 1..Len(ings[i]) :
          ings[i][k].phase = "deleting" =>
            v.phase = "deleting" /\ (EditsOnlyLive => v.spec = ings[i][k].spec)
    <3>1. v.fin => v.phase # "absent" /\ Ing(i).fin
      <4>1. CASE v = NoIngress
        BY <4>1 DEF NoIngress
      <4>2. CASE v.phase # "absent" /\ v.fin = Ing(i).fin
        BY <4>2, Zenon
      <4> QED
        BY <2>1, <4>1, <4>2 DEF Successor
    <3>2. v.fin /\ Ing(i).phase = "deleting" =>
            v.phase = "deleting" /\ (EditsOnlyLive => v.spec = Ing(i).spec)
      BY <2>1, <3>1 DEF Successor, NoIngress
    <3> QED
      BY <3>1, <3>2 DEF IngressVersions
  <2> QED
    BY <2>1, <2>2, <2>3, <2>4, <2>5, AppendKeepsVersions
<1>4. ASSUME NEW i \in Ingresses, ObserveStep(i) PROVE IngressVersions'
  <2> SUFFICES ASSUME NEW j \in Ingresses, NEW k \in 1..Len(ings'[j])
               PROVE  LET u == ings'[j][k] IN
                      /\ u.phase = "absent" => ~u.fin
                      /\ u.phase # "absent" => u.spec \in Specs[j]
                      /\ u.phase = "live" /\ u.fin => Ing(j)'.fin
                      /\ u.phase = "deleting" => u.fin
                      /\ u.phase = "deleting" /\ Ing(j)'.fin =>
                           Ing(j)'.phase = "deleting" /\ (EditsOnlyLive => Ing(j)'.spec = u.spec)
    BY DEF IngressVersions
  <2>1. CASE j # i
    <3>1. ings'[j] = ings[j] /\ Ing(j)' = Ing(j)
      BY <1>4, <2>1, IngTailed DEF ObserveStep
    <3> QED
      BY <3>1 DEF IngressVersions
  <2>2. CASE j = i
    <3>1. k + 1 \in 1..Len(ings[i]) /\ ings'[i][k] = ings[i][k + 1] /\ Ing(i)' = Ing(i)
      BY <1>4, <2>2, IngTailed DEF ObserveStep
    <3> QED
      BY <2>2, <3>1 DEF IngressVersions
  <2> QED
    BY <2>1, <2>2
<1>5. CASE OtherStep
  BY <1>5 DEF OtherStep, IngressVersions, Ing
<1> QED
  BY <1>1, <1>2, <1>3, <1>4, <1>5, IngStepsOfNext DEF IngSteps

LEMMA CopyStep ==
  ASSUME TypeOK, IngressVersions, CopyIsGuarded, WorksOnItsHosts, [Next]_vars
  PROVE  CopyIsGuarded'
<1>0. CASE Idle
  BY <1>0 DEF Idle, CopyIsGuarded
<1>a. copy \in Ings
  BY DEF TypeOK
<1>b. PICK n \in Ingresses : n = name
  BY DEF TypeOK
<1>1. CASE FinalizerStep /\ ~Idle
  <2> DEFINE ing == [copy EXCEPT !.fin = TRUE]
  <2>1. ing \in Ings /\ ing.phase = copy.phase /\ ing.spec = copy.spec /\ ing.fin
    BY <1>a, RecordTypes DEF Ings
  <2>2. /\ copy' = ing /\ name' = n /\ pc' = "resolve" /\ fresh' = fresh
    BY <1>1, <1>b DEF FinalizerStep, AddFinalizerMove
  <2>3. /\ Ing(n)' = ing /\ Len(ings[n]) \in Nat /\ Len(ings'[n]) = Len(ings[n]) + 1
        /\ \A k \in 1..Len(ings[n]) : ings'[n][k] = ings[n][k]
        /\ ings'[n][Len(ings[n]) + 1] = ing
    BY <1>1, <1>b, <2>1, IngAppended DEF FinalizerStep
  <2>4. \A k \in 1..Len(ings'[n]) : k \in 1..Len(ings[n]) \/ k = Len(ings[n]) + 1
    BY <2>3
  <2>5. \A k \in 1..Len(ings'[n]) : ings'[n][k].phase = copy.phase
    BY <1>1, <1>b, <2>1, <2>3, <2>4 DEF FinalizerStep, CopyIsGuarded
  <2>6. Ing(name)' = ing
    BY <2>2, <2>3 DEF Ing
  <2> QED
    BY <1>1, <1>b, <2>1, <2>2, <2>5, <2>6 DEF FinalizerStep, CopyIsGuarded
<1>2. CASE RemovalStep
  BY <1>0, <1>2 DEF RemovalStep
<1>3. ASSUME NEW i \in Ingresses, UserStep(i) PROVE CopyIsGuarded'
  <2>1. PICK v \in Ings : IngAppend(i, v) /\ Successor(i, Ing(i), v)
    BY <1>3 DEF UserStep
  <2>2. UNCHANGED <<pc, name, copy>> /\ fresh' = (fresh /\ i # name)
    BY <1>3 DEF UserStep, Rest
  <2>3. \A j \in Ingresses \ {i} : ings'[j] = ings[j] /\ Ing(j)' = Ing(j)
    BY <2>1, IngAppended
  <2>4. Ing(i)' = v
    BY <2>1, IngAppended
  <2>5. Ing(n).fin => Ing(n)'.fin
    BY <2>1, <2>3, <2>4 DEF Successor
  <2>8. /\ Ing(n)'.fin => Ing(n).fin
        /\ Ing(n)'.fin /\ Ing(n).phase = "deleting" =>
             Ing(n)'.phase = "deleting" /\ (EditsOnlyLive => Ing(n)'.spec = Ing(n).spec)
    BY <2>1, <2>3, <2>4 DEF Successor, NoIngress
  <2>6. Ing(name) = Ing(n) /\ Ing(name)' = Ing(n)'
    BY <1>b, <2>2 DEF Ing
  <2>7. fresh' => fresh /\ ings'[name'] = ings[name] /\ Ing(name)' = Ing(name)
    BY <1>b, <2>2, <2>3, <2>6
  <2> QED
    BY <2>2, <2>5, <2>6, <2>7, <2>8, <1>b DEF CopyIsGuarded
<1>4. ASSUME NEW i \in Ingresses, ObserveStep(i) PROVE CopyIsGuarded'
  <2>1. UNCHANGED <<pc, name, copy, fresh>>
    BY <1>4 DEF ObserveStep, Rest
  <2>2. Ing(n)' = Ing(n)
    BY <1>4, IngTailed DEF ObserveStep
  <2>3. Ing(name)' = Ing(name)
    BY <1>b, <2>1, <2>2 DEF Ing
  <2>4. \A k \in 1..Len(ings'[n]) : \E l \in 1..Len(ings[n]) : ings'[n][k] = ings[n][l]
    BY <1>4, IngTailed DEF ObserveStep
  <2> QED
    BY <1>b, <2>1, <2>3, <2>4 DEF CopyIsGuarded
<1>5. ASSUME NEW i \in Ingresses, GetMove(i), fresh' = (Len(ings[i]) = 1), UNCHANGED ings
      PROVE CopyIsGuarded'
  <2>1. /\ name' = i /\ copy' = CachedIng(i) /\ copy'.phase \in {"live", "deleting"}
        /\ copy'.fin \/ (copy'.phase = "live" /\ pc' = "finalizer")
        /\ copy'.fin => pc' = "resolve"
    <3>1. CachedIng(i).fin \in BOOLEAN
      BY CachedTypes DEF Ings
    <3> QED
      BY <1>5, <3>1 DEF GetMove
  <2>2. Ing(name)' = Ing(i)
    BY <1>5, <2>1 DEF Ing
  <2>3. Len(ings[i]) = 1 => Ing(i) = CachedIng(i) /\ \A k \in 1..Len(ings[i]) : ings[i][k] = CachedIng(i)
    BY IngLog DEF Ing, CachedIng
  <2> QED
    BY <1>5, <2>1, <2>2, <2>3, StoredGuarded DEF CopyIsGuarded, GetMove
<1>6. ASSUME UNCHANGED <<ings, fresh>>,
             Rest \/ ResolveMove \/ GetConfigMove \/ PutConfigMove \/ GetDNSMove \/ PutDNSMove
      PROVE  CopyIsGuarded'
  <2>1. UNCHANGED <<name, copy, fresh, ings>>
    BY <1>6 DEF Rest, ResolveMove, GetConfigMove, PutConfigMove, GetDNSMove, PutDNSMove, NextMove
  <2>2. (pc' # "idle" => pc # "idle") /\ (pc' # "finalizer" /\ pc' # "idle" => pc # "finalizer")
        /\ (pc' = "finalizer" => pc = "finalizer")
    BY <1>6 DEF Rest, ResolveMove, GetConfigMove, PutConfigMove, GetDNSMove, PutDNSMove, NextMove
  <2>3. Ing(name)' = Ing(name)
    BY <2>1 DEF Ing
  <2> QED
    BY <2>1, <2>2, <2>3 DEF CopyIsGuarded
<1>7. CASE OtherStep
  BY <1>0, <1>5, <1>6, <1>7 DEF OtherStep
<1> QED
  BY <1>0, <1>1, <1>2, <1>3, <1>4, <1>7, IngStepsOfNext DEF IngSteps

-----------------------------------------------------------------------------
(* Tunnels, rules and records *)

QuietMove == Idle \/ Rest \/ (\E i \in Ingresses : GetMove(i)) \/ AddFinalizerMove
               \/ ResolveMove \/ GetConfigMove \/ GetDNSMove

QuietStep == QuietMove /\ UNCHANGED <<cfs, cloud, purge>>

ConfigStep ==
  /\ pc = "putConfig" /\ target \in tunnels
  /\ configs' = [configs EXCEPT ![target] = NewConfig]
  /\ Idle \/ PutConfigMove
  /\ UNCHANGED <<ings, cfs, made, tunnels, issued, zone, purge>>

ZoneStep ==
  /\ pc = "putDNS" /\ zone' = [zone EXCEPT ![host] = IF Removing THEN NoID ELSE target]
  /\ Idle \/ PutDNSMove
  /\ UNCHANGED <<ings, cfs, made, tunnels, issued, configs, purge>>

TunnelStep(c) ==
  /\ CreateCF(c) \/ DeleteCF(c) \/ ObserveCF(c) \/ RecordTunnel(c) \/ ListRecords(c)
       \/ DeleteRecord(c) \/ DeleteTunnel(c)
  /\ Rest /\ UNCHANGED <<ings, queue, fresh>>

\* somebody deletes tunnel t at the dashboard
LossStep(t) ==
  /\ t \in tunnels /\ tunnels' = tunnels \ {t} /\ configs' = [configs EXCEPT ![t] = NoConfig]
  /\ Rest /\ UNCHANGED <<ings, cfs, made, issued, zone, purge, queue, fresh>>

WorldSteps ==
  \/ QuietStep \/ ConfigStep \/ ZoneStep
  \/ \E c \in CFTunnels : TunnelStep(c)
  \/ \E t \in TunnelIDs : LossStep(t)

LEMMA WorldStepsOfNext == ASSUME TypeOK, [Next]_vars PROVE WorldSteps
<1>1. CASE Worker
  <2>1. ASSUME NEW i \in Ingresses, Get(i) PROVE QuietStep
    BY <2>1 DEF Get, QuietStep, QuietMove, GetMove, Rest, worker
  <2>2. CASE AddFinalizer
    BY <2>2 DEF AddFinalizer, Put, Call, Return, QuietStep, QuietMove, AddFinalizerMove, WorldSteps
  <2>3. CASE Resolve
    <3>1. ASSUME NEW c \in Candidates, UseTunnel(c), pc = "resolve" PROVE Idle \/ ResolveMove
      BY <3>1 DEF UseTunnel, Return, ResolveMove
    <3> QED
      BY <2>3, <3>1 DEF Resolve, Return, ResolveMove, QuietStep, QuietMove, WorldSteps
  <2>4. CASE GetTunnelConfiguration
    BY <2>4 DEF GetTunnelConfiguration, Call, Return, QuietStep, QuietMove, GetConfigMove, WorldSteps
  <2>5. CASE UpdateTunnelConfiguration
    <3>1. \/ ConfigStep
          \/ UNCHANGED configs /\ Idle
      BY <2>5, NextHostMove
         DEF UpdateTunnelConfiguration, Call, Return, ConfigStep, PutConfigMove, NextMove
    <3> QED
      BY <2>5, <3>1 DEF UpdateTunnelConfiguration, QuietStep, QuietMove, cloud, WorldSteps
  <2>6. CASE GetDNS
    BY <2>6, NextHostMove DEF GetDNS, Call, Return, QuietStep, QuietMove, GetDNSMove, WorldSteps
  <2>7. CASE PutDNS
    <3>1. ZoneStep \/ (UNCHANGED zone /\ Idle)
      BY <2>7, NextHostMove DEF PutDNS, Call, Return, ZoneStep, PutDNSMove
    <3> QED
      BY <2>7, <3>1 DEF PutDNS, QuietStep, QuietMove, cloud, WorldSteps
  <2>8. CASE RemoveFinalizer
    BY <2>8 DEF RemoveFinalizer, Put, Call, Return, QuietStep, QuietMove, WorldSteps
  <2> QED
    BY <1>1, <2>1, <2>2, <2>3, <2>4, <2>5, <2>6, <2>7, <2>8 DEF Worker, WorldSteps
<1>2. CASE Users
  <2>1. ASSUME NEW i \in Ingresses,
               CreateIngress(i) \/ EditIngress(i) \/ AssignIP(i) \/ DeleteIngress(i) \/ ObserveIngress(i)
        PROVE  QuietStep
    BY <2>1 DEF CreateIngress, EditIngress, AssignIP, DeleteIngress, ObserveIngress, Store, worker, Rest,
                QuietStep, QuietMove
  <2>2. ASSUME NEW c \in CFTunnels, CreateCF(c) \/ DeleteCF(c) \/ ObserveCF(c) PROVE TunnelStep(c)
    BY <2>2 DEF CreateCF, DeleteCF, ObserveCF, StoreCF, TunnelStep, Rest, worker
  <2>3. CASE Restart
    BY <2>3 DEF Restart, QuietStep, QuietMove, WorldSteps
  <2> QED
    BY <1>2, <2>1, <2>2, <2>3 DEF Users, WorldSteps
<1>3. CASE TunnelSteps
  <2>1. ASSUME NEW c \in CFTunnels,
               RecordTunnel(c) \/ ListRecords(c) \/ DeleteRecord(c) \/ DeleteTunnel(c)
        PROVE  TunnelStep(c)
    BY <2>1 DEF RecordTunnel, ListRecords, DeleteRecord, DeleteTunnel, StoreCF, TunnelStep, Rest, worker
  <2>2. ASSUME LoseTunnel PROVE \E t \in TunnelIDs : LossStep(t)
    <3>1. PICK t \in tunnels :
            tunnels' = tunnels \ {t} /\ configs' = [configs EXCEPT ![t] = NoConfig]
      BY <2>2 DEF LoseTunnel
    <3>2. t \in TunnelIDs
      BY DEF TypeOK
    <3> QED
      BY <2>2, <3>1, <3>2 DEF LoseTunnel, LossStep, Rest, worker
  <2> QED
    BY <1>3, <2>1, <2>2 DEF TunnelSteps, WorldSteps
<1>4. CASE UNCHANGED vars
  BY <1>4 DEF vars, worker, Rest, QuietStep, QuietMove, WorldSteps
<1> QED
  BY <1>1, <1>2, <1>3, <1>4 DEF Next

CFAppend(c, v) == cfs' = [cfs EXCEPT ![c] = Append(@, v)]

LEMMA CFAppended ==
  ASSUME TypeOK, NEW c \in CFTunnels, NEW v \in CFs, CFAppend(c, v)
  PROVE  /\ \A d \in CFTunnels \ {c} : cfs'[d] = cfs[d] /\ CF(d)' = CF(d)
         /\ Len(cfs[c]) \in Nat \ {0} /\ Len(cfs'[c]) = Len(cfs[c]) + 1
         /\ \A k \in 1..Len(cfs[c]) : cfs'[c][k] = cfs[c][k]
         /\ cfs'[c][Len(cfs[c]) + 1] = v /\ CF(c)' = v
         /\ \A k \in 1..Len(cfs'[c]) : k \in 1..Len(cfs[c]) \/ k = Len(cfs[c]) + 1
<1>1. cfs[c] \in Seq(CFs) /\ Len(cfs[c]) > 0 /\ Len(cfs[c]) \in Nat
  BY DEF TypeOK
<1>2. \A d \in CFTunnels \ {c} : cfs'[d] = cfs[d]
  BY DEF CFAppend
<1>3. cfs'[c] = Append(cfs[c], v)
  BY DEF CFAppend, TypeOK
<1> QED
  BY <1>1, <1>2, <1>3, AppendLog DEF CF

LEMMA CFTailed ==
  ASSUME TypeOK, NEW c \in CFTunnels, ObserveCF(c)
  PROVE  /\ \A d \in CFTunnels \ {c} : cfs'[d] = cfs[d] /\ CF(d)' = CF(d)
         /\ Len(cfs[c]) \in Nat /\ Len(cfs'[c]) = Len(cfs[c]) - 1
         /\ \A k \in 1..Len(cfs'[c]) : k + 1 \in 1..Len(cfs[c]) /\ cfs'[c][k] = cfs[c][k + 1]
         /\ CF(c)' = CF(c)
<1>1. cfs[c] \in Seq(CFs) /\ Len(cfs[c]) \in Nat /\ Len(cfs[c]) > 1
  BY DEF TypeOK, ObserveCF
<1>2. \A d \in CFTunnels \ {c} : cfs'[d] = cfs[d]
  BY DEF ObserveCF
<1>3. cfs'[c] = Tail(cfs[c])
  BY DEF TypeOK, ObserveCF
<1>4. /\ Len(Tail(cfs[c])) = Len(cfs[c]) - 1
      /\ Tail(cfs[c])[Len(Tail(cfs[c]))] = cfs[c][Len(cfs[c])]
      /\ \A k \in 1..Len(Tail(cfs[c])) : Tail(cfs[c])[k] = cfs[c][k + 1]
  BY <1>1, TailLog
<1>5. \A k \in 1..(Len(cfs[c]) - 1) : k + 1 \in 1..Len(cfs[c])
  BY <1>1
<1> QED
  BY <1>1, <1>2, <1>3, <1>4, <1>5 DEF CF

LEMMA CFLog ==
  ASSUME TypeOK, NEW c \in CFTunnels
  PROVE  /\ Len(cfs[c]) \in Nat \ {0} /\ 1 \in 1..Len(cfs[c]) /\ Len(cfs[c]) \in 1..Len(cfs[c])
         /\ \A k \in 1..Len(cfs[c]) : cfs[c][k] \in CFs
         /\ CF(c) = cfs[c][Len(cfs[c])] /\ CachedCF(c) = cfs[c][1]
<1>1. cfs[c] \in Seq(CFs) /\ Len(cfs[c]) > 0 /\ Len(cfs[c]) \in Nat
  BY DEF TypeOK
<1> QED
  BY <1>1 DEF CF, CachedCF

\* What the CloudflareTunnel controller and its users store of c
NewCF(c, v) ==
  /\ v \in CFs /\ CFAppend(c, v) /\ issued \subseteq issued'
  /\ \/ /\ CF(c).phase = "absent" /\ v.phase = "live" /\ v.tid = NoID
        /\ made[c] < MaxCF /\ made' = [made EXCEPT ![c] = @ + 1]
     \/ /\ CF(c).phase = "live" /\ CF(c).tid = NoID /\ v.phase = "live"
        /\ v.tid \in TunnelIDs \ issued /\ v.tid \in issued' /\ UNCHANGED made
     \/ CF(c).phase = "live" /\ v.phase = "deleting" /\ v.tid = CF(c).tid /\ UNCHANGED made
     \/ purge[c].listed /\ v.phase = "absent" /\ v.tid = NoID /\ UNCHANGED made

LEMMA TunnelStepKinds ==
  ASSUME TypeOK, NEW c \in CFTunnels, TunnelStep(c)
  PROVE  \/ \E v \in CFs : NewCF(c, v)
         \/ ObserveCF(c) /\ UNCHANGED <<issued, made>>
         \/ UNCHANGED <<cfs, issued, made>>
<1>a. CF(c) \in CFs /\ NoCF \in CFs
  BY CachedTypes, RecordTypes
<1>1. CASE CreateCF(c)
  <2>1. /\ [NoCF EXCEPT !.phase = "live"] \in CFs /\ [NoCF EXCEPT !.phase = "live"].tid = NoID
        /\ [NoCF EXCEPT !.phase = "live"].phase = "live"
    BY <1>a, RecordTypes DEF NoCF
  <2> QED
    BY <1>1, <2>1 DEF CreateCF, StoreCF, CFAppend, NewCF, cloud
<1>2. CASE RecordTunnel(c)
  <2>1. PICK t \in TunnelIDs \ issued : issued' = issued \cup {t} /\ StoreCF(c, [CF(c) EXCEPT !.tid = t])
    BY <1>2 DEF RecordTunnel
  <2>2. /\ [CF(c) EXCEPT !.tid = t] \in CFs /\ [CF(c) EXCEPT !.tid = t].tid = t
        /\ [CF(c) EXCEPT !.tid = t].phase = "live"
    BY <1>2, <1>a, RecordTypes DEF RecordTunnel, CFs
  <2>3. CFAppend(c, [CF(c) EXCEPT !.tid = t]) /\ issued \subseteq issued' /\ t \in issued'
    BY <2>1 DEF StoreCF, CFAppend
  <2> QED
    BY <1>2, <2>2, <2>3 DEF RecordTunnel, NewCF
<1>3. CASE DeleteCF(c)
  <2>1. /\ [CF(c) EXCEPT !.phase = "deleting"] \in CFs
        /\ [CF(c) EXCEPT !.phase = "deleting"].tid = CF(c).tid
        /\ [CF(c) EXCEPT !.phase = "deleting"].phase = "deleting"
    BY <1>a, RecordTypes DEF CFs
  <2> QED
    BY <1>3, <2>1 DEF DeleteCF, CFAppend, NewCF, cloud
<1>4. CASE DeleteTunnel(c)
  BY <1>4, <1>a DEF DeleteTunnel, StoreCF, CFAppend, NewCF, NoCF
<1> QED
  BY <1>1, <1>2, <1>3, <1>4 DEF TunnelStep, ObserveCF, ListRecords, DeleteRecord, cloud

LEMMA SnapStep ==
  ASSUME TypeOK, TunnelVersions, SnapIsCurrent, [Next]_vars
  PROVE  SnapIsCurrent'
<1>a. NoID \notin TunnelIDs
  BY ConstantsAssumption
<1>0. ASSUME Idle, issued \subseteq issued' PROVE SnapIsCurrent'
  BY <1>0, <1>a DEF Idle, SnapIsCurrent
<1>1. CASE QuietStep
  <2>1. CASE ResolveMove
    <3>1. \A c \in Candidates : CachedCF(c).tid \in issued \cup {NoID}
      BY CFLog DEF TunnelVersions, Candidates, Uses
    <3> QED
      BY <1>1, <2>1, <3>1 DEF ResolveMove, QuietStep, cloud, SnapIsCurrent
  <2>2. CASE QuietMove /\ ~ResolveMove /\ ~Idle
    BY <1>1, <2>2 DEF QuietStep, QuietMove, cloud, SnapIsCurrent, Rest, GetMove, AddFinalizerMove,
                      GetConfigMove, GetDNSMove, NextMove
  <2> QED
    BY <1>0, <1>1, <2>1, <2>2 DEF QuietStep, QuietMove, cloud
<1>2. CASE ConfigStep
  BY <1>0, <1>2 DEF ConfigStep, PutConfigMove, NextMove, SnapIsCurrent
<1>3. CASE ZoneStep
  BY <1>0, <1>3 DEF ZoneStep, PutDNSMove, NextMove, SnapIsCurrent
<1>4. ASSUME NEW c \in CFTunnels, TunnelStep(c) PROVE SnapIsCurrent'
  <2>1. UNCHANGED <<pc, target, snap>>
    BY <1>4 DEF TunnelStep, Rest
  <2>2. CASE RecordTunnel(c)
    BY <2>1, <2>2, <1>a DEF RecordTunnel, SnapIsCurrent, TypeOK
  <2>3. CASE DeleteTunnel(c)
    <3>1. tunnels' = tunnels \ {CF(c).tid} /\ UNCHANGED issued
          /\ \A t \in TunnelIDs \ {CF(c).tid} : configs'[t] = configs[t]
      BY <2>3 DEF DeleteTunnel
    <3> QED
      BY <2>1, <3>1 DEF SnapIsCurrent, TypeOK
  <2>4. CASE UNCHANGED <<tunnels, issued, configs>>
    BY <2>1, <2>4 DEF SnapIsCurrent
  <2> QED
    BY <1>4, <2>2, <2>3, <2>4
       DEF TunnelStep, CreateCF, DeleteCF, ObserveCF, ListRecords, DeleteRecord, StoreCF, cloud
<1>5. ASSUME NEW t \in TunnelIDs, LossStep(t) PROVE SnapIsCurrent'
  BY <1>5 DEF LossStep, Rest, SnapIsCurrent, TypeOK
<1> QED
  BY <1>1, <1>2, <1>3, <1>4, <1>5, WorldStepsOfNext DEF WorldSteps

\* TunnelVersions, of one version and of a version and an earlier one
IdOK(c, k) ==
  /\ cfs[c][k].tid \in issued \cup {NoID}
  /\ cfs[c][k].phase = "absent" => cfs[c][k].tid = NoID

OwnerOK(c, k) ==
  cfs[c][k].tid # NoID =>
    \A d \in CFTunnels \ {c} : \A l \in 1..Len(cfs[d]) : cfs[d][l].tid # cfs[c][k].tid

StretchOK(c, j, k) ==
  cfs[c][k].tid # NoID =>
    /\ cfs[c][j].phase = "deleting" /\ cfs[c][k].phase = "live" => cfs[c][j].tid # cfs[c][k].tid
    /\ cfs[c][j].tid # cfs[c][k].tid => \A l \in 1..j : cfs[c][l].tid # cfs[c][k].tid

VersionOK(c, k) == IdOK(c, k) /\ OwnerOK(c, k) /\ \A j \in 1..(k - 1) : StretchOK(c, j, k)

LEMMA AllVersionsOK == TunnelVersions <=> \A c \in CFTunnels : \A k \in 1..Len(cfs[c]) : VersionOK(c, k)
<1>1. ASSUME TunnelVersions, NEW c \in CFTunnels, NEW k \in 1..Len(cfs[c]) PROVE VersionOK(c, k)
  BY <1>1 DEF TunnelVersions, VersionOK, IdOK, OwnerOK, StretchOK
<1>2. ASSUME \A c \in CFTunnels : \A k \in 1..Len(cfs[c]) : VersionOK(c, k) PROVE TunnelVersions
  BY <1>2 DEF TunnelVersions, VersionOK, IdOK, OwnerOK, StretchOK
<1> QED
  BY <1>1, <1>2

LEMMA AllVersionsOKNext ==
  (\A c \in CFTunnels : \A k \in 1..Len(cfs'[c]) :
     IdOK(c, k)' /\ OwnerOK(c, k)' /\ \A j \in 1..(k - 1) : StretchOK(c, j, k)') => TunnelVersions'
BY DEF TunnelVersions, IdOK, OwnerOK, StretchOK

LEMMA AppendKeepsTunnels ==
  ASSUME TypeOK, TunnelVersions, NEW c \in CFTunnels, NEW v \in CFs, CFAppend(c, v),
         issued \subseteq issued', v.tid \in issued' \cup {NoID},
         v.phase = "absent" => v.tid = NoID,
         \/ v.tid = NoID
         \/ v.tid = CF(c).tid /\ v.phase # "live"
         \/ v.tid \notin issued
  PROVE  TunnelVersions'
<1> DEFINE n == Len(cfs[c])
<1>1. /\ \A d \in CFTunnels \ {c} : cfs'[d] = cfs[d]
      /\ n \in Nat \ {0} /\ Len(cfs'[c]) = n + 1
      /\ \A k \in 1..n : cfs'[c][k] = cfs[c][k]
      /\ cfs'[c][n + 1] = v
      /\ \A k \in 1..Len(cfs'[c]) : k \in 1..n \/ k = n + 1
  BY CFAppended
<1>2. \A d \in CFTunnels : \A k \in 1..Len(cfs[d]) : VersionOK(d, k)
  BY AllVersionsOK
<1>3. CF(c) = cfs[c][n] /\ n \in 1..n
  BY CFLog
<1>4. \A d \in CFTunnels : \A k \in 1..Len(cfs[d]) : cfs[d][k].tid \in issued \cup {NoID}
  BY <1>2 DEF VersionOK, IdOK
<1>5. ASSUME NEW d \in CFTunnels \ {c}, NEW k \in 1..Len(cfs[d]), cfs[d][k].tid # NoID
      PROVE  v.tid # cfs[d][k].tid
  <2>1. CF(c).tid # cfs[d][k].tid
    BY <1>2, <1>3, <1>5 DEF VersionOK, OwnerOK
  <2> QED
    BY <1>4, <1>5, <2>1
<1>6. ASSUME NEW d \in CFTunnels \ {c}, NEW k \in 1..Len(cfs'[d])
      PROVE  IdOK(d, k)' /\ OwnerOK(d, k)' /\ \A j \in 1..(k - 1) : StretchOK(d, j, k)'
  <2>1. VersionOK(d, k) /\ cfs'[d] = cfs[d]
    BY <1>1, <1>2, <1>6
  <2>2. cfs[d][k].tid # NoID => v.tid # cfs[d][k].tid
    BY <1>5, <2>1
  <2>3. OwnerOK(d, k)'
    BY <1>1, <2>1, <2>2 DEF VersionOK, OwnerOK
  <2> QED
    BY <2>1, <2>3 DEF VersionOK, IdOK, StretchOK
<1>7. ASSUME NEW k \in 1..n
      PROVE  IdOK(c, k)' /\ OwnerOK(c, k)' /\ \A j \in 1..(k - 1) : StretchOK(c, j, k)'
  <2>1. VersionOK(c, k) /\ cfs'[c][k] = cfs[c][k]
    BY <1>1, <1>2, <1>7
  <2>2. ASSUME NEW j \in 1..(k - 1) PROVE StretchOK(c, j, k)'
    <3>1. j \in 1..n /\ \A l \in 1..j : l \in 1..n
      BY <1>1, <1>7
    <3>2. cfs'[c][j] = cfs[c][j] /\ \A l \in 1..j : cfs'[c][l] = cfs[c][l]
      BY <1>1, <3>1
    <3> QED
      BY <2>1, <3>2 DEF VersionOK, StretchOK
  <2>3. OwnerOK(c, k)'
    BY <1>1, <2>1 DEF VersionOK, OwnerOK
  <2> QED
    BY <2>1, <2>2, <2>3 DEF VersionOK, IdOK
<1>8. ASSUME NEW m, m = n + 1
      PROVE  IdOK(c, m)' /\ OwnerOK(c, m)' /\ \A j \in 1..(m - 1) : StretchOK(c, j, m)'
  <2>1. m - 1 = n /\ cfs'[c][m] = v
    BY <1>1, <1>8
  <2>2. OwnerOK(c, m)'
    BY <1>1, <1>5, <2>1 DEF OwnerOK
  <2>3. ASSUME NEW j \in 1..n PROVE StretchOK(c, j, m)'
    <3>1. \A l \in 1..j : l \in 1..n
      BY <1>1, <2>3
    <3>2. cfs'[c][j] = cfs[c][j] /\ \A l \in 1..j : cfs'[c][l] = cfs[c][l]
      BY <1>1, <3>1
    <3>3. CASE v.tid = NoID \/ v.tid \notin issued
      <4>1. v.tid # NoID => \A l \in 1..n : cfs[c][l].tid # v.tid
        BY <1>4, <3>3
      <4> QED
        BY <2>1, <3>1, <3>2, <4>1 DEF StretchOK
    <3>4. CASE v.tid = CF(c).tid /\ v.phase # "live"
      <4>1. j = n \/ j \in 1..(n - 1)
        BY <1>1, <2>3
      <4>2. cfs[c][j].tid # CF(c).tid /\ CF(c).tid # NoID => \A l \in 1..j : cfs[c][l].tid # CF(c).tid
        BY <1>2, <1>3, <4>1 DEF VersionOK, StretchOK
      <4> QED
        BY <2>1, <3>2, <3>4, <4>2 DEF StretchOK
    <3> QED
      BY <3>3, <3>4
  <2> QED
    BY <1>1, <2>1, <2>2, <2>3 DEF IdOK
<1>9. ASSUME NEW d \in CFTunnels, NEW k \in 1..Len(cfs'[d])
      PROVE  IdOK(d, k)' /\ OwnerOK(d, k)' /\ \A j \in 1..(k - 1) : StretchOK(d, j, k)'
  <2>1. CASE d = c
    <3>1. k \in 1..n \/ k = n + 1
      BY <1>1, <1>9, <2>1
    <3> QED
      BY <1>7, <1>8, <2>1, <3>1
  <2>2. CASE d # c
    BY <1>6, <2>2
  <2> QED
    BY <2>1, <2>2
<1> QED
  BY <1>9, AllVersionsOKNext

LEMMA TunnelsStep == ASSUME TypeOK, TunnelVersions, [Next]_vars PROVE TunnelVersions'
<1>0. ASSUME UNCHANGED <<cfs, issued>> PROVE TunnelVersions'
  BY <1>0 DEF TunnelVersions
<1>1. CASE QuietStep \/ ConfigStep \/ ZoneStep
  BY <1>0, <1>1 DEF QuietStep, ConfigStep, ZoneStep, cloud
<1>2. ASSUME NEW c \in CFTunnels, TunnelStep(c) PROVE TunnelVersions'
  <2>1. CASE \E v \in CFs : NewCF(c, v)
    <3>1. PICK v \in CFs : NewCF(c, v)
      BY <2>1
    <3>2. CF(c).tid \in issued \cup {NoID}
      BY CFLog DEF TunnelVersions
    <3> QED
      BY <3>1, <3>2, AppendKeepsTunnels DEF NewCF
  <2>2. CASE UNCHANGED <<cfs, issued>>
    BY <1>0, <2>2
  <2>3. CASE ObserveCF(c)
    <3>1. /\ \A d \in CFTunnels \ {c} : cfs'[d] = cfs[d]
          /\ Len(cfs[c]) \in Nat /\ Len(cfs'[c]) = Len(cfs[c]) - 1
          /\ \A k \in 1..Len(cfs'[c]) : k + 1 \in 1..Len(cfs[c]) /\ cfs'[c][k] = cfs[c][k + 1]
          /\ issued' = issued
      BY <2>3, CFTailed DEF ObserveCF, cloud
    <3>2. \A d \in CFTunnels : \A k \in 1..Len(cfs[d]) : VersionOK(d, k)
      BY AllVersionsOK
    <3>3. \A d \in CFTunnels : \A k \in 1..Len(cfs'[d]) : \E l \in 1..Len(cfs[d]) : cfs'[d][k] = cfs[d][l]
      BY <3>1
    <3>4. ASSUME NEW d \in CFTunnels \ {c}, NEW k \in 1..Len(cfs'[d])
          PROVE  IdOK(d, k)' /\ OwnerOK(d, k)' /\ \A j \in 1..(k - 1) : StretchOK(d, j, k)'
      <4>1. VersionOK(d, k) /\ cfs'[d] = cfs[d]
        BY <3>1, <3>2
      <4>2. ASSUME cfs[d][k].tid # NoID, NEW e \in CFTunnels \ {d}, NEW m \in 1..Len(cfs'[e])
            PROVE  cfs'[e][m].tid # cfs[d][k].tid
        <5>1. PICK l \in 1..Len(cfs[e]) : cfs'[e][m] = cfs[e][l]
          BY <3>3
        <5> QED
          BY <4>1, <4>2, <5>1 DEF VersionOK, OwnerOK
      <4>3. OwnerOK(d, k)'
        BY <4>1, <4>2 DEF OwnerOK
      <4> QED
        BY <3>1, <4>1, <4>3 DEF VersionOK, IdOK, StretchOK
    <3>5. ASSUME NEW k \in 1..Len(cfs'[c])
          PROVE  IdOK(c, k)' /\ OwnerOK(c, k)' /\ \A j \in 1..(k - 1) : StretchOK(c, j, k)'
      <4>1. VersionOK(c, k + 1) /\ cfs'[c][k] = cfs[c][k + 1]
        BY <3>1, <3>2
      <4>2. OwnerOK(c, k)'
        BY <3>1, <4>1 DEF VersionOK, OwnerOK
      <4>3. ASSUME NEW j \in 1..(k - 1) PROVE StretchOK(c, j, k)'
        <5>1. j \in 1..Len(cfs'[c]) /\ j + 1 \in 1..((k + 1) - 1) /\ k \in Int /\ j \in Int
          BY <3>1, <3>5, <4>3
        <5>2. \A l \in 1..j : l \in 1..Len(cfs'[c]) /\ l + 1 \in 1..(j + 1)
          BY <3>1, <3>5, <4>3
        <5>3. cfs'[c][j] = cfs[c][j + 1] /\ \A l \in 1..j : cfs'[c][l] = cfs[c][l + 1]
          BY <3>1, <5>1, <5>2
        <5>4. StretchOK(c, j + 1, k + 1)
          BY <4>1, <5>1 DEF VersionOK
        <5> QED
          BY <4>1, <5>2, <5>3, <5>4 DEF StretchOK
      <4> QED
        BY <3>1, <4>1, <4>2, <4>3 DEF VersionOK, IdOK
    <3> QED
      BY <3>4, <3>5, AllVersionsOKNext
  <2> QED
    BY <1>2, <2>1, <2>2, <2>3, TunnelStepKinds
<1>3. CASE \E t \in TunnelIDs : LossStep(t)
  BY <1>0, <1>3 DEF LossStep
<1> QED
  BY <1>1, <1>2, <1>3, WorldStepsOfNext DEF WorldSteps

\* Version k of c, a later one than j, is the first to have tunnel t.
LaterVersion(c, j, k, t) == cfs[c][k].tid = t /\ cfs[c][j].tid # t

LEMMA CachedIsReached ==
  ASSUME TypeOK, TunnelVersions, NEW c \in CFTunnels PROVE CachedCF(c).tid \notin Unreached
<1> SUFFICES ASSUME NEW t \in Unreached, CachedCF(c).tid = t PROVE FALSE
  OBVIOUS
<1>1. \A d \in CFTunnels : \A k \in 1..Len(cfs[d]) : VersionOK(d, k)
  BY AllVersionsOK
<1>2. t \in issued \cup {NoID} /\ t # NoID
  BY <1>1, CFLog, ConstantsAssumption DEF VersionOK, IdOK, Unreached
<1>3. PICK d \in CFTunnels : \E k \in 1..Len(cfs[d]) : \E j \in 1..(k - 1) : LaterVersion(d, j, k, t)
  BY <1>2 DEF Unreached, LaterVersion
<1>4. PICK k \in 1..Len(cfs[d]) : \E j \in 1..(k - 1) : LaterVersion(d, j, k, t)
  BY <1>3
<1>5. PICK j \in 1..(k - 1) : LaterVersion(d, j, k, t)
  BY <1>4
<1>6. d = c
  BY <1>1, <1>2, <1>5, CFLog DEF VersionOK, OwnerOK, LaterVersion
<1>7. 1 \in 1..j
  BY <1>4, <1>5, CFLog
<1>8. cfs[d][1].tid # t
  BY <1>1, <1>2, <1>5, <1>7 DEF VersionOK, StretchOK, LaterVersion
<1> QED
  BY <1>6, <1>8, CFLog

LEMMA AppendReaches ==
  ASSUME TypeOK, NEW c \in CFTunnels, NEW v \in CFs, CFAppend(c, v), issued \subseteq issued',
         v.tid = NoID \/ v.tid = CF(c).tid \/ v.tid \notin issued
  PROVE  Unreached' \subseteq Unreached
<1> SUFFICES ASSUME NEW t \in TunnelIDs, t \in Unreached', t \in issued PROVE t \in Unreached
  BY DEF Unreached
<1> DEFINE n == Len(cfs[c])
<1>1. /\ \A d \in CFTunnels \ {c} : cfs'[d] = cfs[d]
      /\ n \in Nat \ {0} /\ Len(cfs'[c]) = n + 1
      /\ \A k \in 1..n : cfs'[c][k] = cfs[c][k]
      /\ cfs'[c][n + 1] = v
      /\ \A k \in 1..Len(cfs'[c]) : k \in 1..n \/ k = n + 1
  BY CFAppended
<1>2. PICK d \in CFTunnels : \E k \in 1..Len(cfs'[d]) : \E j \in 1..(k - 1) : LaterVersion(d, j, k, t)'
  BY DEF Unreached, LaterVersion
<1>3. PICK k \in 1..Len(cfs'[d]) : \E j \in 1..(k - 1) : LaterVersion(d, j, k, t)'
  BY <1>2
<1>4. PICK j \in 1..(k - 1) : LaterVersion(d, j, k, t)'
  BY <1>3
<1>5. ASSUME NEW m \in 1..Len(cfs[d]), NEW l \in 1..(m - 1), LaterVersion(d, l, m, t) PROVE t \in Unreached
  BY <1>5 DEF Unreached, LaterVersion
<1>6. CASE d # c
  BY <1>1, <1>4, <1>5, <1>6 DEF LaterVersion
<1>7. CASE d = c /\ k \in 1..n
  <2>1. j \in 1..n
    BY <1>1, <1>7
  <2> QED
    BY <1>1, <1>4, <1>5, <1>7, <2>1 DEF LaterVersion
<1>8. CASE d = c /\ k = n + 1
  <2>1. j \in 1..n /\ cfs[c][j].tid # t /\ v.tid = t
    BY <1>1, <1>4, <1>8 DEF LaterVersion
  <2>2. t = CF(c).tid
    BY <2>1, ConstantsAssumption
  <2>3. CF(c) = cfs[c][n] /\ n \in 1..n
    BY CFLog
  <2>4. j \in 1..(n - 1)
    BY <1>1, <2>1, <2>2, <2>3
  <2> QED
    BY <1>5, <1>8, <2>1, <2>2, <2>3, <2>4 DEF LaterVersion
<1> QED
  BY <1>1, <1>6, <1>7, <1>8

LEMMA ReachesStep == ASSUME TypeOK, TunnelVersions, [Next]_vars PROVE Unreached' \subseteq Unreached
<1>0. ASSUME UNCHANGED <<cfs, issued>> PROVE Unreached' \subseteq Unreached
  BY <1>0 DEF Unreached
<1>1. CASE QuietStep \/ ConfigStep \/ ZoneStep
  BY <1>0, <1>1 DEF QuietStep, ConfigStep, ZoneStep, cloud
<1>2. ASSUME NEW c \in CFTunnels, TunnelStep(c) PROVE Unreached' \subseteq Unreached
  <2>1. ASSUME NEW v \in CFs, NewCF(c, v) PROVE Unreached' \subseteq Unreached
    BY <2>1, AppendReaches DEF NewCF
  <2>2. CASE UNCHANGED <<cfs, issued>>
    BY <1>0, <2>2
  <2>3. CASE ObserveCF(c)
    <3>1. /\ \A d \in CFTunnels \ {c} : cfs'[d] = cfs[d]
          /\ Len(cfs[c]) \in Nat /\ Len(cfs'[c]) = Len(cfs[c]) - 1
          /\ \A k \in 1..Len(cfs'[c]) : k + 1 \in 1..Len(cfs[c]) /\ cfs'[c][k] = cfs[c][k + 1]
          /\ issued' = issued
      BY <2>3, CFTailed DEF ObserveCF, cloud
    <3> SUFFICES ASSUME NEW t \in TunnelIDs, t \in Unreached', t \in issued PROVE t \in Unreached
      BY DEF Unreached
    <3>2. PICK d \in CFTunnels : \E k \in 1..Len(cfs'[d]) : \E j \in 1..(k - 1) : LaterVersion(d, j, k, t)'
      BY <3>1 DEF Unreached, LaterVersion
    <3>3. PICK k \in 1..Len(cfs'[d]) : \E j \in 1..(k - 1) : LaterVersion(d, j, k, t)'
      BY <3>2
    <3>4. PICK j \in 1..(k - 1) : LaterVersion(d, j, k, t)'
      BY <3>3
    <3>5. ASSUME NEW m \in 1..Len(cfs[d]), NEW l \in 1..(m - 1), LaterVersion(d, l, m, t)
          PROVE  t \in Unreached
      BY <3>5 DEF Unreached, LaterVersion
    <3>6. CASE d # c
      BY <3>1, <3>4, <3>5, <3>6 DEF LaterVersion
    <3>7. CASE d = c
      <4>1. k + 1 \in 1..Len(cfs[c]) /\ j + 1 \in 1..((k + 1) - 1) /\ j \in 1..Len(cfs'[c])
        BY <3>1, <3>4, <3>7
      <4>2. LaterVersion(c, j + 1, k + 1, t)
        BY <3>1, <3>4, <3>7, <4>1 DEF LaterVersion
      <4> QED
        BY <3>5, <3>7, <4>1, <4>2
    <3> QED
      BY <3>6, <3>7
  <2> QED
    BY <1>2, <2>1, <2>2, <2>3, TunnelStepKinds
<1>3. CASE \E t \in TunnelIDs : LossStep(t)
  BY <1>0, <1>3 DEF LossStep
<1> QED
  BY <1>1, <1>2, <1>3, WorldStepsOfNext DEF WorldSteps

\* The CloudflareTunnel controller and its users take entries away, they make none.
LEMMA TunnelStepTakesAway ==
  ASSUME TypeOK, NEW c \in CFTunnels, TunnelStep(c)
  PROVE  /\ \A t \in TunnelIDs : configs'[t] \in {configs[t], NoConfig}
         /\ \A h \in Hosts : zone'[h] \in {zone[h], NoID}
<1>1. \A t \in TunnelIDs : configs'[t] \in {configs[t], NoConfig}
  BY DEF TunnelStep, CreateCF, DeleteCF, ObserveCF, RecordTunnel, ListRecords, DeleteRecord,
         DeleteTunnel, cloud
<1>2. CASE DeleteRecord(c)
  BY <1>1, <1>2 DEF DeleteRecord, TypeOK
<1>3. CASE ~DeleteRecord(c)
  BY <1>1, <1>3 DEF TunnelStep, CreateCF, DeleteCF, ObserveCF, RecordTunnel, ListRecords,
                    DeleteTunnel, cloud
<1> QED
  BY <1>2, <1>3

LEMMA UntouchedKept ==
  ASSUME TypeOK, NEW t \in TunnelIDs, Untouched(t), target' # t, [Next]_vars
  PROVE  Untouched(t)'
<1>a. t # NoID
  BY ConstantsAssumption
<1>b. /\ configs \in [TunnelIDs -> [Hosts -> Endpoints \cup {NoRule}]] /\ zone \in [Hosts -> Records]
      /\ host \in Hosts
  BY DEF TypeOK
<1>1. CASE QuietStep
  BY <1>1 DEF QuietStep, cloud, Untouched
<1>2. CASE ConfigStep
  BY <1>2, <1>a, <1>b DEF ConfigStep, Untouched
<1>3. CASE ZoneStep
  BY <1>3, <1>a, <1>b DEF ZoneStep, Untouched
<1>4. ASSUME NEW c \in CFTunnels, TunnelStep(c) PROVE Untouched(t)'
  BY <1>4, <1>a, TunnelStepTakesAway DEF Untouched
<1>5. ASSUME NEW u \in TunnelIDs, LossStep(u) PROVE Untouched(t)'
  BY <1>5, <1>b DEF LossStep, Untouched
<1> QED
  BY <1>1, <1>2, <1>3, <1>4, <1>5, WorldStepsOfNext DEF WorldSteps

LEMMA TargetStep ==
  ASSUME [Next]_vars
  PROVE  target' \in {target, NoID} \/ (ResolveMove /\ \E c \in CFTunnels : target' = CachedCF(c).tid)
<1>1. CASE Idle \/ Rest
  BY <1>1 DEF Idle, Rest
<1>2. CASE Move
  BY <1>2 DEF Move, GetMove, AddFinalizerMove, ResolveMove, GetConfigMove, PutConfigMove, GetDNSMove,
              PutDNSMove, NextMove, Candidates, Uses
<1> QED
  BY <1>1, <1>2, AllMoves

LEMMA UntouchedStep ==
  ASSUME TypeOK, TunnelVersions, NEW t \in Unreached, Untouched(t), [Next]_vars
  PROVE  Untouched(t)'
<1>1. t \in TunnelIDs /\ t # NoID
  BY ConstantsAssumption DEF Unreached
<1>2. target' # t
  BY <1>1, TargetStep, CachedIsReached DEF Untouched
<1> QED
  BY <1>1, <1>2, UntouchedKept

LEMMA UnreachedStep ==
  ASSUME TypeOK, TunnelVersions, UnreachedAreUntouched, [Next]_vars PROVE UnreachedAreUntouched'
BY ReachesStep, UntouchedStep DEF UnreachedAreUntouched

-----------------------------------------------------------------------------
(* Ingresses, tunnels, rules and records together *)

LEMMA HomeParts ==
  ASSUME NEW i \in Ingresses, NEW s \in Specs[i]
  PROVE  s.hosts \subseteq Hosted(i) /\ s.hosts \subseteq Hosts /\ Uses(s) \subseteq Home(i)
BY ConstantsAssumption DEF Hosted, Home, SpecType

LEMMA SpecInHand ==
  ASSUME TypeOK, CopyIsGuarded, pc # "idle"
  PROVE  name \in Ingresses /\ copy.spec \in Specs[name] /\ Uses(copy.spec) \subseteq CFTunnels
BY DEF TypeOK, CopyIsGuarded, Uses

\* Tunnels come with a new id only.
LEMMA NewTunnel ==
  ASSUME TypeOK, [Next]_vars, NEW t \in tunnels' \ tunnels PROVE t \in TunnelIDs \ issued
<1>1. ASSUME NEW d \in CFTunnels, TunnelStep(d) PROVE t \in TunnelIDs \ issued
  BY <1>1 DEF TunnelStep, CreateCF, DeleteCF, ObserveCF, RecordTunnel, ListRecords, DeleteRecord,
              DeleteTunnel, cloud
<1>2. ASSUME NEW u \in TunnelIDs, LossStep(u) PROVE FALSE
  BY <1>2 DEF LossStep
<1> QED
  BY <1>1, <1>2, WorldStepsOfNext DEF WorldSteps, QuietStep, ConfigStep, ZoneStep, cloud

LEMMA ServingStep ==
  ASSUME TypeOK, NEW c \in CFTunnels, Serving(c)', [Next]_vars
  PROVE  \/ Serving(c) /\ CF(c)'.tid = CF(c).tid
         \/ CF(c)'.tid \in TunnelIDs \ issued
<1>0. CASE CF(c)'.tid \notin tunnels
  BY <1>0, NewTunnel DEF Serving
<1> SUFFICES ASSUME CF(c)'.tid \in tunnels
             PROVE  \/ Serving(c) /\ CF(c)'.tid = CF(c).tid
                    \/ CF(c)'.tid \in TunnelIDs \ issued
  BY <1>0
<1>1. CASE UNCHANGED cfs
  BY <1>1 DEF Serving, CF
<1>2. ASSUME NEW d \in CFTunnels, TunnelStep(d)
      PROVE  \/ Serving(c) /\ CF(c)'.tid = CF(c).tid
             \/ CF(c)'.tid \in TunnelIDs \ issued
  <2>1. ASSUME NEW v \in CFs, NewCF(d, v)
        PROVE  \/ Serving(c) /\ CF(c)'.tid = CF(c).tid
               \/ CF(c)'.tid \in TunnelIDs \ issued
    <3>1. CASE d = c
      <4>1. CF(c)' = v
        BY <2>1, <3>1, CFAppended DEF NewCF
      <4> QED
        BY <2>1, <3>1, <4>1 DEF NewCF, Serving
    <3>2. CASE d # c
      <4>1. CF(c)' = CF(c)
        BY <2>1, <3>2, CFAppended DEF NewCF
      <4> QED
        BY <4>1 DEF Serving
    <3> QED
      BY <3>1, <3>2
  <2>2. CASE ObserveCF(d)
    BY <2>2, CFTailed DEF Serving
  <2> QED
    BY <1>1, <1>2, <2>1, <2>2, TunnelStepKinds
<1> QED
  BY <1>1, <1>2, WorldStepsOfNext DEF WorldSteps, QuietStep, ConfigStep, ZoneStep, LossStep

\* A version of c with tunnel t was there before, or t was not handed out.
LEMMA VersionStep ==
  ASSUME TypeOK, NEW c \in CFTunnels, NEW k \in 1..Len(cfs'[c]), cfs'[c][k].tid # NoID, [Next]_vars
  PROVE  \/ \E l \in 1..Len(cfs[c]) : cfs[c][l].tid = cfs'[c][k].tid
         \/ cfs'[c][k].tid \notin issued
<1>1. CASE UNCHANGED cfs
  BY <1>1
<1>2. ASSUME NEW d \in CFTunnels, TunnelStep(d)
      PROVE  \/ \E l \in 1..Len(cfs[c]) : cfs[c][l].tid = cfs'[c][k].tid
             \/ cfs'[c][k].tid \notin issued
  <2>a. CF(d) = cfs[d][Len(cfs[d])] /\ Len(cfs[d]) \in 1..Len(cfs[d])
    BY CFLog
  <2>1. ASSUME NEW v \in CFs, NewCF(d, v)
        PROVE  \/ \E l \in 1..Len(cfs[c]) : cfs[c][l].tid = cfs'[c][k].tid
               \/ cfs'[c][k].tid \notin issued
    <3>1. CASE d = c
      <4>1. k \in 1..Len(cfs[c]) \/ k = Len(cfs[c]) + 1
        BY <2>1, <3>1, CFAppended DEF NewCF
      <4>2. k \in 1..Len(cfs[c]) => cfs'[c][k] = cfs[c][k]
        BY <2>1, <3>1, CFAppended DEF NewCF
      <4>3. k = Len(cfs[c]) + 1 => cfs'[c][k] = v
        BY <2>1, <3>1, CFAppended DEF NewCF
      <4> QED
        BY <2>1, <2>a, <3>1, <4>1, <4>2, <4>3 DEF NewCF
    <3>2. CASE d # c
      <4>1. cfs'[c] = cfs[c]
        BY <2>1, <3>2, CFAppended DEF NewCF
      <4> QED
        BY <4>1
    <3> QED
      BY <3>1, <3>2
  <2>2. CASE ObserveCF(d)
    BY <2>2, CFTailed
  <2> QED
    BY <1>1, <1>2, <2>1, <2>2, TunnelStepKinds
<1> QED
  BY <1>1, <1>2, WorldStepsOfNext DEF WorldSteps, QuietStep, ConfigStep, ZoneStep, LossStep

LEMMA TargetIsUsedStep ==
  ASSUME TypeOK, WorksOnItsHosts, SnapIsCurrent, TunnelVersions, TargetIsUsed, [Next]_vars
  PROVE  TargetIsUsed'
<1>1. CASE target' = NoID
  BY <1>1 DEF TargetIsUsed
<1>2. CASE ResolveMove /\ target' # target /\ target' # NoID
  <2>1. PICK d \in Candidates : target' = CachedCF(d).tid
    BY <1>2 DEF ResolveMove
  <2>2. d \in CFTunnels /\ d \in Uses(copy.spec) /\ copy' = copy
    BY <1>2, <2>1 DEF Candidates, Uses, ResolveMove
  <2>3. UNCHANGED cfs
    BY <1>2, WorldStepsOfNext
       DEF WorldSteps, QuietStep, ConfigStep, ZoneStep, TunnelStep, LossStep, ResolveMove, Rest
  <2>4. \A c \in CFTunnels \ {d} : \A k \in 1..Len(cfs[c]) : cfs[c][k].tid # target'
    BY <1>2, <2>1, <2>2, CFLog DEF TunnelVersions
  <2> QED
    BY <2>2, <2>3, <2>4 DEF TargetIsUsed
<1>3. CASE target' = target /\ target # NoID
  <2>1. copy' = copy \/ copy' = [copy EXCEPT !.fin = TRUE]
    <3>1. CASE Idle
      BY <1>3, <3>1 DEF Idle
    <3>2. CASE Rest \/ Move
      BY <1>3, <3>2 DEF WorksOnItsHosts, Rest, Move, GetMove, AddFinalizerMove, ResolveMove, GetConfigMove,
                        PutConfigMove, GetDNSMove, PutDNSMove, NextMove
    <3> QED
      BY <3>1, <3>2, AllMoves
  <2>2. copy'.spec = copy.spec
    BY <2>1 DEF TypeOK, Ings
  <2>3. Uses(copy'.spec) = Uses(copy.spec)
    BY <2>2 DEF Uses
  <2>4. target \in issued
    BY <1>3 DEF SnapIsCurrent
  <2> QED
    BY <1>3, <2>3, <2>4, VersionStep DEF TargetIsUsed
<1> QED
  BY <1>1, <1>2, <1>3, TargetStep

LEMMA QueueGrows ==
  ASSUME [Next]_vars, pc # "idle", pc' # "idle" PROVE queue \subseteq queue'
<1>1. CASE Worker
  BY <1>1 DEF Worker, Get, AddFinalizer, Put, Call, Resolve, UseTunnel, GetTunnelConfiguration,
              UpdateTunnelConfiguration, GetDNS, PutDNS, RemoveFinalizer, NextHost, Finish, Return, Idle
<1>2. CASE Users
  BY <1>2 DEF Users, CreateIngress, EditIngress, AssignIP, DeleteIngress, ObserveIngress, Store, CreateCF,
              DeleteCF, ObserveCF, StoreCF, Restart, Idle
<1>3. CASE TunnelSteps
  BY <1>3 DEF TunnelSteps, RecordTunnel, ListRecords, DeleteRecord, DeleteTunnel, LoseTunnel, StoreCF
<1> QED
  BY <1>1, <1>2, <1>3 DEF Next, vars

LEMMA CopyIsCachedStep ==
  ASSUME TypeOK, IngressVersions, CopyIsCached, [Next]_vars PROVE CopyIsCached'
<1> SUFFICES ASSUME pc' # "idle", NEW n, n = name', n \notin queue'
             PROVE  copy' \in {ings'[n][1], [ings'[n][1] EXCEPT !.fin = TRUE]}
  BY DEF CopyIsCached
<1>a. name \in Ingresses /\ copy \in Ings
  BY DEF TypeOK
<1>b. ASSUME pc # "idle", n = name
      PROVE  copy \in {ings[n][1], [ings[n][1] EXCEPT !.fin = TRUE]}
  BY <1>b, QueueGrows DEF CopyIsCached
<1>1. CASE FinalizerStep
  <2>1. /\ pc # "idle" /\ name' = name /\ copy' = [copy EXCEPT !.fin = TRUE]
        /\ IngAppend(name, copy')
    BY <1>1 DEF FinalizerStep, Idle, AddFinalizerMove
  <2>2. copy' \in Ings
    BY <1>a, <2>1, RecordTypes
  <2>3. n \in Ingresses /\ ings'[n][1] = ings[n][1]
    BY <1>a, <2>1, <2>2, IngAppended, IngLog
  <2>4. ings[n][1] \in Ings
    BY <2>3, IngLog
  <2> QED
    BY <1>b, <2>1, <2>3, <2>4 DEF Ings
<1>2. CASE RemovalStep
  BY <1>2 DEF RemovalStep, Idle
<1>3. ASSUME NEW i \in Ingresses, UserStep(i)
      PROVE  copy' \in {ings'[n][1], [ings'[n][1] EXCEPT !.fin = TRUE]}
  <2>1. PICK v \in Ings : IngAppend(i, v)
    BY <1>3 DEF UserStep
  <2>2. pc # "idle" /\ name' = name /\ copy' = copy
    BY <1>3 DEF UserStep, Rest
  <2>3. ings'[n][1] = ings[n][1]
    <3>1. CASE n = i
      BY <2>1, <3>1, IngAppended, IngLog
    <3>2. CASE n # i
      BY <1>a, <2>1, <2>2, <3>2, IngAppended
    <3> QED
      BY <3>1, <3>2
  <2> QED
    BY <1>b, <2>2, <2>3
<1>4. ASSUME NEW i \in Ingresses, ObserveStep(i)
      PROVE  copy' \in {ings'[n][1], [ings'[n][1] EXCEPT !.fin = TRUE]}
  <2>1. pc # "idle" /\ name' = name /\ copy' = copy /\ n # i
    BY <1>4 DEF ObserveStep, Rest
  <2>2. ings'[n] = ings[n]
    BY <1>4, <1>a, <2>1 DEF ObserveStep
  <2> QED
    BY <1>b, <2>1, <2>2
<1>5. CASE OtherStep
  <2>1. ASSUME NEW i \in Ingresses, GetMove(i) PROVE n = i /\ copy' = ings[i][1]
    BY <2>1 DEF GetMove, CachedIng
  <2>2. CASE Rest \/ ResolveMove \/ GetConfigMove \/ PutConfigMove \/ GetDNSMove \/ PutDNSMove
    BY <1>5, <1>b, <2>2 DEF OtherStep, Rest, ResolveMove, GetConfigMove, PutConfigMove, GetDNSMove, PutDNSMove,
                       NextMove
  <2> QED
    BY <1>5, <2>1, <2>2 DEF OtherStep, Idle
<1> QED
  BY <1>1, <1>2, <1>3, <1>4, <1>5, IngStepsOfNext DEF IngSteps

LEMMA PurgesStep ==
  ASSUME TypeOK, RecordsAreHome, PurgesItsOwn, [Next]_vars PROVE PurgesItsOwn'
<1> SUFFICES ASSUME NEW c \in CFTunnels
             PROVE  /\ purge'[c].listed \/ purge'[c].left # {} => CF(c)'.phase = "deleting"
                    /\ \A h \in purge'[c].left : Linked(h, c)
  BY DEF PurgesItsOwn, Linked, Hosted, Home, Uses
<1>a. /\ purge[c].listed \/ purge[c].left # {} => CF(c).phase = "deleting"
      /\ \A h \in purge[c].left : Linked(h, c)
  BY DEF PurgesItsOwn, Linked
<1>b. purge \in [CFTunnels -> [listed : BOOLEAN, left : SUBSET Hosts]]
  BY DEF TypeOK
<1>1. CASE CF(c)' = CF(c) /\ purge'[c] = purge[c]
  BY <1>1, <1>a
<1>2. CASE CF(c)' = CF(c) /\ purge'[c] = Unlisted
  BY <1>2 DEF Unlisted
<1>3. CASE ListRecords(c)
  <2>1. /\ CF(c)' = CF(c) /\ CF(c).phase = "deleting"
        /\ purge'[c].left = {h \in Hosts : CF(c).tid # NoID /\ zone[h] = CF(c).tid}
    BY <1>3, <1>b DEF ListRecords, CF
  <2>2. \A h \in purge'[c].left : Linked(h, c)
    BY <2>1, CFLog DEF RecordsAreHome, Linked
  <2> QED
    BY <2>1, <2>2
<1>4. CASE DeleteRecord(c)
  <2>1. PICK h \in purge[c].left :
          purge' = [purge EXCEPT ![c] = IF zone[h] = NoID THEN Unlisted
                                        ELSE [listed |-> TRUE, left |-> @.left \ {h}]]
    BY <1>4 DEF DeleteRecord
  <2>2. purge'[c].left \subseteq purge[c].left
    BY <1>b, <2>1 DEF Unlisted
  <2>3. CF(c)' = CF(c) /\ CF(c).phase = "deleting"
    BY <1>4, <1>a, <2>1 DEF DeleteRecord, CF
  <2> QED
    BY <1>a, <2>2, <2>3
<1>5. CASE DeleteTunnel(c)
  BY <1>5, <1>b DEF DeleteTunnel, Unlisted
<1>6. CASE CreateCF(c) \/ RecordTunnel(c) \/ DeleteCF(c)
  <2>1. UNCHANGED purge /\ CF(c).phase # "deleting"
    BY <1>6 DEF CreateCF, RecordTunnel, DeleteCF
  <2> QED
    BY <1>a, <2>1
<1>7. CASE ObserveCF(c)
  <2>1. CF(c)' = CF(c) /\ UNCHANGED purge
    BY <1>7, CFTailed DEF ObserveCF
  <2> QED
    BY <1>1, <2>1
<1>8. ASSUME NEW d \in CFTunnels \ {c}, TunnelStep(d)
      PROVE  CF(c)' = CF(c) /\ purge'[c] = purge[c]
  <2>1. CF(c)' = CF(c)
    <3>1. ASSUME NEW v \in CFs, NewCF(d, v) PROVE CF(c)' = CF(c)
      BY <1>8, <3>1, CFAppended DEF NewCF
    <3>2. CASE ObserveCF(d)
      BY <1>8, <3>2, CFTailed
    <3>3. CASE UNCHANGED cfs
      BY <3>3 DEF CF
    <3> QED
      BY <1>8, <3>1, <3>2, <3>3, TunnelStepKinds
  <2>2. purge'[c] = purge[c]
    <3>1. CASE ListRecords(d)
      BY <1>8, <1>b, <3>1 DEF ListRecords
    <3>2. CASE DeleteRecord(d)
      BY <1>8, <1>b, <3>2 DEF DeleteRecord
    <3>3. CASE DeleteTunnel(d)
      BY <1>8, <1>b, <3>3 DEF DeleteTunnel
    <3> QED
      BY <1>8, <3>1, <3>2, <3>3 DEF TunnelStep, CreateCF, RecordTunnel, DeleteCF, ObserveCF
  <2> QED
    BY <2>1, <2>2
<1>9. CASE QuietStep \/ ConfigStep \/ ZoneStep \/ \E t \in TunnelIDs : LossStep(t)
  BY <1>1, <1>9 DEF QuietStep, ConfigStep, ZoneStep, LossStep, CF
<1> QED
  BY <1>1, <1>3, <1>4, <1>5, <1>6, <1>7, <1>8, <1>9, WorldStepsOfNext DEF WorldSteps, TunnelStep

\* Reconcile alone makes records, of the hosts and to the tunnel in hand.
LEMMA NewRecord ==
  ASSUME TypeOK, WorksOnItsHosts, NEW h \in Hosts, NEW t \in TunnelIDs, zone'[h] = t, zone[h] # t,
         [Next]_vars
  PROVE  ZoneStep /\ h = host /\ t = target /\ ~Removing /\ h \in copy.spec.hosts
<1>a. t # NoID /\ zone \in [Hosts -> Records]
  BY ConstantsAssumption DEF TypeOK
<1>1. ASSUME NEW d \in CFTunnels, TunnelStep(d) PROVE FALSE
  BY <1>a, <1>1, TunnelStepTakesAway
<1>2. ZoneStep
  BY <1>a, <1>1, WorldStepsOfNext DEF WorldSteps, QuietStep, ConfigStep, LossStep, cloud
<1>3. h = host /\ t = target /\ ~Removing
  BY <1>a, <1>2 DEF ZoneStep
<1> QED
  BY <1>2, <1>3 DEF ZoneStep, WorksOnItsHosts

LEMMA RecordsStep ==
  ASSUME TypeOK, TypeOK', CopyIsGuarded, WorksOnItsHosts, TunnelVersions, UnreachedAreUntouched, TargetIsUsed,
         RecordsAreHome, [Next]_vars
  PROVE  RecordsAreHome'
<1> SUFFICES ASSUME NEW h \in Hosts, NEW c \in CFTunnels, NEW k \in 1..Len(cfs'[c]),
                    NEW t, t = cfs'[c][k].tid, zone'[h] = t, t # NoID
             PROVE  Linked(h, c)
  BY DEF RecordsAreHome, Linked, Hosted, Home, Uses
<1>a. t \in TunnelIDs
  <2>1. cfs'[c] \in Seq(CFs)
    BY DEF TypeOK
  <2>2. cfs'[c][k] \in CFs
    BY <2>1
  <2> QED
    BY <2>2 DEF CFs, IDs
<1>1. CASE zone[h] = t
  <2>1. t \in issued
    BY <1>1, <1>a DEF UnreachedAreUntouched, Unreached, Untouched
  <2>2. PICK l \in 1..Len(cfs[c]) : cfs[c][l].tid = t
    BY <2>1, VersionStep
  <2> QED
    BY <1>1, <2>2 DEF RecordsAreHome, Linked
<1>2. CASE zone[h] # t
  <2>1. ZoneStep /\ h = host /\ t = target
    BY <1>a, <1>2, NewRecord
  <2>2. UNCHANGED cfs /\ pc # "idle" /\ host \in copy.spec.hosts
    BY <2>1 DEF ZoneStep, WorksOnItsHosts
  <2>3. c \in Uses(copy.spec)
    BY <2>1, <2>2 DEF TargetIsUsed
  <2>4. PICK n \in Ingresses : copy.spec \in Specs[n]
    BY <2>2, SpecInHand
  <2>5. h \in Hosted(n) /\ c \in Home(n)
    BY <2>1, <2>2, <2>3, <2>4, HomeParts
  <2> QED
    BY <2>5 DEF Linked
<1> QED
  BY <1>1, <1>2

LEMMA WantedStep ==
  ASSUME TypeOK, CopyIsGuarded, WorksOnItsHosts, RecordsAreWanted, [Next]_vars PROVE RecordsAreWanted'
<1> SUFFICES ASSUME NEW h \in Hosts, NEW t \in TunnelIDs, zone'[h] = t
             PROVE  \E i \in Ingresses : \E s \in Specs[i] : h \in s.hosts /\ ~s.ignored
  BY DEF RecordsAreWanted
<1>1. CASE zone[h] = t
  BY <1>1 DEF RecordsAreWanted
<1>2. CASE zone[h] # t
  <2>1. ZoneStep /\ ~Removing /\ h \in copy.spec.hosts
    BY <1>2, NewRecord
  <2>2. name \in Ingresses /\ copy.spec \in Specs[name]
    BY <2>1, SpecInHand DEF ZoneStep
  <2> QED
    BY <2>1, <2>2 DEF Removing
<1> QED
  BY <1>1, <1>2

Looking == pc \in {"getDNS", "putDNS"}

LEMMA LookingStep ==
  ASSUME TypeOK, [Next]_vars, Looking'
  PROVE  /\ UNCHANGED <<copy, target>>
         /\ \/ ConfigStep /\ PutConfigMove
            \/ Looking /\ (\/ Rest /\ QuietStep
                           \/ GetDNSMove /\ QuietStep
                           \/ PutDNSMove /\ ZoneStep
                           \/ \E c \in CFTunnels : TunnelStep(c) /\ Rest
                           \/ \E t \in TunnelIDs : LossStep(t) /\ Rest)
<1>1. CASE QuietStep
  <2>1. CASE Idle
    BY <2>1 DEF Idle, Looking
  <2>2. CASE Rest
    BY <1>1, <2>2 DEF Rest, Looking
  <2>3. CASE (\E i \in Ingresses : GetMove(i)) \/ AddFinalizerMove \/ ResolveMove \/ GetConfigMove
    BY <2>3 DEF GetMove, AddFinalizerMove, ResolveMove, GetConfigMove, Looking
  <2>4. CASE GetDNSMove
    BY <1>1, <2>4 DEF GetDNSMove, NextMove, Looking
  <2> QED
    BY <1>1, <2>1, <2>2, <2>3, <2>4 DEF QuietStep, QuietMove
<1>2. CASE ConfigStep
  BY <1>2 DEF ConfigStep, Idle, PutConfigMove, NextMove, Looking
<1>3. CASE ZoneStep
  BY <1>3 DEF ZoneStep, Idle, PutDNSMove, NextMove, Looking
<1>4. ASSUME NEW c \in CFTunnels, TunnelStep(c) PROVE UNCHANGED <<copy, target>> /\ Looking /\ Rest
  BY <1>4 DEF TunnelStep, Rest, Looking
<1>5. ASSUME NEW t \in TunnelIDs, LossStep(t) PROVE UNCHANGED <<copy, target>> /\ Looking /\ Rest
  BY <1>5 DEF LossStep, Rest, Looking
<1> QED
  BY <1>1, <1>2, <1>3, <1>4, <1>5, WorldStepsOfNext DEF WorldSteps

\* what the rule and the record of host h are to be
RightRule(h) == IF Removing THEN NoRule ELSE Endpoint(h)
RightRecord == IF Removing THEN NoID ELSE target

LEMMA RulesStep ==
  ASSUME TypeOK, WorksOnItsHosts, SnapIsCurrent, RulesInHand, [Next]_vars PROVE RulesInHand'
<1> SUFFICES ASSUME Looking', target' \in tunnels', NEW h \in copy'.spec.hosts
             PROVE  configs'[target'][h] = RightRule(h)'
  BY DEF RulesInHand, Looking, RightRule
<1>a. UNCHANGED <<copy, target>> /\ h \in Hosts
  BY LookingStep DEF TypeOK, Ings, SpecType
<1>b. RightRule(h)' = RightRule(h)
  BY <1>a DEF RightRule, Removing, Finalizing, Endpoint
<1>c. configs \in [TunnelIDs -> [Hosts -> Endpoints \cup {NoRule}]] /\ tunnels \subseteq TunnelIDs
  BY DEF TypeOK
<1>1. CASE ConfigStep /\ PutConfigMove
  BY <1>1, <1>a, <1>b, <1>c DEF ConfigStep, NewConfig, RightRule
<1>2. CASE Looking
  <2>0. target \in tunnels => configs[target][h] = RightRule(h)
    BY <1>2, <1>a DEF RulesInHand, Looking, RightRule
  <2>1. CASE (Rest /\ QuietStep) \/ (GetDNSMove /\ QuietStep) \/ (PutDNSMove /\ ZoneStep)
    BY <1>a, <1>b, <2>0, <2>1 DEF QuietStep, ZoneStep, cloud
  <2>2. ASSUME NEW d \in CFTunnels, TunnelStep(d) PROVE configs'[target'][h] = RightRule(h)'
    <3>1. CASE RecordTunnel(d)
      <4>1. PICK t \in TunnelIDs \ issued : tunnels' = tunnels \cup {t} /\ UNCHANGED configs
        BY <3>1 DEF RecordTunnel
      <4>2. target # t
        BY ConstantsAssumption DEF SnapIsCurrent
      <4> QED
        BY <1>a, <1>b, <2>0, <4>1, <4>2
    <3>2. CASE DeleteTunnel(d)
      <4>1. /\ tunnels' = tunnels \ {CF(d).tid}
            /\ configs' = [t \in TunnelIDs |-> IF t = CF(d).tid THEN NoConfig ELSE configs[t]]
        BY <3>2 DEF DeleteTunnel
      <4> QED
        BY <1>a, <1>b, <1>c, <2>0, <4>1
    <3>3. CASE UNCHANGED <<tunnels, configs>>
      BY <1>a, <1>b, <2>0, <3>3
    <3> QED
      BY <2>2, <3>1, <3>2, <3>3
         DEF TunnelStep, CreateCF, DeleteCF, ObserveCF, ListRecords, DeleteRecord, cloud
  <2>3. ASSUME NEW t \in TunnelIDs, LossStep(t) PROVE configs'[target'][h] = RightRule(h)'
    BY <1>a, <1>b, <1>c, <2>0, <2>3 DEF LossStep
  <2> QED
    BY <1>1, <2>1, <2>2, <2>3, LookingStep
<1> QED
  BY <1>1, <1>2, LookingStep

-----------------------------------------------------------------------------
(* What holds whatever users write into Ingresses *)

BaseInvariant ==
  /\ TypeOK /\ HasAddress /\ IngressVersions /\ CopyIsGuarded /\ CopyIsCached /\ WorksOnItsHosts
  /\ SnapIsCurrent /\ TargetIsUsed /\ RulesInHand /\ TunnelVersions
  /\ UnreachedAreUntouched /\ RecordsAreHome /\ RecordsAreWanted /\ PurgesItsOwn

LEMMA BaseInit == Init => BaseInvariant
<1> SUFFICES ASSUME Init PROVE BaseInvariant
  OBVIOUS
<1>1. \A i \in Ingresses : Len(ings[i]) = 1 /\ ings[i][1] = NoIngress /\ Ing(i) = NoIngress
  BY DEF Init, Ing
<1>2. \A c \in CFTunnels : Len(cfs[c]) = 1 /\ cfs[c][1] = NoCF
  BY DEF Init
<1>3. IngressVersions
  <2>1. \A i \in Ingresses : \A k \in 1..Len(ings[i]) : ings[i][k] = NoIngress
    BY <1>1
  <2>2. NoIngress.phase = "absent" /\ NoIngress.fin = FALSE
    BY DEF NoIngress
  <2> QED
    BY <2>1, <2>2 DEF IngressVersions
<1>4. \A c \in CFTunnels : \A k \in 1..Len(cfs[c]) : cfs[c][k].tid = NoID
  <2>1. \A c \in CFTunnels : \A k \in 1..Len(cfs[c]) : cfs[c][k] = NoCF
    BY <1>2
  <2> QED
    BY <2>1 DEF NoCF
<1>5. TunnelVersions
  BY <1>4 DEF TunnelVersions
<1>6. UnreachedAreUntouched
  BY ConstantsAssumption DEF Init, UnreachedAreUntouched, Untouched, Unreached
<1>7. HasAddress /\ WorksOnItsHosts /\ CopyIsGuarded /\ CopyIsCached /\ SnapIsCurrent /\ TargetIsUsed
        /\ RulesInHand
  BY DEF Init, HasAddress, WorksOnItsHosts, CopyIsGuarded, CopyIsCached, SnapIsCurrent, TargetIsUsed, RulesInHand
<1>8. PurgesItsOwn
  <2>1. \A c \in CFTunnels : CF(c).tid = NoID /\ purge[c] = Unlisted
    BY <1>2, <1>4 DEF Init, CF
  <2> QED
    BY <2>1 DEF PurgesItsOwn, Unlisted
<1>9. RecordsAreHome /\ RecordsAreWanted
  <2>1. \A h \in Hosts : zone[h] \in {NoID, Foreign}
    BY DEF Init
  <2> QED
    BY <1>4, <2>1, ConstantsAssumption DEF RecordsAreHome, RecordsAreWanted
<1> QED
  BY <1>3, <1>5, <1>6, <1>7, <1>8, <1>9, TypeInit DEF BaseInvariant

LEMMA BaseStep == ASSUME BaseInvariant, [Next]_vars PROVE BaseInvariant'
<1>1. TypeOK'
  <2>1. CASE UNCHANGED vars
    BY <2>1 DEF BaseInvariant, TypeOK, vars, worker, cloud
  <2> QED
    BY <2>1, TypeWorker, TypeUsers, TypeTunnelSteps DEF BaseInvariant, Next
<1>2. HasAddress' /\ WorksOnItsHosts' /\ IngressVersions' /\ CopyIsGuarded' /\ CopyIsCached'
  BY AddressStep, WorksStep, VersionsStep, CopyStep, CopyIsCachedStep DEF BaseInvariant
<1>3. TunnelVersions' /\ SnapIsCurrent' /\ UnreachedAreUntouched' /\ TargetIsUsed' /\ RulesInHand'
  BY TunnelsStep, SnapStep, UnreachedStep, TargetIsUsedStep, RulesStep DEF BaseInvariant
<1>4. RecordsAreHome' /\ RecordsAreWanted' /\ PurgesItsOwn'
  BY <1>1, RecordsStep, WantedStep, PurgesStep DEF BaseInvariant
<1> QED
  BY <1>1, <1>2, <1>3, <1>4 DEF BaseInvariant

\* In every reachable state Reconcile's locals, the versions in the caches, the tunnels,
\* the rules and the records fit together: the copy in hand is of an object that keeps
\* its finalizer, the configuration that was read is still the tunnel's, nothing leads
\* to a tunnel the cache does not show yet, a record leads to a tunnel that an Ingress
\* of its host may use (Reconcile and its helpers).
THEOREM BaseInvariantHolds == Spec => []BaseInvariant
BY BaseInit, BaseStep, PTL DEF Spec

\* Every variable keeps its type: among others Reconcile never writes a rule without
\* a load balancer address, which takes HasAddress (lines 126-133).
THEOREM TypeCorrect == Spec => []TypeOK
<1>1. BaseInvariant => TypeOK
  BY DEF BaseInvariant
<1> QED
  BY <1>1, BaseInvariantHolds, PTL

\* Each step changes the rules and records of the hosts of the Ingress in hand and
\* nobody else's, for any number of Ingresses, tunnels and hosts and whatever their
\* specifications share (lines 176-284).
THEOREM OnlyItsHosts == Spec => TouchesOnlyItsHosts
<1> DEFINE OnlyThose ==
      \A h \in Hosts \ copy.spec.hosts :
        /\ zone'[h] # zone[h] => \E c \in CFTunnels : h \in purge[c].left
        /\ \A t \in tunnels' : configs'[t][h] = configs[t][h]
<1>1. ASSUME BaseInvariant, [Next]_vars PROVE OnlyThose
  <2>a. /\ configs \in [TunnelIDs -> [Hosts -> Endpoints \cup {NoRule}]] /\ zone \in [Hosts -> Records]
        /\ tunnels \subseteq TunnelIDs
    BY <1>1 DEF BaseInvariant, TypeOK
  <2>1. CASE QuietStep
    BY <2>1 DEF QuietStep, cloud
  <2>2. CASE ConfigStep
    <3>1. snap = configs[target] /\ tunnels' = tunnels /\ UNCHANGED zone
      BY <1>1, <2>2 DEF ConfigStep, BaseInvariant, SnapIsCurrent
    <3>2. \A h \in Hosts \ copy.spec.hosts : NewConfig[h] = snap[h]
      BY DEF NewConfig
    <3> QED
      BY <2>a, <2>2, <3>1, <3>2 DEF ConfigStep
  <2>3. CASE ZoneStep
    <3>1. host \in copy.spec.hosts
      BY <1>1, <2>3 DEF ZoneStep, BaseInvariant, WorksOnItsHosts
    <3> QED
      BY <2>a, <2>3, <3>1 DEF ZoneStep
  <2>4. ASSUME NEW c \in CFTunnels, TunnelStep(c) PROVE OnlyThose
    <3>1. CASE DeleteRecord(c)
      BY <2>a, <3>1 DEF DeleteRecord
    <3>2. CASE DeleteTunnel(c)
      BY <2>a, <3>2 DEF DeleteTunnel
    <3>3. CASE UNCHANGED <<configs, zone>>
      BY <3>3
    <3> QED
      BY <2>4, <3>1, <3>2, <3>3
         DEF TunnelStep, CreateCF, DeleteCF, ObserveCF, RecordTunnel, ListRecords, cloud
  <2>5. ASSUME NEW t \in TunnelIDs, LossStep(t) PROVE OnlyThose
    BY <2>a, <2>5 DEF LossStep
  <2> QED
    BY <1>1, <2>1, <2>2, <2>3, <2>4, <2>5, WorldStepsOfNext DEF WorldSteps, BaseInvariant
<1>2. ASSUME BaseInvariant, [Next]_vars PROVE [OnlyThose]_vars
  BY <1>1, <1>2
<1> QED
  BY <1>2, BaseInvariantHolds, PTL DEF Spec, TouchesOnlyItsHosts
=============================================================================
