----------------------- MODULE TunnelControllerProofs -----------------------
(* Theorems about TunnelController, for every value of its constants. *)
EXTENDS TunnelController, VersionLogs

-----------------------------------------------------------------------------
(* Logs of versions *)

LEMMA ExtendLog ==
  ASSUME NEW S, NEW log \in Seq(S), Len(log) > 0, NEW v \in S
  PROVE  /\ Extend(log, v) \in Seq(S)
         /\ Len(Extend(log, v)) > 0
         /\ Extend(log, v)[Len(Extend(log, v))] = v
         /\ Elems(Extend(log, v)) = Elems(log) \cup {v}
<1>1. CASE v = log[Len(log)]
  <2>1. Len(log) \in 1..Len(log)
    OBVIOUS
  <2>2. v \in Elems(log)
    BY <1>1, <2>1 DEF Elems
  <2> QED
    BY <1>1, <2>2 DEF Extend
<1>2. CASE v # log[Len(log)]
  <2>1. Extend(log, v) = Append(log, v)
    BY <1>2 DEF Extend
  <2>2. Len(log) \in Nat
    OBVIOUS
  <2> QED
    BY <2>1, <2>2, AppendLog
<1> QED
  BY <1>1, <1>2

-----------------------------------------------------------------------------
(* Type correctness *)

LEMMA KidLog ==
  ASSUME NEW ks \in [Kinds -> Seq(Children)], \A k \in Kinds : Len(ks[k]) > 0,
         NEW k \in Kinds, NEW log \in Seq(Children), Len(log) > 0
  PROVE  LET new == [ks EXCEPT ![k] = log] IN
         new \in [Kinds -> Seq(Children)] /\ \A j \in Kinds : Len(new[j]) > 0
OBVIOUS

LEMMA RecordTypes ==
  /\ Absent \in CRs /\ Missing \in Children
  /\ \A cr \in CRs : [cr EXCEPT !.fin = TRUE] \in CRs /\ [cr EXCEPT !.phase = "deleting"] \in CRs
  /\ \A cr \in CRs, t \in IDs : [cr EXCEPT !.tid = t] \in CRs
  /\ \A cr \in CRs, c \in {"Available", "Unavailable", "Degraded"} : [cr EXCEPT !.cond = c] \in CRs
  /\ \A n \in Nat : [Absent EXCEPT !.phase = "live", !.uid = n] \in CRs
  /\ \A c \in Children, n \in Nat : [c EXCEPT !.owner = n] \in Children
  /\ \A c \in Children, b \in BOOLEAN : [c EXCEPT !.up = b] \in Children
BY DEF Absent, Missing, CRs, Children, IDs

\* The object with its new conditions is as before in everything else.
LEMMA Conditioned ==
  ASSUME copy \in CRs
  PROVE  LET cr == [copy EXCEPT !.cond = Condition]
         IN /\ cr \in CRs /\ cr.phase = copy.phase /\ cr.uid = copy.uid
            /\ cr.fin = copy.fin /\ cr.tid = copy.tid /\ cr.cond = Condition
<1>1. \A c : LET cr == [copy EXCEPT !.cond = c]
             IN /\ cr.phase = copy.phase /\ cr.uid = copy.uid
                /\ cr.fin = copy.fin /\ cr.tid = copy.tid /\ cr.cond = c
  BY DEF CRs
<1>2. Condition \in {"Available", "Unavailable", "Degraded"}
  BY DEF Condition
<1>3. [copy EXCEPT !.cond = Condition] \in CRs
  BY <1>2, RecordTypes
<1> QED
  BY <1>1, <1>3

ClusterOK ==
  /\ crs \in Seq(CRs) /\ Len(crs) > 0 /\ created \in 0..MaxCreations
  /\ recorded \subseteq TunnelIDs
  /\ kids \in [Kinds -> Seq(Children)] /\ \A k \in Kinds : Len(kids[k]) > 0

CloudOK ==
  /\ tunnels \subseteq TunnelIDs /\ issued \subseteq TunnelIDs /\ zone \in [Hosts -> IDs]

LocalsOK ==
  /\ queued \in BOOLEAN /\ pc \in PCs /\ copy \in CRs /\ fresh \in BOOLEAN
  /\ tid \in IDs /\ token \in IDs /\ todo \subseteq Hosts \cup {NoID}

LEMMA TypeParts == TypeOK <=> ClusterOK /\ CloudOK /\ LocalsOK /\ faults \in 0..MaxFaults
BY DEF TypeOK, ClusterOK, CloudOK, LocalsOK

LEMMA TypePartsNext ==
  ClusterOK' /\ CloudOK' /\ LocalsOK' /\ faults' \in 0..MaxFaults => TypeOK'
BY DEF TypeOK, ClusterOK, CloudOK, LocalsOK

LEMMA TypeInit == Init => TypeOK
<1> SUFFICES ASSUME Init PROVE TypeOK
  OBVIOUS
<1>1. <<Absent>> \in Seq(CRs) /\ Len(<<Absent>>) > 0
  BY SingletonLog, RecordTypes
<1>2. <<Missing>> \in Seq(Children) /\ Len(<<Missing>>) > 0
  BY SingletonLog, RecordTypes
<1>3. ClusterOK
  BY <1>1, <1>2, ConstantsAssumption DEF Init, ClusterOK
<1>4. CloudOK
  BY DEF Init, CloudOK, IDs
<1>5. LocalsOK
  BY RecordTypes DEF Init, LocalsOK, IDs, PCs
<1>6. faults \in 0..MaxFaults
  BY ConstantsAssumption DEF Init
<1> QED
  BY <1>3, <1>4, <1>5, <1>6, TypeParts

LEMMA ReturnType == ASSUME TypeOK, NEW b \in BOOLEAN, Return(b) PROVE LocalsOK'
BY RecordTypes DEF TypeOK, LocalsOK, Return, PCs, IDs

LEMMA StepType == ASSUME TypeOK, NEW p \in PCs, Step(p) PROVE LocalsOK'
BY DEF TypeOK, LocalsOK, Step

LEMMA WrittenType ==
  ASSUME TypeOK, NEW p \in PCs, NEW cr \in CRs, Written(cr, p) PROVE LocalsOK'
BY DEF TypeOK, LocalsOK, Written

LEMMA FaultType ==
  ASSUME TypeOK, NEW f, Fault(f) \/ UNCHANGED faults PROVE faults' \in 0..MaxFaults
BY ConstantsAssumption DEF TypeOK, Fault

\* What a write of the object leaves behind, whatever its outcome.
LEMMA PutType ==
  ASSUME TypeOK, NEW cr \in CRs,
         \/ /\ crs' = Extend(crs, cr) \/ crs' = Append(crs, cr)
            /\ recorded' = recorded \cup ({cr.tid} \ {NoID})
         \/ UNCHANGED <<crs, recorded>>,
         UNCHANGED <<created, kids, cloud>>
  PROVE  ClusterOK' /\ CloudOK'
<1>1. cr.tid \in IDs
  BY DEF CRs
<1>2. /\ Extend(crs, cr) \in Seq(CRs) /\ Len(Extend(crs, cr)) > 0
      /\ Append(crs, cr) \in Seq(CRs) /\ Len(Append(crs, cr)) > 0
  BY ExtendLog, AppendLog DEF TypeOK
<1>3. ClusterOK'
  BY <1>1, <1>2 DEF TypeOK, ClusterOK, IDs
<1>4. CloudOK'
  BY DEF TypeOK, CloudOK, cloud
<1> QED
  BY <1>3, <1>4

LEMMA KidType ==
  ASSUME TypeOK, NEW k \in Kinds, NEW log \in Seq(Children), Len(log) > 0,
         UNCHANGED kids \/ kids' = [kids EXCEPT ![k] = log],
         UNCHANGED <<crs, created, recorded, cloud>>
  PROVE  ClusterOK' /\ CloudOK'
<1>a. kids' \in [Kinds -> Seq(Children)] /\ \A j \in Kinds : Len(kids'[j]) > 0
  <2>1. kids \in [Kinds -> Seq(Children)] /\ \A j \in Kinds : Len(kids[j]) > 0
    BY DEF TypeOK
  <2>2. CASE UNCHANGED kids
    BY <2>1, <2>2
  <2>3. CASE kids' = [kids EXCEPT ![k] = log]
    BY <2>1, <2>3, KidLog
  <2> QED
    BY <2>2, <2>3
<1>b. UNCHANGED <<crs, created, recorded>>
  OBVIOUS
<1>1. ClusterOK'
  BY <1>a, <1>b DEF TypeOK, ClusterOK
<1>2. CloudOK'
  BY DEF TypeOK, CloudOK, cloud
<1> QED
  BY <1>1, <1>2

LEMMA SameWorldType ==
  ASSUME TypeOK, UNCHANGED <<cluster, cloud>> PROVE ClusterOK' /\ CloudOK'
BY DEF TypeOK, ClusterOK, CloudOK, cluster, cloud

LEMMA TypeReconcile ==
  ASSUME TypeOK,
         Get \/ AddFinalizer \/ ReconcileTunnel \/ LookupToken \/ CreateTunnel \/ FetchToken
           \/ ReconcileSecret \/ RecordTunnel \/ ReconcileChildren \/ UpdateStatus
  PROVE  TypeOK'
<1>a. crs[1] \in CRs /\ \A k \in Kinds : Cached(k) \in Children /\ Stored(k) \in Children
  BY LogElems DEF TypeOK, Cached, Stored
<1>b. copy.tid \in IDs /\ copy.uid \in Nat
  BY DEF TypeOK, CRs
<1>1. CASE Get
  <2>1. LocalsOK'
    BY <1>1, <1>a DEF Get, TypeOK, LocalsOK, PCs
  <2> QED
    BY <1>1, <2>1, SameWorldType, TypePartsNext, FaultType DEF Get
<1>2. CASE AddFinalizer
  <2> DEFINE cr == [copy EXCEPT !.fin = TRUE]
  <2>1. cr \in CRs
    BY RecordTypes DEF TypeOK
  <2>2. ClusterOK' /\ CloudOK'
    BY <1>2, <2>1, PutType DEF AddFinalizer, Put, PutAs, Call
  <2>3. Written(cr, "tunnel") \/ Return(TRUE)
    BY <1>2 DEF AddFinalizer, Put, PutAs, Call
  <2>4. LocalsOK'
    BY <2>1, <2>3, WrittenType, ReturnType DEF PCs
  <2>5. faults' \in 0..MaxFaults
    BY <1>2, FaultType DEF AddFinalizer, Put, PutAs, Call
  <2> QED
    BY <2>2, <2>4, <2>5, TypePartsNext
<1>3. CASE ReconcileTunnel
  <2>1. Cached("Secret").token \in IDs
    BY <1>a DEF Children, Kinds
  <2>2. LocalsOK'
    BY <1>3, <1>b, <2>1 DEF ReconcileTunnel, TypeOK, LocalsOK, PCs
  <2> QED
    BY <1>3, <2>2, SameWorldType, TypePartsNext, FaultType DEF ReconcileTunnel
<1>4. CASE LookupToken
  <2>1. LocalsOK'
    BY <1>4 DEF LookupToken, Call, Fetched, Step, TypeOK, LocalsOK, PCs
  <2>2. faults' \in 0..MaxFaults
    BY <1>4, FaultType DEF LookupToken, Call
  <2> QED
    BY <1>4, <2>1, <2>2, SameWorldType, TypePartsNext DEF LookupToken
<1>5. CASE CreateTunnel
  <2>1. LocalsOK'
    BY <1>5 DEF CreateTunnel, Call, Step, TypeOK, LocalsOK, PCs, IDs
  <2>2. ClusterOK'
    BY <1>5 DEF CreateTunnel, TypeOK, ClusterOK, cluster
  <2>3. CloudOK'
    BY <1>5 DEF CreateTunnel, Call, TypeOK, CloudOK
  <2>4. faults' \in 0..MaxFaults
    BY <1>5, FaultType DEF CreateTunnel, Call
  <2> QED
    BY <2>1, <2>2, <2>3, <2>4, TypePartsNext
<1>6. CASE FetchToken
  <2>1. LocalsOK'
    BY <1>6 DEF FetchToken, Call, Fetched, Step, TypeOK, LocalsOK, PCs
  <2>2. faults' \in 0..MaxFaults
    BY <1>6, FaultType DEF FetchToken, Call
  <2> QED
    BY <1>6, <2>1, <2>2, SameWorldType, TypePartsNext DEF FetchToken
<1>7. ASSUME NEW k \in Kinds, NEW child \in Children, NEW next \in PCs, Apply(k, child, next)
      PROVE  TypeOK'
  <2>1. kids[k] \in Seq(Children) /\ Len(kids[k]) > 0
    BY DEF TypeOK
  <2>2. Extend(kids[k], child) \in Seq(Children) /\ Len(Extend(kids[k], child)) > 0
    BY <2>1, ExtendLog
  <2>3. \/ UNCHANGED kids
        \/ kids' = [kids EXCEPT ![k] = Extend(kids[k], child)]
    BY <1>7 DEF Apply, Call
  <2>4. ClusterOK' /\ CloudOK'
    BY <1>7, <2>2, <2>3, KidType DEF Apply
  <2>5. Step(next) \/ Step("failed")
    BY <1>7 DEF Apply, Call
  <2>6. LocalsOK'
    BY <2>5, StepType DEF PCs
  <2>7. faults' \in 0..MaxFaults
    BY <1>7, FaultType DEF Apply, Call
  <2> QED
    BY <2>4, <2>6, <2>7, TypePartsNext
<1>8. CASE ReconcileSecret
  <2>1. [owner |-> copy.uid, token |-> token, up |-> FALSE] \in Children
    BY <1>b DEF Children, TypeOK
  <2> QED
    BY <1>8, <1>7, <2>1 DEF ReconcileSecret, Kinds, PCs
<1>9. CASE RecordTunnel
  <2> DEFINE cr == [copy EXCEPT !.tid = tid]
  <2>1. cr \in CRs
    BY RecordTypes DEF TypeOK
  <2>2. ClusterOK' /\ CloudOK'
    BY <1>9, <2>1, PutType DEF RecordTunnel, Put, PutAs, Call
  <2>3. Written(cr, "Deployment") \/ Return(TRUE)
    BY <1>9 DEF RecordTunnel, Put, PutAs, Call
  <2>4. LocalsOK'
    BY <2>1, <2>3, WrittenType, ReturnType DEF PCs
  <2>5. faults' \in 0..MaxFaults
    BY <1>9, FaultType DEF RecordTunnel, Put, PutAs, Call
  <2> QED
    BY <2>2, <2>4, <2>5, TypePartsNext
<1>10. ASSUME NEW k \in Kinds, NEW next \in PCs, ApplyWorkload(k, next) PROVE TypeOK'
  <2>1. [Stored(k) EXCEPT !.owner = copy.uid] \in Children
    BY <1>a, <1>b, RecordTypes
  <2>2. CASE Step(next) /\ UNCHANGED <<faults, cluster, cloud>>
    BY <2>2, StepType, SameWorldType, FaultType, TypePartsNext
  <2>3. CASE Apply(k, [Stored(k) EXCEPT !.owner = copy.uid], next)
    BY <2>1, <2>3, <1>7
  <2> QED
    BY <1>10, <2>2, <2>3 DEF ApplyWorkload
<1>11. ASSUME NEW k \in Kinds, NEW next \in PCs, EnsureOptional(k, next) PROVE TypeOK'
  <2> DEFINE child == [Missing EXCEPT !.owner = copy.uid]
  <2>1. child \in Children
    BY <1>b, RecordTypes
  <2>2. kids[k] \in Seq(Children) /\ Len(kids[k]) > 0
    BY DEF TypeOK
  <2>3. Extend(kids[k], child) \in Seq(Children) /\ Len(Extend(kids[k], child)) > 0
    BY <2>1, <2>2, ExtendLog
  <2>4. \/ UNCHANGED kids
        \/ kids' = [kids EXCEPT ![k] = Extend(kids[k], child)]
    BY <1>11 DEF EnsureOptional, Call
  <2>5. ClusterOK' /\ CloudOK'
    BY <1>11, <2>3, <2>4, KidType DEF EnsureOptional
  <2>6. Step(next) \/ Step("failed")
    BY <1>11 DEF EnsureOptional, Call
  <2>7. LocalsOK'
    BY <2>6, StepType DEF PCs
  <2>8. faults' \in 0..MaxFaults
    BY <1>11, FaultType DEF EnsureOptional, Call
  <2> QED
    BY <2>5, <2>7, <2>8, TypePartsNext
<1>12. CASE ReconcileChildren
  BY <1>12, <1>10, <1>11 DEF ReconcileChildren, Kinds, PCs
<1>13. CASE UpdateStatus
  <2> DEFINE cr == [copy EXCEPT !.cond = Condition]
  <2>1. cr \in CRs
    BY Conditioned DEF TypeOK
  <2>2. ClusterOK' /\ CloudOK'
    BY <1>13, <2>1, PutType, SameWorldType DEF UpdateStatus, Restamped, PutAs, Call
  <2>3. \E b \in BOOLEAN : Return(b)
    BY <1>13 DEF UpdateStatus, Restamped, PutAs, Call
  <2>4. LocalsOK'
    BY <2>3, ReturnType
  <2>5. faults' \in 0..MaxFaults
    BY <1>13, FaultType DEF UpdateStatus, Restamped, PutAs, Call
  <2> QED
    BY <2>2, <2>4, <2>5, TypePartsNext
<1> QED
  BY <1>1, <1>2, <1>3, <1>4, <1>5, <1>6, <1>8, <1>9, <1>12, <1>13

LEMMA TypeDelete ==
  ASSUME TypeOK, ListRecords \/ DeleteRecord \/ DeleteTunnel \/ RemoveFinalizer
  PROVE  TypeOK'
<1>1. CASE ListRecords
  <2>1. LocalsOK'
    BY <1>1, ReturnType
       DEF ListRecords, Call, Published, TypeOK, LocalsOK, PCs
  <2>2. faults' \in 0..MaxFaults
    BY <1>1, FaultType DEF ListRecords, Call
  <2> QED
    BY <1>1, <2>1, <2>2, SameWorldType, TypePartsNext DEF ListRecords
<1>2. CASE DeleteRecord
  <2>1. LocalsOK'
    BY <1>2, ReturnType DEF DeleteRecord, Call, TypeOK, LocalsOK, PCs
  <2>2. ClusterOK'
    BY <1>2 DEF DeleteRecord, TypeOK, ClusterOK, cluster
  <2>3. CloudOK'
    BY <1>2 DEF DeleteRecord, Call, TypeOK, CloudOK, IDs
  <2>4. faults' \in 0..MaxFaults
    BY <1>2, FaultType DEF DeleteRecord, Call
  <2> QED
    BY <2>1, <2>2, <2>3, <2>4, TypePartsNext
<1>3. CASE DeleteTunnel
  <2>1. LocalsOK'
    BY <1>3, ReturnType, StepType DEF DeleteTunnel, Call, PCs
  <2>2. ClusterOK'
    BY <1>3 DEF DeleteTunnel, TypeOK, ClusterOK, cluster
  <2>3. CloudOK'
    BY <1>3 DEF DeleteTunnel, Call, TypeOK, CloudOK
  <2>4. faults' \in 0..MaxFaults
    BY <1>3, FaultType DEF DeleteTunnel, Call
  <2> QED
    BY <2>1, <2>2, <2>3, <2>4, TypePartsNext
<1>4. CASE RemoveFinalizer
  <2>1. ClusterOK' /\ CloudOK'
    BY <1>4, RecordTypes, PutType DEF RemoveFinalizer, Put, PutAs, Call
  <2>2. LocalsOK'
    BY <1>4, ReturnType DEF RemoveFinalizer, Put, PutAs, Call
  <2>3. faults' \in 0..MaxFaults
    BY <1>4, FaultType DEF RemoveFinalizer, Put, PutAs, Call
  <2> QED
    BY <2>1, <2>2, <2>3, TypePartsNext
<1> QED
  BY <1>1, <1>2, <1>3, <1>4

LEMMA TypeEnvironment == ASSUME TypeOK, Environment PROVE TypeOK'
<1>a. Api \in CRs /\ \A k \in Kinds : Stored(k) \in Children
  BY LogElems DEF TypeOK, Api, Stored
<1>1. ASSUME NEW cr \in CRs, Store(cr), created' \in 0..MaxCreations,
             faults' \in 0..MaxFaults
      PROVE  TypeOK'
  <2>1. Append(crs, cr) \in Seq(CRs) /\ Len(Append(crs, cr)) > 0
    BY AppendLog DEF TypeOK
  <2>2. ClusterOK'
    BY <1>1, <2>1 DEF Store, TypeOK, ClusterOK
  <2>3. CloudOK'
    BY <1>1 DEF Store, TypeOK, CloudOK, cloud
  <2>4. LocalsOK'
    BY <1>1 DEF Store, TypeOK, LocalsOK
  <2> QED
    BY <1>1, <2>2, <2>3, <2>4, TypePartsNext
<1>2. ASSUME NEW k \in Kinds, NEW child \in Children, SetKid(k, child), faults' \in 0..MaxFaults
      PROVE  TypeOK'
  <2>1. kids[k] \in Seq(Children) /\ Len(kids[k]) > 0
    BY DEF TypeOK
  <2>2. Append(kids[k], child) \in Seq(Children) /\ Len(Append(kids[k], child)) > 0
    BY <2>1, AppendLog
  <2>3. ClusterOK' /\ CloudOK'
    BY <1>2, <2>2, KidType DEF SetKid
  <2>4. LocalsOK'
    BY <1>2 DEF SetKid, TypeOK, LocalsOK, locals
  <2> QED
    BY <1>2, <2>3, <2>4, TypePartsNext
<1>3. CASE CreateCR
  <2>1. created' \in 0..MaxCreations /\ created' \in Nat
    BY <1>3, ConstantsAssumption DEF CreateCR, TypeOK
  <2>2. faults' \in 0..MaxFaults
    BY <1>3, FaultType DEF CreateCR
  <2> QED
    BY <1>1, <1>3, <2>1, <2>2, RecordTypes DEF CreateCR
<1>4. CASE EditCR
  <2>1. created' \in 0..MaxCreations /\ faults' \in 0..MaxFaults
    BY <1>4, FaultType DEF EditCR, TypeOK
  <2> QED
    BY <1>1, <1>4, <1>a, <2>1 DEF EditCR
<1>5. CASE DeleteCR
  <2>1. created' \in 0..MaxCreations /\ faults' \in 0..MaxFaults
    BY <1>5, FaultType DEF DeleteCR, TypeOK
  <2>2. (IF Api.fin THEN [Api EXCEPT !.phase = "deleting"] ELSE Absent) \in CRs
    BY <1>a, RecordTypes
  <2> QED
    BY <1>1, <1>5, <2>1, <2>2 DEF DeleteCR
<1>6. CASE ObserveCR
  <2>1. Tail(crs) \in Seq(CRs) /\ Len(Tail(crs)) > 0
    BY <1>6, TailLog DEF ObserveCR, TypeOK
  <2>2. ClusterOK' /\ CloudOK'
    BY <1>6, <2>1 DEF ObserveCR, TypeOK, ClusterOK, CloudOK, cloud
  <2>3. LocalsOK' /\ faults' \in 0..MaxFaults
    BY <1>6 DEF ObserveCR, TypeOK, LocalsOK, locals
  <2> QED
    BY <2>2, <2>3, TypePartsNext
<1>7. ASSUME NEW k \in Kinds, ObserveKid(k) PROVE TypeOK'
  <2>1. Tail(kids[k]) \in Seq(Children) /\ Len(Tail(kids[k])) > 0
    BY <1>7, TailLog DEF ObserveKid, TypeOK
  <2>2. ClusterOK' /\ CloudOK'
    BY <1>7, <2>1, KidType DEF ObserveKid
  <2>3. LocalsOK' /\ faults' \in 0..MaxFaults
    BY <1>7 DEF ObserveKid, TypeOK, LocalsOK, locals
  <2> QED
    BY <2>2, <2>3, TypePartsNext
<1>8. ASSUME NEW k \in Kinds, CollectKid(k) \/ LoseKid(k) PROVE TypeOK'
  <2>1. faults' \in 0..MaxFaults
    BY <1>8, FaultType DEF CollectKid, LoseKid
  <2> QED
    BY <1>2, <1>8, <2>1, RecordTypes DEF CollectKid, LoseKid
<1>9. CASE DeploymentUp \/ DeploymentDown
  <2>1. faults' \in 0..MaxFaults
    BY <1>9, FaultType DEF DeploymentUp, DeploymentDown
  <2>2. \A b \in BOOLEAN : [Stored("Deployment") EXCEPT !.up = b] \in Children
    BY <1>a, RecordTypes DEF Kinds
  <2> QED
    BY <1>2, <1>9, <2>1, <2>2 DEF DeploymentUp, DeploymentDown, Kinds
<1>10. CASE LoseTunnel
  <2>1. faults' \in 0..MaxFaults
    BY <1>10, FaultType DEF LoseTunnel
  <2>2. ClusterOK' /\ CloudOK' /\ LocalsOK'
    BY <1>10 DEF LoseTunnel, TypeOK, ClusterOK, CloudOK, LocalsOK, cluster, locals
  <2> QED
    BY <2>1, <2>2, TypePartsNext
<1>11. CASE Restart
  <2>1. faults' \in 0..MaxFaults
    BY <1>11, FaultType DEF Restart
  <2> QED
    BY <1>11, <2>1, ReturnType, SameWorldType, TypePartsNext DEF Restart
<1>12. ASSUME NEW h \in Hosts, Publish(h) \/ Withdraw(h) PROVE TypeOK'
  <2>1. faults' \in 0..MaxFaults
    BY <1>12, FaultType DEF Publish, Withdraw
  <2>2. CloudOK'
    BY <1>12 DEF Publish, Withdraw, TypeOK, CloudOK, IDs
  <2>3. ClusterOK'
    BY <1>12 DEF Publish, Withdraw, TypeOK, ClusterOK, cluster
  <2>4. todo' \subseteq Hosts \cup {NoID}
    BY <1>12 DEF Publish, Withdraw, TypeOK, locals
  <2>5. LocalsOK'
    BY <1>12, <2>4 DEF Publish, Withdraw, TypeOK, LocalsOK, locals
  <2> QED
    BY <2>1, <2>2, <2>3, <2>5, TypePartsNext
<1> QED
  BY <1>3, <1>4, <1>5, <1>6, <1>7, <1>8, <1>9, <1>10, <1>11, <1>12 DEF Environment

LEMMA TypeNext == TypeOK /\ [Next]_vars => TypeOK'
<1> SUFFICES ASSUME TypeOK, [Next]_vars PROVE TypeOK'
  OBVIOUS
<1>1. CASE Worker
  BY <1>1, TypeReconcile, TypeDelete DEF Worker
<1>2. CASE Environment
  BY <1>2, TypeEnvironment
<1>3. CASE UNCHANGED vars
  BY <1>3 DEF TypeOK, vars, cluster, cloud, locals
<1> QED
  BY <1>1, <1>2, <1>3 DEF Next

\* Every variable keeps its type; caches are never empty (the reads of Reconcile
\* and updateStatus are defined).
THEOREM TypeCorrect == Spec => []TypeOK
BY TypeInit, TypeNext, PTL DEF Spec

-----------------------------------------------------------------------------
(* The inductive invariant *)

LEMMA VersionsElems == Versions = Elems(crs) \cup {copy} /\ Versions' = Elems(crs') \cup {copy'}
BY DEF Versions, Elems

\* How the stored object and the versions in sight change with the log.
LEMMA Unwritten ==
  ASSUME TypeOK, UNCHANGED crs \/ (Len(crs) > 1 /\ crs' = Tail(crs)),
         copy' \in Versions \cup {crs[1], Absent}
  PROVE  Api' = Api /\ Versions' \subseteq Versions \cup {Absent}
<1>1. crs \in Seq(CRs) /\ Len(crs) > 0
  BY DEF TypeOK
<1>2. crs'[Len(crs')] = crs[Len(crs)] /\ Elems(crs') \subseteq Elems(crs)
  BY <1>1, TailLog
<1>3. crs[1] \in Elems(crs)
  BY <1>1, LogElems
<1> QED
  BY <1>2, <1>3, VersionsElems DEF Api

LEMMA Rewritten ==
  ASSUME TypeOK, NEW cr \in CRs, crs' = Extend(crs, cr) \/ crs' = Append(crs, cr),
         copy' \in {copy, cr, Absent}
  PROVE  Api' = cr /\ Versions' \subseteq Versions \cup {cr, Absent}
<1>1. crs \in Seq(CRs) /\ Len(crs) > 0
  BY DEF TypeOK
<1>2. crs'[Len(crs')] = cr /\ Elems(crs') = Elems(crs) \cup {cr}
  <2>1. CASE crs' = Extend(crs, cr)
    <3>1. /\ Extend(crs, cr)[Len(Extend(crs, cr))] = cr
          /\ Elems(Extend(crs, cr)) = Elems(crs) \cup {cr}
      BY <1>1, ExtendLog
    <3> QED
      BY <2>1, <3>1, Zenon
  <2>2. CASE crs' = Append(crs, cr)
    BY <1>1, <2>2, AppendLog
  <2> QED
    BY <2>1, <2>2
<1> QED
  BY <1>2, VersionsElems DEF Api

LEMMA ApiVersion == ASSUME TypeOK PROVE Api \in Versions /\ Api \in CRs /\ crs[1] \in Versions
BY LogElems, VersionsElems DEF TypeOK, Api

LEMMA KeepVersions ==
  ASSUME Invariant, Api' = Api, recorded' = recorded, Versions' \subseteq Versions \cup {Absent}
  PROVE  VersionsOK' /\ DeletingOK'
BY DEF Invariant, VersionsOK, DeletingOK, Absent

LEMMA WriteVersions ==
  ASSUME Invariant, NEW cr \in CRs, Api' = cr, Versions' \subseteq Versions \cup {cr, Absent},
         recorded \cup ({cr.tid} \ {NoID}) \subseteq recorded',
         ~cr.fin => cr.tid = NoID /\ cr.phase # "deleting",
         cr.phase = "absent" => cr.tid = NoID,
         \/ cr.phase = "deleting" \/ cr.tid = NoID \/ cr.tid \notin recorded
         \/ cr.tid = Api.tid /\ cr.phase = Api.phase
  PROVE  VersionsOK' /\ DeletingOK'
<1>1. VersionsOK'
  BY DEF Invariant, VersionsOK, Absent
<1>2. DeletingOK'
  BY DEF Invariant, VersionsOK, DeletingOK, Absent
<1> QED
  BY <1>1, <1>2

LEMMA InvariantInit == Init => Invariant
<1> SUFFICES ASSUME Init PROVE Invariant
  OBVIOUS
<1>1. Versions = {Absent} /\ Api = Absent
  BY DEF Init, Versions, Api
<1> QED
  BY <1>1 DEF Init, Invariant, VersionsOK, DeletingOK, CopyOK, TunnelStepOK, NoRecordedLeak, Absent

\* Steps of Reconcile that store nothing.
LEMMA InvariantReads ==
  ASSUME TypeOK, Invariant,
         Get \/ ReconcileTunnel \/ LookupToken \/ FetchToken \/ ReconcileSecret \/ ReconcileChildren
           \/ ListRecords \/ DeleteRecord
  PROVE  Invariant'
<1> USE DEF cluster, cloud
<1>a. UNCHANGED <<crs, recorded, tunnels, issued>>
  BY DEF Get, ReconcileTunnel, LookupToken, FetchToken, ReconcileSecret, ReconcileChildren,
         ApplyWorkload, EnsureOptional, Apply, ListRecords, DeleteRecord
<1>b. copy' \in Versions \cup {crs[1], Absent}
  BY DEF Versions, Get, ReconcileTunnel, LookupToken, FetchToken, ReconcileSecret,
         ReconcileChildren, ApplyWorkload, EnsureOptional, Apply, ListRecords, DeleteRecord,
         Call, Step, Fetched, Return
<1>c. Api' = Api /\ Versions' \subseteq Versions \cup {Absent}
  BY <1>a, <1>b, Unwritten
<1>d. VersionsOK' /\ DeletingOK' /\ NoRecordedLeak'
  BY <1>a, <1>c, KeepVersions DEF Invariant, NoRecordedLeak
<1>e. recorded' \cup tunnels' \subseteq issued'
  BY <1>a DEF Invariant, TunnelStepOK
<1>1. CASE Get
  <2>1. crs[1] \in Versions /\ (Len(crs) = 1 => crs[1] = Api)
    BY LogElems, ApiVersion DEF TypeOK, Api
  <2>2. CopyOK'
    BY <1>1, <1>c, <2>1 DEF Get, Invariant, CopyOK, VersionsOK
  <2>3. TunnelStepOK'
    BY <1>1, <1>e DEF Get, TunnelStepOK
  <2> QED
    BY <1>d, <2>2, <2>3 DEF Invariant
<1>2. CASE ReconcileTunnel
  <2>1. CopyOK'
    BY <1>2, <1>c DEF ReconcileTunnel, Invariant, CopyOK
  <2>2. TunnelStepOK'
    BY <1>2, <1>a, <1>e, ConstantsAssumption
       DEF ReconcileTunnel, Invariant, TunnelStepOK, CopyOK, VersionsOK, Versions, TypeOK
  <2> QED
    BY <1>d, <2>1, <2>2 DEF Invariant
<1>3. CASE LookupToken
  <2>1. CopyOK'
    BY <1>3, <1>c DEF LookupToken, Call, Fetched, Step, Invariant, CopyOK
  <2>2. TunnelStepOK'
    BY <1>3, <1>a, <1>e DEF LookupToken, Call, Fetched, Step, Invariant, TunnelStepOK
  <2> QED
    BY <1>d, <2>1, <2>2 DEF Invariant
<1>4. CASE FetchToken
  <2>1. CopyOK'
    BY <1>4, <1>c DEF FetchToken, Call, Fetched, Step, Invariant, CopyOK
  <2>2. TunnelStepOK'
    BY <1>4, <1>a, <1>e DEF FetchToken, Call, Fetched, Step, Invariant, TunnelStepOK
  <2> QED
    BY <1>d, <2>1, <2>2 DEF Invariant
<1>5. CASE ReconcileSecret \/ ReconcileChildren
  <2>1. /\ pc \in {"secret", "Deployment", "Service", "ServiceMonitor", "PDB"}
        /\ pc' \in {"record", "Service", "ServiceMonitor", "PDB", "status", "failed"}
        /\ pc' = "record" => pc = "secret"
        /\ UNCHANGED <<copy, fresh, tid>>
    BY <1>5 DEF ReconcileSecret, ReconcileChildren, ApplyWorkload, EnsureOptional, Apply, Call, Step
  <2>2. CopyOK'
    BY <1>c, <2>1 DEF Invariant, CopyOK
  <2>3. TunnelStepOK'
    BY <1>a, <1>e, <2>1 DEF Invariant, TunnelStepOK
  <2> QED
    BY <1>d, <2>2, <2>3 DEF Invariant
<1>6. CASE ListRecords \/ DeleteRecord
  <2>1. \/ pc \in {"purge", "unpublish"} /\ pc' \in {"unpublish", "delete"} /\ UNCHANGED <<copy, fresh>>
        \/ pc' = "idle" /\ ~fresh'
    BY <1>6 DEF ListRecords, DeleteRecord, Call, Return
  <2>2. CopyOK'
    BY <1>c, <2>1 DEF Invariant, CopyOK
  <2>3. TunnelStepOK'
    BY <1>e, <2>1 DEF TunnelStepOK
  <2> QED
    BY <1>d, <2>2, <2>3 DEF Invariant
<1> QED
  BY <1>1, <1>2, <1>3, <1>4, <1>5, <1>6

\* Writes of the object: they succeed only on the version that was read.
LEMMA InvariantWrites ==
  ASSUME TypeOK, Invariant, AddFinalizer \/ RecordTunnel \/ UpdateStatus \/ RemoveFinalizer
  PROVE  Invariant'
<1> USE DEF cluster, cloud
<1>1. UNCHANGED <<tunnels, issued>>
  BY DEF AddFinalizer, RecordTunnel, UpdateStatus, RemoveFinalizer, Put, PutAs
<1>2. ASSUME UNCHANGED <<crs, recorded>>, \E b \in BOOLEAN : Return(b) PROVE Invariant'
  <2>1. Api' = Api /\ Versions' \subseteq Versions \cup {Absent}
    BY <1>2, Unwritten DEF Return
  <2>2. VersionsOK' /\ DeletingOK'
    BY <1>2, <2>1, KeepVersions
  <2>3. CopyOK' /\ TunnelStepOK' /\ NoRecordedLeak'
    BY <1>1, <1>2, <2>1 DEF Return, Invariant, CopyOK, TunnelStepOK, NoRecordedLeak
  <2> QED
    BY <2>2, <2>3 DEF Invariant
<1>3. ASSUME NEW cr \in CRs, fresh, crs' = Extend(crs, cr) \/ crs' = Append(crs, cr),
             recorded' = recorded \cup ({cr.tid} \ {NoID}),
             \/ \E b \in BOOLEAN : Return(b)
             \/ pc = "finalizer" /\ cr.fin /\ Written(cr, "tunnel")
             \/ pc = "record" /\ cr.fin /\ Written(cr, "Deployment"),
             cr.tid \in issued \cup {NoID},
             ~cr.fin => cr.tid = NoID /\ cr.phase # "deleting",
             cr.phase = "absent" => cr.tid = NoID,
             pc \in {"finalizer", "record"} => cr.phase = "live",
             \/ cr.tid = NoID \/ cr.tid \notin recorded
             \/ cr.tid = Api.tid /\ cr.phase = Api.phase,
             Api.tid \notin tunnels \/ cr.tid = Api.tid
      PROVE  Invariant'
  <2>1. copy' \in {cr, Absent}
    BY <1>3 DEF Return, Written
  <2>2. Api' = cr /\ Versions' \subseteq Versions \cup {cr, Absent}
    BY <1>3, <2>1, Rewritten
  <2>3. VersionsOK' /\ DeletingOK'
    BY <1>3, <2>2, WriteVersions
  <2>4. CopyOK'
    BY <1>3, <2>2 DEF Return, Written, Invariant, CopyOK
  <2>5. TunnelStepOK'
    BY <1>1, <1>3 DEF Return, Written, Invariant, TunnelStepOK
  <2>6. NoRecordedLeak'
    BY <1>1, <1>3, <2>2 DEF Invariant, NoRecordedLeak
  <2> QED
    BY <2>3, <2>4, <2>5, <2>6 DEF Invariant
<1>4. fresh => copy = Api
  BY DEF Invariant, CopyOK
<1>5. /\ copy.tid \in issued \cup {NoID}
      /\ ~copy.fin => copy.tid = NoID /\ copy.phase # "deleting"
      /\ copy.phase = "absent" => copy.tid = NoID
  BY DEF Invariant, VersionsOK, Versions, TunnelStepOK
<1>6. CASE AddFinalizer
  <2> DEFINE cr == [copy EXCEPT !.fin = TRUE]
  <2>1. cr \in CRs /\ cr.fin /\ cr.tid = copy.tid /\ cr.phase = copy.phase /\ copy.phase = "live"
    BY <1>6, RecordTypes DEF AddFinalizer, TypeOK, CRs, Invariant, CopyOK
  <2>2. \/ UNCHANGED <<crs, recorded>> /\ Return(TRUE)
        \/ /\ fresh /\ crs' = Extend(crs, cr) /\ recorded' = recorded \cup ({cr.tid} \ {NoID})
           /\ pc = "finalizer" /\ (Written(cr, "tunnel") \/ Return(TRUE))
    BY <1>6 DEF AddFinalizer, Put, PutAs, Call
  <2> QED
    BY <1>2, <1>3, <1>4, <1>5, <2>1, <2>2
<1>7. CASE RecordTunnel
  <2> DEFINE cr == [copy EXCEPT !.tid = tid]
  <2>1. cr \in CRs /\ cr.fin = copy.fin /\ cr.tid = tid /\ cr.phase = copy.phase
    BY RecordTypes DEF TypeOK, CRs
  <2>2. /\ pc = "record" /\ copy.phase = "live" /\ copy.fin /\ tid \in issued
        /\ tid = copy.tid \/ (tid \notin recorded /\ copy.tid \notin tunnels)
    BY <1>7 DEF RecordTunnel, Invariant, CopyOK, TunnelStepOK
  <2>3. \/ UNCHANGED <<crs, recorded>> /\ Return(TRUE)
        \/ /\ fresh /\ crs' = Extend(crs, cr) /\ recorded' = recorded \cup ({cr.tid} \ {NoID})
           /\ Written(cr, "Deployment") \/ Return(TRUE)
    BY <1>7 DEF RecordTunnel, Put, PutAs, Call
  <2> QED
    BY <1>2, <1>3, <1>4, <2>1, <2>2, <2>3
<1>8. CASE UpdateStatus
  <2> DEFINE cr == [copy EXCEPT !.cond = Condition]
  <2>1. cr \in CRs /\ cr.fin = copy.fin /\ cr.tid = copy.tid /\ cr.phase = copy.phase
    BY Conditioned DEF TypeOK
  <2>2. pc \notin {"finalizer", "record"}
    BY <1>8 DEF UpdateStatus
  <2>3. \E b \in BOOLEAN : Return(b)
    BY <1>8 DEF UpdateStatus, Restamped, PutAs, Call
  <2>4. \/ UNCHANGED <<crs, recorded>>
        \/ /\ fresh /\ recorded' = recorded \cup ({cr.tid} \ {NoID})
           /\ crs' = Extend(crs, cr) \/ crs' = Append(crs, cr)
    BY <1>8 DEF UpdateStatus, Restamped, PutAs, Call
  <2> QED
    BY <1>2, <1>3, <1>4, <1>5, <2>1, <2>2, <2>3, <2>4
<1>9. CASE RemoveFinalizer
  <2>1. copy.tid \notin tunnels /\ pc \notin {"finalizer", "record"}
    BY <1>9 DEF RemoveFinalizer, Invariant, TunnelStepOK
  <2>2. Absent \in CRs /\ Absent.tid = NoID /\ Absent.phase = "absent" /\ ~Absent.fin
    BY RecordTypes DEF Absent
  <2>3. \E b \in BOOLEAN : Return(b)
    BY <1>9 DEF RemoveFinalizer, Put, PutAs, Call
  <2>4. \/ UNCHANGED <<crs, recorded>>
        \/ fresh /\ crs' = Extend(crs, Absent) /\ recorded' = recorded \cup ({Absent.tid} \ {NoID})
    BY <1>9 DEF RemoveFinalizer, Put, PutAs, Call
  <2> QED
    BY <1>2, <1>3, <1>4, <2>1, <2>2, <2>3, <2>4
<1> QED
  BY <1>6, <1>7, <1>8, <1>9

LEMMA InvariantTunnels ==
  ASSUME TypeOK, Invariant, CreateTunnel \/ DeleteTunnel PROVE Invariant'
<1> USE DEF cluster
<1>1. UNCHANGED <<crs, recorded>> /\ copy' \in {copy, Absent}
  BY DEF CreateTunnel, DeleteTunnel, Call, Step, Return
<1>2. Api' = Api /\ Versions' \subseteq Versions \cup {Absent}
  BY <1>1, Unwritten DEF Versions
<1>3. VersionsOK' /\ DeletingOK'
  BY <1>1, <1>2, KeepVersions
<1>4. CASE CreateTunnel
  <2>1. CopyOK'
    BY <1>2, <1>4 DEF CreateTunnel, Call, Step, Invariant, CopyOK
  <2>2. copy.tid \in issued \cup {NoID}
    BY DEF Invariant, VersionsOK, Versions, TunnelStepOK
  <2>3. TunnelStepOK'
    BY <1>4, <2>2, ConstantsAssumption DEF CreateTunnel, Call, Step, Invariant, TunnelStepOK
  <2>4. NoRecordedLeak'
    BY <1>1, <1>2, <1>4 DEF CreateTunnel, Call, Invariant, NoRecordedLeak, TunnelStepOK
  <2> QED
    BY <1>3, <2>1, <2>3, <2>4 DEF Invariant
<1>5. CASE DeleteTunnel
  <2>1. CopyOK'
    BY <1>2, <1>5 DEF DeleteTunnel, Call, Step, Return, Invariant, CopyOK
  <2>2. TunnelStepOK'
    BY <1>1, <1>5, ConstantsAssumption
       DEF DeleteTunnel, Call, Step, Return, Invariant, TunnelStepOK, TypeOK
  <2>3. NoRecordedLeak'
    BY <1>1, <1>2, <1>5 DEF DeleteTunnel, Call, Invariant, NoRecordedLeak
  <2> QED
    BY <1>3, <2>1, <2>2, <2>3 DEF Invariant
<1> QED
  BY <1>4, <1>5

LEMMA InvariantEnvironment == ASSUME TypeOK, Invariant, Environment PROVE Invariant'
<1> USE DEF cluster, cloud, locals
<1>a. Api \in Versions /\ Api \in CRs
  BY ApiVersion
<1>1. ASSUME NEW cr \in CRs, Store(cr),
             ~cr.fin => cr.tid = NoID /\ cr.phase # "deleting",
             cr.phase = "absent" => cr.tid = NoID,
             cr.tid = Api.tid,
             cr.phase = "deleting" \/ cr.tid = NoID \/ cr.phase = Api.phase
      PROVE  Invariant'
  <2>1. Api' = cr /\ Versions' \subseteq Versions \cup {cr, Absent}
    BY <1>1, Rewritten DEF Store
  <2>2. recorded \cup ({cr.tid} \ {NoID}) \subseteq recorded'
    BY <1>1, <1>a DEF Store, Invariant, VersionsOK
  <2>3. VersionsOK' /\ DeletingOK'
    BY <1>1, <2>1, <2>2, WriteVersions
  <2>4. CopyOK' /\ TunnelStepOK' /\ NoRecordedLeak'
    BY <1>1, <2>1 DEF Store, Invariant, CopyOK, TunnelStepOK, NoRecordedLeak
  <2> QED
    BY <2>3, <2>4 DEF Invariant
<1>2. CASE CreateCR
  <2> DEFINE cr == [Absent EXCEPT !.phase = "live", !.uid = created']
  <2>1. created' \in Nat
    BY <1>2 DEF CreateCR, TypeOK
  <2>2. cr \in CRs /\ cr.tid = NoID /\ cr.phase = "live"
    BY <2>1, RecordTypes DEF Absent
  <2>3. Api.tid = NoID
    BY <1>2, <1>a DEF CreateCR, Invariant, VersionsOK
  <2> QED
    BY <1>1, <1>2, <2>2, <2>3 DEF CreateCR
<1>3. CASE EditCR
  BY <1>1, <1>3, <1>a DEF EditCR, Invariant, VersionsOK
<1>4. CASE DeleteCR
  <2>1. CASE Api.fin
    <3>1. /\ [Api EXCEPT !.phase = "deleting"] \in CRs
          /\ [Api EXCEPT !.phase = "deleting"].fin
          /\ [Api EXCEPT !.phase = "deleting"].tid = Api.tid
          /\ [Api EXCEPT !.phase = "deleting"].phase = "deleting"
      BY <1>a, <2>1, RecordTypes DEF CRs
    <3> QED
      BY <1>1, <1>4, <2>1, <3>1 DEF DeleteCR
  <2>2. CASE ~Api.fin
    <3>1. Absent \in CRs /\ Absent.tid = NoID /\ Absent.phase = "absent" /\ Api.tid = NoID
      BY <1>a, <2>2, RecordTypes DEF Absent, Invariant, VersionsOK
    <3> QED
      BY <1>1, <1>4, <2>2, <3>1 DEF DeleteCR
  <2> QED
    BY <2>1, <2>2
<1>5. ASSUME UNCHANGED <<recorded, issued, pc, copy, fresh, tid>>, tunnels' \subseteq tunnels,
             UNCHANGED crs \/ (Len(crs) > 1 /\ crs' = Tail(crs))
      PROVE  Invariant'
  <2>1. Api' = Api /\ Versions' \subseteq Versions \cup {Absent}
    BY <1>5, Unwritten DEF Versions
  <2>2. VersionsOK' /\ DeletingOK'
    BY <1>5, <2>1, KeepVersions
  <2>3. CopyOK' /\ TunnelStepOK' /\ NoRecordedLeak'
    BY <1>5, <2>1 DEF Invariant, CopyOK, TunnelStepOK, NoRecordedLeak
  <2> QED
    BY <2>2, <2>3 DEF Invariant
<1>6. CASE ObserveCR
  BY <1>5, <1>6 DEF ObserveCR
<1>7. CASE \E k \in Kinds : ObserveKid(k) \/ CollectKid(k) \/ LoseKid(k)
  BY <1>5, <1>7 DEF ObserveKid, CollectKid, LoseKid, SetKid
<1>8. CASE DeploymentUp \/ DeploymentDown \/ LoseTunnel
  BY <1>5, <1>8 DEF DeploymentUp, DeploymentDown, LoseTunnel, SetKid
<1>9. CASE \E h \in Hosts : Publish(h) \/ Withdraw(h)
  BY <1>5, <1>9 DEF Publish, Withdraw
<1>10. CASE Restart
  <2>1. Api' = Api /\ Versions' \subseteq Versions \cup {Absent}
    BY <1>10, Unwritten DEF Restart, Return
  <2>2. VersionsOK' /\ DeletingOK'
    BY <1>10, <2>1, KeepVersions DEF Restart
  <2>3. CopyOK' /\ TunnelStepOK' /\ NoRecordedLeak'
    BY <1>10, <2>1 DEF Restart, Return, Invariant, CopyOK, TunnelStepOK, NoRecordedLeak
  <2> QED
    BY <2>2, <2>3 DEF Invariant
<1> QED
  BY <1>2, <1>3, <1>4, <1>6, <1>7, <1>8, <1>9, <1>10 DEF Environment

LEMMA InvariantNext == TypeOK /\ Invariant /\ [Next]_vars => Invariant'
<1> SUFFICES ASSUME TypeOK, Invariant, [Next]_vars PROVE Invariant'
  OBVIOUS
<1>1. CASE Worker
  BY <1>1, InvariantReads, InvariantWrites, InvariantTunnels DEF Worker
<1>2. CASE Environment
  BY <1>2, InvariantEnvironment
<1>3. CASE UNCHANGED vars
  <2>1. UNCHANGED <<crs, recorded, tunnels, issued, pc, copy, fresh, tid>>
    BY <1>3 DEF vars, cluster, cloud, locals
  <2>2. Api' = Api /\ Versions' = Versions
    BY <2>1 DEF Api, Versions
  <2> QED
    BY <2>1, <2>2 DEF Invariant, VersionsOK, DeletingOK, CopyOK, TunnelStepOK, NoRecordedLeak
<1> QED
  BY <1>1, <1>2, <1>3 DEF Next

\* The inductive invariant holds in every reachable state.
THEOREM Invariance == Spec => []Invariant
<1>1. Init => Invariant
  BY InvariantInit
<1>2. TypeOK /\ Invariant /\ [Next]_vars => Invariant'
  BY InvariantNext
<1> QED
  BY <1>1, <1>2, TypeCorrect, PTL DEF Spec

\* However Reconcile is interrupted, a tunnel recorded in a status is never
\* forgotten while it exists (Reconcile, lines 92-141).
THEOREM RecordedTunnelsAreKept == Spec => []NoRecordedLeak
<1>1. Invariant => NoRecordedLeak
  BY DEF Invariant
<1> QED
  BY <1>1, Invariance, PTL

-----------------------------------------------------------------------------
(* What the steps do to the stored object and to the tunnels *)

LEMMA Deletion ==
  ASSUME TypeOK, Invariant, DeleteTunnel, copy.tid \in tunnels
  PROVE  Api.phase = "deleting" /\ Api.tid = copy.tid
<1>1. copy.phase = "deleting" /\ copy.tid # NoID /\ copy \in Versions
  BY ConstantsAssumption DEF DeleteTunnel, Invariant, CopyOK, Versions, TypeOK
<1>2. copy.tid \in recorded
  BY <1>1 DEF Invariant, VersionsOK
<1>3. Api.tid = copy.tid
  BY <1>2 DEF Invariant, NoRecordedLeak
<1> QED
  BY <1>1, <1>3 DEF Invariant, DeletingOK

\* Every step but these leaves the tunnels and the modelled status alone.
LEMMA QuietSteps ==
  ASSUME TypeOK, Invariant, [Next]_vars
  PROVE  \/ CreateTunnel \/ DeleteTunnel \/ RecordTunnel \/ RemoveFinalizer
         \/ CreateCR \/ DeleteCR \/ LoseTunnel
         \/ Api'.phase = Api.phase /\ Api'.tid = Api.tid /\ UNCHANGED tunnels
<1> USE DEF cluster, cloud, locals
<1>1. ASSUME UNCHANGED <<crs, tunnels>> \/ ObserveCR
      PROVE  Api' = Api /\ UNCHANGED tunnels
  <2>1. CASE UNCHANGED <<crs, tunnels>>
    BY <2>1 DEF Api
  <2>2. CASE ObserveCR
    BY <2>2, TailLog DEF ObserveCR, Api, TypeOK
  <2> QED
    BY <1>1, <2>1, <2>2
<1>2. CASE Get \/ ReconcileTunnel \/ LookupToken \/ FetchToken \/ ReconcileSecret
           \/ ReconcileChildren \/ ListRecords \/ DeleteRecord
  BY <1>1, <1>2 DEF Get, ReconcileTunnel, LookupToken, FetchToken, ReconcileSecret,
       ReconcileChildren, ApplyWorkload, EnsureOptional, Apply, ListRecords, DeleteRecord
<1>3. ASSUME NEW cr \in CRs, cr.phase = copy.phase, cr.tid = copy.tid, UNCHANGED tunnels,
             UNCHANGED crs \/ (fresh /\ (crs' = Extend(crs, cr) \/ crs' = Append(crs, cr)))
      PROVE  Api'.phase = Api.phase /\ Api'.tid = Api.tid /\ UNCHANGED tunnels
  <2>1. CASE UNCHANGED crs
    BY <1>3, <2>1 DEF Api
  <2>2. CASE fresh /\ (crs' = Extend(crs, cr) \/ crs' = Append(crs, cr))
    <3>1. /\ Extend(crs, cr)[Len(Extend(crs, cr))] = cr
          /\ Append(crs, cr)[Len(Append(crs, cr))] = cr
      BY ExtendLog, AppendLog DEF TypeOK
    <3>2. Api' = cr
      BY <2>2, <3>1, Zenon DEF Api
    <3> QED
      BY <1>3, <2>2, <3>2 DEF Invariant, CopyOK
  <2> QED
    BY <1>3, <2>1, <2>2
<1>4. CASE AddFinalizer
  <2> DEFINE cr == [copy EXCEPT !.fin = TRUE]
  <2>1. cr \in CRs /\ cr.phase = copy.phase /\ cr.tid = copy.tid
    BY RecordTypes DEF TypeOK, CRs
  <2> QED
    BY <1>3, <1>4, <2>1 DEF AddFinalizer, Put, PutAs, Call
<1>5. CASE UpdateStatus
  <2> DEFINE cr == [copy EXCEPT !.cond = Condition]
  <2>1. cr \in CRs /\ cr.phase = copy.phase /\ cr.tid = copy.tid
    BY Conditioned DEF TypeOK
  <2>2. /\ UNCHANGED tunnels
        /\ UNCHANGED crs \/ (fresh /\ (crs' = Extend(crs, cr) \/ crs' = Append(crs, cr)))
    BY <1>5 DEF UpdateStatus, Restamped, PutAs, Call
  <2> QED
    BY <1>3, <2>1, <2>2
<1>6. CASE EditCR
  <2>1. Append(crs, Api)[Len(Append(crs, Api))] = Api
    BY ApiVersion, AppendLog DEF TypeOK
  <2>2. Api' = Api
    BY <1>6, <2>1, Zenon DEF EditCR, Store, Api
  <2> QED
    BY <1>6, <2>2 DEF EditCR, Store
<1>7. CASE Environment
  BY <1>1, <1>6, <1>7
     DEF Environment, ObserveKid, CollectKid, LoseKid, SetKid, DeploymentUp, DeploymentDown,
         Publish, Withdraw, Restart
<1>8. CASE UNCHANGED vars
  BY <1>1, <1>8 DEF vars
<1> QED
  BY <1>2, <1>4, <1>5, <1>7, <1>8 DEF Next, Worker

\* The controller deletes no recorded tunnel but the stored object's own, and only
\* while that object is being deleted (line 98).
THEOREM DeletionIsDue == Spec => DeletesOnlyItsOwn
<1>1. TypeOK /\ Invariant /\ [Next]_vars
        => [\A t \in (tunnels \ tunnels') \cap recorded :
              LoseTunnel \/ (Api.phase = "deleting" /\ Api.tid = t)]_vars
  <2> SUFFICES ASSUME TypeOK, Invariant, [Next]_vars,
                      NEW t \in (tunnels \ tunnels') \cap recorded, ~LoseTunnel
               PROVE  Api.phase = "deleting" /\ Api.tid = t
    OBVIOUS
  <2>1. DeleteTunnel
    BY QuietSteps DEF CreateTunnel, Call, RecordTunnel, RemoveFinalizer, Put, PutAs, CreateCR,
         DeleteCR, Store, cloud
  <2>2. t = copy.tid
    BY <2>1 DEF DeleteTunnel, Call
  <2> QED
    BY <2>1, <2>2, Deletion
<1> QED
  BY <1>1, TypeCorrect, Invariance, PTL DEF Spec, DeletesOnlyItsOwn

-----------------------------------------------------------------------------
(* Refinement *)

LEMMA LifecycleInit == Init => Lifecycle!Init
BY DEF Init, Lifecycle!Init, Api, Absent

LEMMA LifecycleNext ==
  ASSUME TypeOK, Invariant, [Next]_vars PROVE [Lifecycle!Next]_(Lifecycle!vars)
<1> USE DEF Lifecycle!Next, Lifecycle!vars, cluster, cloud, locals
<1>a. Api \in CRs /\ Api \in Versions
  BY ApiVersion
<1>1. CASE CreateTunnel
  <2>1. Api' = Api
    BY <1>1 DEF CreateTunnel, Api
  <2>2. UNCHANGED tunnels \/ \E t \in TunnelIDs : tunnels' = tunnels \cup {t}
    BY <1>1 DEF CreateTunnel, Call
  <2> QED
    BY <2>1, <2>2 DEF Lifecycle!Provision
<1>2. CASE DeleteTunnel
  <2>1. Api' = Api
    BY <1>2 DEF DeleteTunnel, Api
  <2>2. UNCHANGED tunnels \/ tunnels' = tunnels \ {copy.tid}
    BY <1>2 DEF DeleteTunnel, Call
  <2>3. CASE copy.tid \in tunnels
    BY <1>2, <2>1, <2>2, <2>3, Deletion DEF Lifecycle!Destroy
  <2>4. CASE copy.tid \notin tunnels
    BY <2>1, <2>2, <2>4
  <2> QED
    BY <2>3, <2>4
<1>3. ASSUME NEW cr \in CRs, crs' = Extend(crs, cr) \/ crs' = Append(crs, cr) PROVE Api' = cr
  <2>1. Extend(crs, cr)[Len(Extend(crs, cr))] = cr /\ Append(crs, cr)[Len(Append(crs, cr))] = cr
    BY ExtendLog, AppendLog DEF TypeOK
  <2> QED
    BY <1>3, <2>1, Zenon DEF Api
<1>4. CASE RecordTunnel
  <2> DEFINE cr == [copy EXCEPT !.tid = tid]
  <2>1. cr \in CRs /\ cr.phase = copy.phase /\ cr.tid = tid
    BY RecordTypes DEF TypeOK, CRs
  <2>2. UNCHANGED tunnels /\ (UNCHANGED crs \/ (fresh /\ crs' = Extend(crs, cr)))
    BY <1>4 DEF RecordTunnel, Put, PutAs, Call
  <2>3. CASE UNCHANGED crs
    BY <2>2, <2>3 DEF Api
  <2>4. CASE fresh /\ crs' = Extend(crs, cr)
    <3>1. /\ Api' = cr /\ copy = Api /\ Api.phase = "live" /\ tid \in TunnelIDs
          /\ tid = copy.tid \/ copy.tid \notin tunnels
      BY <1>3, <1>4, <2>1, <2>4 DEF RecordTunnel, Invariant, CopyOK, TunnelStepOK, TypeOK
    <3> QED
      BY <2>1, <2>2, <3>1 DEF Lifecycle!Record
  <2> QED
    BY <2>2, <2>3, <2>4
<1>5. CASE RemoveFinalizer
  <2>1. UNCHANGED tunnels /\ (UNCHANGED crs \/ (fresh /\ crs' = Extend(crs, Absent)))
    BY <1>5 DEF RemoveFinalizer, Put, PutAs, Call
  <2>2. CASE UNCHANGED crs
    BY <2>1, <2>2 DEF Api
  <2>3. CASE fresh /\ crs' = Extend(crs, Absent)
    <3>1. Api' = Absent
      BY <1>3, <2>3, RecordTypes
    <3>2. copy = Api /\ Api.phase = "deleting" /\ Api.tid \notin tunnels
      BY <1>5, <2>3 DEF RemoveFinalizer, Invariant, CopyOK, TunnelStepOK
    <3> QED
      BY <2>1, <3>1, <3>2 DEF Lifecycle!Vanish, Absent
  <2> QED
    BY <2>1, <2>2, <2>3
<1>6. CASE CreateCR
  <2> DEFINE cr == [Absent EXCEPT !.phase = "live", !.uid = created']
  <2>0. created' \in Nat
    BY <1>6 DEF CreateCR, TypeOK
  <2>1. cr \in CRs /\ cr.tid = NoID /\ cr.phase = "live"
    BY <2>0, RecordTypes DEF Absent
  <2>2. Api.phase = "absent" /\ Api.tid = NoID /\ UNCHANGED tunnels
    BY <1>6, <1>a DEF CreateCR, Store, Invariant, VersionsOK
  <2>3. Api' = cr
    BY <1>3, <1>6, <2>1 DEF CreateCR, Store
  <2> QED
    BY <2>1, <2>2, <2>3 DEF Lifecycle!Appear
<1>7. CASE DeleteCR
  <2>1. Api.phase = "live" /\ UNCHANGED tunnels
    BY <1>7 DEF DeleteCR, Store
  <2>2. CASE Api.fin
    <3> DEFINE cr == [Api EXCEPT !.phase = "deleting"]
    <3>1. cr \in CRs /\ cr.tid = Api.tid /\ cr.phase = "deleting"
      BY <1>a, RecordTypes DEF CRs
    <3>2. Api' = cr
      BY <1>3, <1>7, <2>2, <3>1 DEF DeleteCR, Store
    <3> QED
      BY <2>1, <3>1, <3>2 DEF Lifecycle!Retire
  <2>3. CASE ~Api.fin
    <3>1. Api.tid = NoID
      BY <1>a, <2>3 DEF Invariant, VersionsOK
    <3>2. Api' = Absent
      BY <1>3, <1>7, <2>3, RecordTypes DEF DeleteCR, Store
    <3> QED
      BY <2>1, <3>1, <3>2 DEF Lifecycle!Forget, Absent
  <2> QED
    BY <2>2, <2>3
<1>8. CASE LoseTunnel
  <2>1. Api' = Api /\ "tunnel" \in Faults
    BY <1>8 DEF LoseTunnel, Fault, Api
  <2>2. \E t \in TunnelIDs : tunnels' = tunnels \ {t}
    BY <1>8 DEF LoseTunnel, TypeOK
  <2> QED
    BY <2>1, <2>2 DEF Lifecycle!Remove
<1>9. CASE Api'.phase = Api.phase /\ Api'.tid = Api.tid /\ UNCHANGED tunnels
  BY <1>9
<1> QED
  BY <1>1, <1>2, <1>4, <1>5, <1>6, <1>7, <1>8, <1>9, QuietSteps

\* The controller, with every fault of the model, implements the life cycle that
\* TunnelLifecycle promises for the object's tunnel.
THEOREM Refinement == Spec => ImplementsLifecycle
<1>1. Init => Lifecycle!Init
  BY LifecycleInit
<1>2. TypeOK /\ Invariant /\ [Next]_vars => [Lifecycle!Next]_(Lifecycle!vars)
  BY LifecycleNext
<1> QED
  BY <1>1, <1>2, TypeCorrect, Invariance, PTL DEF Spec, ImplementsLifecycle, Lifecycle!Spec

-----------------------------------------------------------------------------
(* The controller never goes quiet on unfinished work *)

LEMMA QuietInit == Init => QuietInvariant
<1> SUFFICES ASSUME Init PROVE QuietInvariant
  OBVIOUS
<1>1. Versions = {Absent} /\ Api = Absent /\ pc = "idle"
  BY DEF Init, Versions, Api
<1> QED
  BY <1>1 DEF QuietInvariant, UidsOK, PassedOK, Passed, SettledIsConverged, Absent

\* Every version that is ever written has a uid.
LEMMA UidsNext ==
  ASSUME TypeOK, UidsOK, [Next]_vars PROVE UidsOK'
<1> USE DEF cluster, cloud, locals
<1>1. ASSUME UNCHANGED crs \/ (Len(crs) > 1 /\ crs' = Tail(crs)),
             copy' \in Versions \cup {crs[1], Absent}
      PROVE  UidsOK'
  BY <1>1, Unwritten DEF UidsOK, Absent
<1>2. ASSUME NEW cr \in CRs, crs' = Extend(crs, cr) \/ crs' = Append(crs, cr),
             copy' \in {copy, cr, Absent}, cr.phase # "absent" => cr.uid # 0
      PROVE  UidsOK'
  BY <1>2, Rewritten DEF UidsOK, Absent
<1>3. /\ copy \in Versions /\ copy \in CRs /\ Api \in Versions /\ Api \in CRs
      /\ copy.phase # "absent" => copy.uid # 0
      /\ Api.phase # "absent" => Api.uid # 0
  BY ApiVersion DEF UidsOK, TypeOK, Versions
<1>4. CASE Get
  BY <1>1, <1>3, <1>4 DEF Get
<1>5. CASE ReconcileTunnel \/ LookupToken \/ CreateTunnel \/ FetchToken \/ ReconcileSecret
           \/ ReconcileChildren \/ ListRecords \/ DeleteRecord \/ DeleteTunnel
  <2>1. UNCHANGED crs /\ copy' \in {copy, Absent}
    BY <1>5 DEF ReconcileTunnel, LookupToken, CreateTunnel, FetchToken, ReconcileSecret,
         ReconcileChildren, ApplyWorkload, EnsureOptional, Apply, ListRecords, DeleteRecord,
         DeleteTunnel, Call, Step, Fetched, Return
  <2> QED
    BY <1>1, <1>3, <2>1
<1>6. CASE AddFinalizer
  <2> DEFINE cr == [copy EXCEPT !.fin = TRUE]
  <2>1. cr \in CRs /\ cr.phase = copy.phase /\ cr.uid = copy.uid
    BY <1>3, RecordTypes DEF CRs
  <2>2. copy' \in {cr, Absent} /\ ((UNCHANGED crs /\ copy' = Absent) \/ crs' = Extend(crs, cr))
    BY <1>6 DEF AddFinalizer, Put, PutAs, Call, Written, Return
  <2> QED
    BY <1>1, <1>2, <1>3, <2>1, <2>2
<1>7. CASE RecordTunnel
  <2> DEFINE cr == [copy EXCEPT !.tid = tid]
  <2>1. cr \in CRs /\ cr.phase = copy.phase /\ cr.uid = copy.uid
    BY <1>3, RecordTypes DEF CRs, TypeOK
  <2>2. copy' \in {cr, Absent} /\ ((UNCHANGED crs /\ copy' = Absent) \/ crs' = Extend(crs, cr))
    BY <1>7 DEF RecordTunnel, Put, PutAs, Call, Written, Return
  <2> QED
    BY <1>1, <1>2, <1>3, <2>1, <2>2
<1>8. CASE UpdateStatus
  <2> DEFINE cr == [copy EXCEPT !.cond = Condition]
  <2>1. cr \in CRs /\ cr.phase = copy.phase /\ cr.uid = copy.uid
    BY <1>3, Conditioned
  <2>2. copy' = Absent /\ (UNCHANGED crs \/ crs' = Extend(crs, cr) \/ crs' = Append(crs, cr))
    BY <1>8 DEF UpdateStatus, Restamped, PutAs, Call, Return
  <2> QED
    BY <1>1, <1>2, <1>3, <2>1, <2>2
<1>9. CASE RemoveFinalizer
  <2>1. copy' = Absent /\ (UNCHANGED crs \/ crs' = Extend(crs, Absent))
    BY <1>9 DEF RemoveFinalizer, Put, PutAs, Call, Return
  <2>2. Absent \in CRs /\ Absent.phase = "absent"
    BY RecordTypes DEF Absent
  <2> QED
    BY <1>1, <1>2, <2>1, <2>2
<1>10. CASE CreateCR
  <2> DEFINE cr == [Absent EXCEPT !.phase = "live", !.uid = created']
  <2>1. created' \in Nat \ {0}
    BY <1>10 DEF CreateCR, TypeOK
  <2>2. cr \in CRs /\ cr.uid # 0
    BY <2>1, RecordTypes DEF Absent
  <2>3. crs' = Append(crs, cr) /\ copy' = copy
    BY <1>10 DEF CreateCR, Store
  <2> QED
    BY <1>2, <2>2, <2>3
<1>11. CASE EditCR
  BY <1>2, <1>3, <1>11 DEF EditCR, Store
<1>12. CASE DeleteCR
  <2>1. PICK cr : cr = IF Api.fin THEN [Api EXCEPT !.phase = "deleting"] ELSE Absent
    OBVIOUS
  <2>2. cr \in CRs /\ (cr.phase # "absent" => cr.uid = Api.uid)
    BY <1>3, <2>1, RecordTypes DEF CRs, Absent
  <2>3. crs' = Append(crs, cr) /\ copy' = copy /\ Api.phase # "absent"
    BY <1>12, <2>1 DEF DeleteCR, Store
  <2> QED
    BY <1>2, <1>3, <2>2, <2>3
<1>13. CASE Environment /\ ~CreateCR /\ ~EditCR /\ ~DeleteCR
  <2>1. (UNCHANGED crs \/ (Len(crs) > 1 /\ crs' = Tail(crs))) /\ copy' \in {copy, Absent}
    BY <1>13 DEF Environment, ObserveCR, ObserveKid, CollectKid, LoseKid, SetKid, DeploymentUp,
         DeploymentDown, LoseTunnel, Restart, Return, Publish, Withdraw
  <2> QED
    BY <1>1, <1>3, <2>1
<1>14. CASE UNCHANGED vars
  BY <1>1, <1>3, <1>14 DEF vars
<1> QED
  BY <1>4, <1>5, <1>6, <1>7, <1>8, <1>9, <1>10, <1>11, <1>12, <1>13, <1>14 DEF Next, Worker, Environment

LEMMA ExtendedKid ==
  ASSUME TypeOK, NEW k \in Kinds, NEW child \in Children, kids' = [kids EXCEPT ![k] = Extend(@, child)]
  PROVE  Stored(k)' = child /\ \A j \in Kinds \ {k} : kids'[j] = kids[j]
<1>1. PICK log : log = Extend(kids[k], child)
  OBVIOUS
<1>2. log[Len(log)] = child
  <2>1. kids[k] \in Seq(Children) /\ Len(kids[k]) > 0
    BY DEF TypeOK
  <2>2. Extend(kids[k], child)[Len(Extend(kids[k], child))] = child
    BY <2>1, ExtendLog
  <2> QED
    BY <1>1, <2>2, Zenon
<1>3. kids'[k] = log /\ \A j \in Kinds \ {k} : kids'[j] = kids[j]
  BY <1>1 DEF TypeOK
<1> QED
  BY <1>2, <1>3 DEF Stored

\* Reconcile goes on from one child to the next.
LEMMA ChildDone ==
  ASSUME PassedOK, NEW k \in Kinds, UNCHANGED <<queued, copy>>,
         pc' \in {"Deployment", "Service", "ServiceMonitor", "PDB", "status"} => copy.tid # NoID,
         Passed' \subseteq Passed \cup {k},
         \A j \in Kinds \ {k} : kids'[j] = kids[j],
         k \in Wanted /\ Len(kids'[k]) = 1 /\ Stored(k)'.owner \in {0, copy.uid}
           => queued \/ Stored(k)'.owner = copy.uid
  PROVE  PassedOK'
<1>1. ASSUME NEW j \in Passed' \cap Wanted', Len(kids'[j]) = 1, Stored(j)'.owner \in {0, copy.uid}
      PROVE  queued \/ Stored(j)'.owner = copy.uid
  <2>1. CASE j = k
    BY <1>1, <2>1 DEF Wanted
  <2>2. CASE j # k
    <3>1. j \in Passed \cap Wanted /\ j \in Kinds
      BY <1>1, <2>2 DEF Wanted, Passed, Kinds
    <3>2. kids'[j] = kids[j] /\ Stored(j)' = Stored(j)
      BY <2>2, <3>1 DEF Stored
    <3> QED
      BY <1>1, <3>1, <3>2 DEF PassedOK
  <2> QED
    BY <2>1, <2>2
<1> QED
  BY <1>1 DEF PassedOK

LEMMA SecretDone ==
  ASSUME TypeOK, QuietInvariant, ReconcileSecret PROVE PassedOK'
<1> DEFINE child == [owner |-> copy.uid, token |-> token, up |-> FALSE]
<1>1. pc = "secret" /\ child \in Children /\ "Secret" \in Kinds /\ child.owner = copy.uid
  BY DEF ReconcileSecret, TypeOK, CRs, Children, Kinds
<1>2. CASE pc' = "failed"
  BY <1>2 DEF PassedOK, Passed
<1>3. CASE kids' = [kids EXCEPT !["Secret"] = Extend(@, child)] /\ Step("record")
  <2>1. Stored("Secret")' = child /\ \A j \in Kinds \ {"Secret"} : kids'[j] = kids[j]
    BY <1>1, <1>3, ExtendedKid
  <2>2. Passed' \subseteq {"Secret"} /\ pc' = "record" /\ UNCHANGED <<queued, copy>>
    BY <1>3 DEF Step, Passed
  <2> QED
    BY <1>1, <2>1, <2>2, ChildDone DEF QuietInvariant
<1> QED
  BY <1>2, <1>3 DEF ReconcileSecret, Apply, Call, Step

LEMMA ChildrenDone ==
  ASSUME TypeOK, QuietInvariant, ReconcileChildren PROVE PassedOK'
<1>1. copy.tid # NoID
  BY DEF QuietInvariant, PassedOK, ReconcileChildren, ApplyWorkload, EnsureOptional
<1>2. \A k \in Kinds : Len(kids[k]) = 1 => Cached(k) = Stored(k)
  BY DEF Cached, Stored
<1>3. copy.uid \in Nat
  BY DEF TypeOK, CRs
<1>4. ASSUME NEW k \in Kinds, NEW next, Step(next) \/ Step("failed"),
             next \in {"Service", "ServiceMonitor", "PDB", "status"},
             Step(next) => Passed' \subseteq Passed \cup {k},
             \/ UNCHANGED kids /\ (Cached(k).owner \in {0, copy.uid} => Cached(k).owner = copy.uid)
             \/ UNCHANGED kids /\ k \notin Wanted
             \/ UNCHANGED kids /\ Step("failed")
             \/ \E child \in Children :
                  child.owner = copy.uid /\ kids' = [kids EXCEPT ![k] = Extend(@, child)]
      PROVE  PassedOK'
  <2>1. UNCHANGED <<queued, copy>>
    BY <1>4 DEF Step
  <2>2. CASE Step("failed")
    BY <2>2 DEF Step, PassedOK, Passed
  <2>3. CASE /\ UNCHANGED kids /\ Step(next)
             /\ k \in Wanted => (Cached(k).owner \in {0, copy.uid} => Cached(k).owner = copy.uid)
    <3>1. /\ Stored(k)' = Stored(k) /\ kids'[k] = kids[k]
          /\ \A j \in Kinds \ {k} : kids'[j] = kids[j]
      BY <2>3 DEF Stored
    <3>2. k \in Wanted /\ Len(kids'[k]) = 1 /\ Stored(k)'.owner \in {0, copy.uid}
            => queued \/ Stored(k)'.owner = copy.uid
      <4> SUFFICES ASSUME k \in Wanted, Len(kids[k]) = 1, Stored(k).owner \in {0, copy.uid}
                   PROVE  Stored(k).owner = copy.uid
        BY <3>1
      <4>1. Cached(k) = Stored(k)
        BY <1>2
      <4> QED
        BY <2>3, <4>1
    <3> QED
      BY <1>1, <1>4, <2>1, <2>3, <3>1, <3>2, ChildDone DEF QuietInvariant
  <2>4. ASSUME NEW child \in Children, child.owner = copy.uid,
               kids' = [kids EXCEPT ![k] = Extend(@, child)], Step(next)
        PROVE  PassedOK'
    <3>1. Stored(k)' = child /\ \A j \in Kinds \ {k} : kids'[j] = kids[j]
      BY <2>4, ExtendedKid
    <3> QED
      BY <1>1, <1>4, <2>1, <2>4, <3>1, ChildDone DEF QuietInvariant
  <2> QED
    BY <1>4, <2>2, <2>3, <2>4
<1>5. ASSUME NEW k \in {"Deployment", "Service"}, NEW next, ApplyWorkload(k, next),
             next \in {"Service", "ServiceMonitor"}, Step(next) => Passed' \subseteq Passed \cup {k}
      PROVE  PassedOK'
  <2> DEFINE want == [Stored(k) EXCEPT !.owner = copy.uid]
  <2>1. k \in Kinds /\ Stored(k) \in Children
    BY LogElems DEF Kinds, Stored, TypeOK
  <2>2. want \in Children /\ want.owner = copy.uid
    BY <1>3, <2>1, RecordTypes DEF Children
  <2>3. Step(next) \/ Step("failed")
    BY <1>5 DEF ApplyWorkload, Apply, Call
  <2>4. \/ UNCHANGED kids /\ Cached(k).owner = copy.uid
        \/ UNCHANGED kids /\ Step("failed")
        \/ kids' = [kids EXCEPT ![k] = Extend(@, want)]
    BY <1>5 DEF ApplyWorkload, Apply, Call, cluster
  <2> QED
    BY <1>4, <1>5, <2>1, <2>2, <2>3, <2>4
<1>6. ASSUME NEW k \in {"ServiceMonitor", "PDB"}, NEW next, EnsureOptional(k, next),
             next \in {"PDB", "status"}, Step(next) => Passed' \subseteq Passed \cup {k}
      PROVE  PassedOK'
  <2> DEFINE child == [Missing EXCEPT !.owner = copy.uid]
  <2>1. k \in Kinds /\ (k \in Wanted => k \in Optional)
    BY DEF Kinds, Wanted
  <2>2. child \in Children /\ child.owner = copy.uid
    BY <1>3, RecordTypes DEF Missing
  <2>3. Step(next) \/ Step("failed")
    BY <1>6 DEF EnsureOptional, Call
  <2>4. \/ UNCHANGED kids /\ k \notin Optional
        \/ UNCHANGED kids /\ Cached(k).owner # 0
        \/ UNCHANGED kids /\ Step("failed")
        \/ kids' = [kids EXCEPT ![k] = Extend(@, child)]
    BY <1>6 DEF EnsureOptional, Call
  <2> QED
    BY <1>4, <1>6, <2>1, <2>2, <2>3, <2>4
<1>7. CASE ApplyWorkload("Deployment", "Service")
  <2>1. Step("Service") => Passed' \subseteq Passed \cup {"Deployment"}
    BY <1>7 DEF ApplyWorkload, Step, Passed
  <2> QED
    BY <1>5, <1>7, <2>1
<1>8. CASE ApplyWorkload("Service", "ServiceMonitor")
  <2>1. Step("ServiceMonitor") => Passed' \subseteq Passed \cup {"Service"}
    BY <1>8 DEF ApplyWorkload, Step, Passed
  <2> QED
    BY <1>5, <1>8, <2>1
<1>9. CASE EnsureOptional("ServiceMonitor", "PDB")
  <2>1. Step("PDB") => Passed' \subseteq Passed \cup {"ServiceMonitor"}
    BY <1>9 DEF EnsureOptional, Step, Passed, Kinds
  <2> QED
    BY <1>6, <1>9, <2>1
<1>10. CASE EnsureOptional("PDB", "status")
  <2>1. Step("status") => Passed' \subseteq Passed \cup {"PDB"}
    BY <1>10 DEF EnsureOptional, Step, Passed, Kinds
  <2> QED
    BY <1>6, <1>10, <2>1
<1> QED
  BY <1>7, <1>8, <1>9, <1>10 DEF ReconcileChildren

LEMMA AppendedKid ==
  ASSUME TypeOK, NEW k \in Kinds, NEW child, SetKid(k, child)
  PROVE  Len(kids'[k]) # 1 /\ \A j \in Kinds \ {k} : kids'[j] = kids[j]
<1>1. PICK log : log = Append(kids[k], child)
  OBVIOUS
<1>2. Len(kids[k]) \in Nat /\ Len(kids[k]) > 0 /\ Len(log) = Len(kids[k]) + 1
  BY <1>1 DEF TypeOK
<1>3. kids'[k] = log
  BY <1>1 DEF SetKid, TypeOK
<1>4. Len(log) # 1
  BY <1>2
<1>5. Len(kids'[k]) # 1
  BY <1>3, <1>4, Zenon
<1>6. \A j \in Kinds \ {k} : kids'[j] = kids[j]
  BY DEF SetKid, TypeOK
<1> QED
  BY <1>5, <1>6

\* A change of a child that is on its way to the cache makes nobody go quiet.
LEMMA KidChanges ==
  ASSUME TypeOK, QuietInvariant, NEW k \in Kinds,
         \A j \in Kinds \ {k} : kids'[j] = kids[j], UNCHANGED <<pc, copy>>, queued => queued',
         queued' \/ Len(kids'[k]) # 1
  PROVE  PassedOK' /\ ~Settled'
<1>1. ~Settled'
  BY DEF Settled
<1>2. Passed' = Passed /\ Wanted' = Wanted /\ Passed \cap Wanted \subseteq Kinds
  BY DEF Passed, Wanted, Kinds
<1>3. \A j \in Kinds \ {k} : Stored(j)' = Stored(j)
  BY DEF Stored
<1>4. PassedOK'
  BY <1>2, <1>3 DEF QuietInvariant, PassedOK
<1> QED
  BY <1>1, <1>4

LEMMA KidSteps ==
  ASSUME TypeOK, QuietInvariant, NEW k \in Kinds,
         ObserveKid(k) \/ \E child : SetKid(k, child)
  PROVE  PassedOK' /\ ~Settled'
<1>1. CASE ObserveKid(k)
  <2>1. UNCHANGED <<pc, copy>> /\ queued' /\ \A j \in Kinds \ {k} : kids'[j] = kids[j]
    BY <1>1 DEF ObserveKid, locals, TypeOK
  <2> QED
    BY <2>1, KidChanges
<1>2. ASSUME NEW child, SetKid(k, child) PROVE PassedOK' /\ ~Settled'
  <2>1. UNCHANGED <<pc, copy, queued>>
    BY <1>2 DEF SetKid, locals
  <2>2. Len(kids'[k]) # 1 /\ \A j \in Kinds \ {k} : kids'[j] = kids[j]
    BY <1>2, AppendedKid
  <2> QED
    BY <2>1, <2>2, KidChanges
<1> QED
  BY <1>1, <1>2

\* Steps that leave the object and the children alone, and those that end Reconcile to
\* have it called again.
LEMMA StillOrAgain ==
  ASSUME QuietInvariant,
         UNCHANGED <<crs, kids, queued, pc, copy>> \/ Return(TRUE)
  PROVE  PassedOK' /\ SettledIsConverged'
<1>1. CASE UNCHANGED <<crs, kids, queued, pc, copy>>
  BY <1>1 DEF QuietInvariant, PassedOK, Passed, Wanted, Stored, SettledIsConverged, Settled,
       Converged, Api
<1>2. CASE Return(TRUE)
  BY <1>2 DEF Return, PassedOK, Passed, SettledIsConverged, Settled
<1> QED
  BY <1>1, <1>2

\* What Reconcile stores at its end is what is stored already, or is seen again.
LEMMA StatusDone ==
  ASSUME TypeOK, Invariant, QuietInvariant, UpdateStatus
  PROVE  PassedOK' /\ SettledIsConverged'
<1>1. CASE Return(TRUE)
  BY <1>1, StillOrAgain
<1>2. CASE ~Return(TRUE)
  <2> DEFINE cr == [copy EXCEPT !.cond = Condition]
  <2>1. /\ pc = "status" /\ Return(FALSE) /\ Cached("Deployment").up /\ UNCHANGED kids
        /\ fresh /\ (crs' = Extend(crs, cr) \/ crs' = Append(crs, cr))
    <3>1. pc = "status" => copy.tid # NoID
      BY DEF QuietInvariant, PassedOK
    <3>2. CASE copy.tid = NoID
      <4>1. Return(TRUE)
        BY <3>1, <3>2 DEF UpdateStatus, Return
      <4> QED
        BY <1>2, <4>1
    <3>3. CASE copy.tid # NoID
      <4>1. /\ PutAs({Extend(crs, cr)} \cup Restamped(cr), cr,
                     Return(pc = "failed" \/ ~Cached("Deployment").up))
            /\ pc \in {"status", "failed"}
        BY <3>3 DEF UpdateStatus
      <4>2. /\ fresh /\ (crs' = Extend(crs, cr) \/ crs' = Append(crs, cr)) /\ UNCHANGED kids
            /\ Return(pc = "failed" \/ ~Cached("Deployment").up)
        BY <1>2, <4>1 DEF PutAs, Restamped, Call
      <4>3. pc # "failed" /\ Cached("Deployment").up
        BY <1>2, <4>2 DEF Return
      <4> QED
        BY <4>1, <4>2, <4>3 DEF Return
    <3> QED
      BY <3>2, <3>3
  <2>2. PassedOK'
    BY <2>1 DEF Return, PassedOK, Passed
  <2>3. ASSUME Settled' PROVE Converged'
    <3>1. copy = Api /\ copy.phase = "live" /\ copy.fin /\ copy.tid # NoID /\ copy \in CRs
      BY <2>1 DEF Invariant, CopyOK, QuietInvariant, PassedOK, TypeOK
    <3>2. cr.phase = copy.phase /\ cr.fin = copy.fin /\ cr.tid = copy.tid /\ cr.uid = copy.uid
          /\ cr.cond = Condition /\ cr \in CRs
      BY <3>1, Conditioned
    <3>3. Api' = cr
      <4>1. /\ Extend(crs, cr)[Len(Extend(crs, cr))] = cr
            /\ Append(crs, cr)[Len(Append(crs, cr))] = cr
        BY <3>2, ExtendLog, AppendLog DEF TypeOK
      <4> QED
        BY <2>1, <4>1, Zenon DEF Api
    <3>4. ~queued /\ \A k \in Kinds : /\ Len(kids[k]) = 1 /\ Stored(k)' = Stored(k)
                                      /\ Cached(k) = Stored(k) /\ Stored(k).owner \in {0, copy.uid}
      BY <2>1, <2>3, <3>2, <3>3 DEF Settled, Return, Stored, Cached
    <3>5. \A k \in Wanted : k \in Kinds /\ Stored(k).owner = copy.uid
      <4>1. Wanted \subseteq Kinds /\ Passed = Kinds
        BY <2>1, ConstantsAssumption DEF Wanted, Kinds, Passed
      <4> QED
        BY <3>4, <4>1 DEF QuietInvariant, PassedOK
    <3>6. copy.uid # 0
      BY <3>1, ApiVersion DEF QuietInvariant, UidsOK
    <3>7. cr.cond = "Available"
      BY <2>1, <3>2, <3>4, <3>5, <3>6 DEF Condition, Wanted
    <3>8. Stored("Deployment").up /\ "Deployment" \in Kinds
      BY <2>1, <3>4 DEF Kinds
    <3>9. Wanted' = Wanted
      BY DEF Wanted
    <3> QED
      BY <3>1, <3>2, <3>3, <3>4, <3>5, <3>7, <3>8, <3>9 DEF Converged
  <2> QED
    BY <2>2, <2>3 DEF SettledIsConverged
<1> QED
  BY <1>1, <1>2

LEMMA QuietWorker ==
  ASSUME TypeOK, Invariant, QuietInvariant, Worker PROVE PassedOK' /\ SettledIsConverged'
<1>1. ASSUME pc' # "idle" PROVE SettledIsConverged'
  BY <1>1 DEF SettledIsConverged, Settled
<1>2. ASSUME pc' \notin {"record", "Deployment", "Service", "ServiceMonitor", "PDB", "status"}
      PROVE  PassedOK'
  BY <1>2 DEF PassedOK, Passed
<1>3. CASE Get
  <2>1. pc' \in {"idle", "finalizer", "tunnel", "purge"} /\ UNCHANGED crs
    BY <1>3 DEF Get, cluster
  <2>2. pc' = "idle" /\ Len(crs) = 1 => Api'.phase = "absent"
    BY <1>3, <2>1 DEF Get, Api
  <2> QED
    BY <1>1, <1>2, <2>1, <2>2 DEF SettledIsConverged, Settled
<1>4. CASE AddFinalizer
  <2>1. Return(TRUE) \/ pc' = "tunnel"
    BY <1>4 DEF AddFinalizer, Put, PutAs, Call, Written
  <2> QED
    BY <1>1, <1>2, <2>1, StillOrAgain
<1>5. CASE ReconcileTunnel \/ LookupToken \/ CreateTunnel \/ FetchToken
  <2>1. pc' \in {"secret", "lookup", "create", "token", "failed"}
    BY <1>5 DEF ReconcileTunnel, LookupToken, CreateTunnel, FetchToken, Call, Fetched, Step
  <2> QED
    BY <1>1, <1>2, <2>1
<1>6. CASE ReconcileSecret
  <2>1. pc' # "idle"
    BY <1>6 DEF ReconcileSecret, Apply, Call, Step
  <2> QED
    BY <1>1, <1>6, <2>1, SecretDone
<1>7. CASE RecordTunnel
  <2>1. CASE Return(TRUE)
    BY <2>1, StillOrAgain
  <2>2. CASE Written([copy EXCEPT !.tid = tid], "Deployment")
    <3>1. copy' = [copy EXCEPT !.tid = tid] /\ pc' = "Deployment" /\ queued' = queued /\ pc = "record"
      BY <1>7, <2>2 DEF Written, RecordTunnel
    <3>2. copy'.uid = copy.uid /\ copy'.tid = tid /\ tid # NoID
      BY <3>1, ConstantsAssumption DEF TypeOK, CRs, Invariant, TunnelStepOK
    <3>3. UNCHANGED kids /\ Passed' = Passed /\ Wanted' = Wanted
      BY <1>7, <3>1 DEF RecordTunnel, Put, PutAs, Passed, Wanted
    <3>4. PassedOK'
      BY <3>1, <3>2, <3>3 DEF QuietInvariant, PassedOK, Stored
    <3> QED
      BY <1>1, <3>1, <3>4
  <2> QED
    BY <1>7, <2>1, <2>2 DEF RecordTunnel, Put, PutAs, Call
<1>8. CASE ReconcileChildren
  <2>1. pc' # "idle"
    BY <1>8 DEF ReconcileChildren, ApplyWorkload, EnsureOptional, Apply, Call, Step
  <2> QED
    BY <1>1, <1>8, <2>1, ChildrenDone
<1>9. CASE UpdateStatus
  BY <1>9, StatusDone
<1>10. CASE ListRecords \/ DeleteRecord \/ DeleteTunnel
  <2>1. Return(TRUE) \/ pc' \in {"delete", "unpublish", "unfinalize"}
    BY <1>10 DEF ListRecords, DeleteRecord, DeleteTunnel, Call, Step
  <2> QED
    BY <1>1, <1>2, <2>1, StillOrAgain
<1>11. CASE RemoveFinalizer
  <2>1. CASE Return(TRUE)
    BY <2>1, StillOrAgain
  <2>2. CASE Return(FALSE) /\ crs' = Extend(crs, Absent)
    <3>1. Absent \in CRs /\ crs \in Seq(CRs) /\ Len(crs) > 0
      BY RecordTypes DEF TypeOK
    <3>2. Extend(crs, Absent)[Len(Extend(crs, Absent))] = Absent
      BY <3>1, ExtendLog
    <3>3. Api' = Absent
      BY <2>2, <3>2, Zenon DEF Api
    <3> QED
      BY <1>2, <2>2, <3>3 DEF Return, SettledIsConverged, Absent
  <2> QED
    BY <1>11, <2>1, <2>2 DEF RemoveFinalizer, Put, PutAs, Call
<1> QED
  BY <1>3, <1>4, <1>5, <1>6, <1>7, <1>8, <1>9, <1>10, <1>11 DEF Worker

LEMMA QuietEnvironment ==
  ASSUME TypeOK, QuietInvariant, Environment PROVE PassedOK' /\ SettledIsConverged'
<1>1. ASSUME UNCHANGED <<pc, copy, kids>>, queued => queued', queued' \/ Len(crs') # 1
      PROVE  PassedOK' /\ SettledIsConverged'
  BY <1>1 DEF QuietInvariant, PassedOK, Passed, Wanted, Stored, SettledIsConverged, Settled
<1>2. ASSUME NEW cr, Store(cr) PROVE PassedOK' /\ SettledIsConverged'
  <2>1. PICK log : log = Append(crs, cr)
    OBVIOUS
  <2>2. Len(crs) \in Nat /\ Len(crs) > 0 /\ Len(log) = Len(crs) + 1
    BY <2>1 DEF TypeOK
  <2>3. crs' = log /\ UNCHANGED <<pc, copy, kids, queued>>
    BY <1>2, <2>1 DEF Store
  <2> QED
    BY <1>1, <2>2, <2>3
<1>3. CASE CreateCR \/ EditCR \/ DeleteCR
  BY <1>2, <1>3 DEF CreateCR, EditCR, DeleteCR
<1>4. CASE ObserveCR
  BY <1>1, <1>4 DEF ObserveCR, locals
<1>5. ASSUME NEW k \in Kinds, ObserveKid(k) \/ CollectKid(k) \/ LoseKid(k)
      PROVE  PassedOK' /\ SettledIsConverged'
  BY <1>5, KidSteps DEF CollectKid, LoseKid, SettledIsConverged
<1>6. CASE DeploymentUp \/ DeploymentDown
  <2>1. "Deployment" \in Kinds /\ \E child : SetKid("Deployment", child)
    BY <1>6 DEF DeploymentUp, DeploymentDown, Kinds
  <2> QED
    BY <2>1, KidSteps DEF SettledIsConverged
<1>7. CASE LoseTunnel \/ Restart \/ \E h \in Hosts : Publish(h) \/ Withdraw(h)
  <2>1. UNCHANGED <<crs, kids, queued, pc, copy>> \/ Return(TRUE)
    BY <1>7 DEF LoseTunnel, Restart, Publish, Withdraw, cluster, locals
  <2> QED
    BY <2>1, StillOrAgain
<1> QED
  BY <1>3, <1>4, <1>5, <1>6, <1>7 DEF Environment

\* What Reconcile has passed is as it left it, or something is queued or still to be
\* observed that makes Reconcile look again (lines 81-191).
THEOREM QuietInvariance == Spec => []QuietInvariant
<1>1. Init => QuietInvariant
  BY QuietInit
<1>2. TypeOK /\ Invariant /\ QuietInvariant /\ [Next]_vars => QuietInvariant'
  <2> SUFFICES ASSUME TypeOK, Invariant, QuietInvariant, [Next]_vars PROVE QuietInvariant'
    OBVIOUS
  <2>1. UidsOK'
    BY UidsNext DEF QuietInvariant
  <2>2. CASE UNCHANGED vars
    BY <2>1, <2>2, StillOrAgain DEF QuietInvariant, vars, cluster, locals
  <2> QED
    BY <2>1, <2>2, QuietWorker, QuietEnvironment DEF QuietInvariant, Next
<1> QED
  BY <1>1, <1>2, TypeCorrect, Invariance, PTL DEF Spec

\* With nothing queued and nothing left to observe, the object is gone or everything is in
\* place: every error is returned or requeued, every change of a child wakes the controller,
\* and what a stale cache hides from it is shown to it again (Reconcile, lines 81-191).
THEOREM QuietIsConverged == Spec => []SettledIsConverged
<1>1. QuietInvariant => SettledIsConverged
  BY DEF QuietInvariant
<1> QED
  BY <1>1, QuietInvariance, PTL
=============================================================================
