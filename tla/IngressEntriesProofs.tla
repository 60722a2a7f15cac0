------------------------ MODULE IngressEntriesProofs ------------------------
(***************************************************************************)
(* Theorems about IngressController that depend on what users write into   *)
(* their Ingresses: which rules and records there are, in what order they  *)
(* go, and what they lead to.  Each hypothesis is one that OneTunnel ...   *)
(* KeepsIgnoring state.                                                    *)
(***************************************************************************)
EXTENDS IngressControllerProofs

-----------------------------------------------------------------------------
(* With one default tunnel: Reconcile cleans up before it removes a finalizer *)

Writing == pc \in {"getConfig", "putConfig", "getDNS", "putDNS"}

\* A tunnel that the stored object has and the cached one has not is unreached.
LEMMA StaleIsUntouched ==
  ASSUME TypeOK, TunnelVersions, UnreachedAreUntouched, NEW c \in CFTunnels, Serving(c),
         CachedCF(c).tid # CF(c).tid \/ CachedCF(c).phase # "live"
  PROVE  Untouched(CF(c).tid) /\ CF(c).tid \in TunnelIDs
<1> DEFINE n == Len(cfs[c])
           t == CF(c).tid
<1>1. n \in Nat \ {0} /\ CF(c) = cfs[c][n] /\ CachedCF(c) = cfs[c][1] /\ n \in 1..n /\ 1 \in 1..n
  BY CFLog
<1>2. t \in TunnelIDs /\ t # NoID /\ CF(c).phase = "live"
  BY CachedTypes DEF Serving, IDs
<1>3. 1 \in 1..(n - 1)
  BY <1>1, <1>2
<1>4. VersionOK(c, n) /\ VersionOK(c, 1)
  BY <1>1, AllVersionsOK
<1>5. CachedCF(c).tid # t
  <2>1. CASE CachedCF(c).phase = "deleting"
    BY <1>1, <1>2, <1>3, <1>4, <2>1 DEF VersionOK, StretchOK
  <2>2. CASE CachedCF(c).phase = "absent"
    BY <1>1, <1>2, <1>4, <2>2 DEF VersionOK, IdOK
  <2> QED
    BY <2>1, <2>2, CachedTypes DEF CFs
<1>6. t \in Unreached
  BY <1>1, <1>2, <1>3, <1>5 DEF Unreached
<1> QED
  BY <1>2, <1>6 DEF UnreachedAreUntouched

LEMMA WritingMove ==
  ASSUME TypeOK, [Next]_vars, Writing'
  PROVE  \/ ResolveMove /\ QuietStep /\ \E d \in Candidates : target' = CachedCF(d).tid
         \/ Writing /\ UNCHANGED <<copy, target>>
<1>1. CASE Idle
  BY <1>1 DEF Idle, Writing
<1>2. CASE Rest
  BY <1>2 DEF Rest, Writing
<1>3. CASE ResolveMove
  BY <1>3, WorldStepsOfNext
     DEF WorldSteps, ConfigStep, ZoneStep, TunnelStep, LossStep, ResolveMove, Rest, Writing
<1>4. CASE Move /\ ~ResolveMove
  BY <1>4 DEF Move, GetMove, AddFinalizerMove, GetConfigMove, PutConfigMove, GetDNSMove, PutDNSMove,
              NextMove, Writing
<1> QED
  BY <1>1, <1>2, <1>3, <1>4, AllMoves

\* A tunnel id that was not handed out before the step is untouched after it.
LEMMA FreshIsUntouched ==
  ASSUME TypeOK, TunnelVersions, SnapIsCurrent, UnreachedAreUntouched, [Next]_vars,
         NEW t \in TunnelIDs \ issued
  PROVE  Untouched(t)'
<1>1. t \in Unreached
  BY DEF Unreached
<1> QED
  BY <1>1, UntouchedStep DEF UnreachedAreUntouched

LEMMA OthersUntouchedStep ==
  ASSUME OneTunnel, TypeOK, CopyIsGuarded, WorksOnItsHosts, SnapIsCurrent, TunnelVersions,
         UnreachedAreUntouched, OthersUntouched, [Next]_vars
  PROVE  OthersUntouched'
<1> SUFFICES ASSUME Writing', NEW c \in Uses(copy'.spec), Serving(c)', NEW t, t = CF(c)'.tid, t # target'
             PROVE  Untouched(t)'
  BY DEF OthersUntouched, Writing, Untouched, Uses
<1>a. c \in CFTunnels
  BY DEF Uses
<1>1. CASE ResolveMove /\ QuietStep /\ \E d \in Candidates : target' = CachedCF(d).tid
  <2>1. PICK d \in Candidates : target' = CachedCF(d).tid
    BY <1>1
  <2>2. copy' = copy /\ UNCHANGED <<cfs, tunnels>> /\ pc # "idle"
    BY <1>1 DEF ResolveMove, QuietStep, cloud
  <2>3. d \in Uses(copy.spec) /\ c \in Uses(copy.spec)
    BY <2>1, <2>2 DEF Candidates
  <2>4. PICK i \in Ingresses : copy.spec \in Specs[i]
    BY <2>2, SpecInHand
  <2>5. d = c
    BY <2>3, <2>4 DEF OneTunnel
  <2>6. Serving(c) /\ CF(c).tid = t
    BY <2>2 DEF Serving, CF
  <2>7. Untouched(t) /\ t \in TunnelIDs
    BY <1>a, <2>1, <2>5, <2>6, StaleIsUntouched
  <2> QED
    BY <2>7, UntouchedKept
<1>2. CASE Writing /\ UNCHANGED <<copy, target>>
  <2>1. CASE t \in TunnelIDs \ issued
    BY <2>1, FreshIsUntouched
  <2>2. CASE Serving(c) /\ t = CF(c).tid
    <3>1. t \in TunnelIDs
      BY <1>a, <2>2, CachedTypes DEF Serving, IDs
    <3>2. Untouched(t)
      BY <1>2, <2>2 DEF OthersUntouched, Writing
    <3> QED
      BY <3>1, <3>2, UntouchedKept
  <2> QED
    BY <1>a, <2>1, <2>2, ServingStep
<1> QED
  BY <1>1, <1>2, WritingMove

Leaving == pc \in {"getDNS", "putDNS", "unfinalize"} /\ Finalizing

LEMMA LeavingStep ==
  ASSUME TypeOK, [Next]_vars, WorksOnItsHosts, Leaving'
  PROVE  /\ UNCHANGED copy /\ Finalizing
         /\ \/ ResolveMove /\ QuietStep /\ target' = NoID
               /\ ((Candidates = {} /\ copy.spec.tunnel = "default")
                    \/ \E d \in Candidates : CachedCF(d).phase = "deleting")
            \/ ConfigStep /\ PutConfigMove
            \/ Leaving /\ (\/ Rest /\ QuietStep
                           \/ GetDNSMove /\ QuietStep
                           \/ PutDNSMove /\ ZoneStep
                           \/ \E c \in CFTunnels : TunnelStep(c) /\ Rest
                           \/ \E t \in TunnelIDs : LossStep(t) /\ Rest)
<1>1. CASE QuietStep
  <2>1. CASE Idle
    BY <2>1 DEF Idle, Leaving
  <2>2. CASE Rest
    BY <1>1, <2>2 DEF Rest, Leaving, Finalizing
  <2>3. CASE ResolveMove
    BY <1>1, <2>3 DEF ResolveMove, Leaving, Finalizing, WorksOnItsHosts
  <2>4. CASE (\E i \in Ingresses : GetMove(i)) \/ AddFinalizerMove \/ GetConfigMove
    BY <2>4 DEF GetMove, AddFinalizerMove, GetConfigMove, Leaving
  <2>5. CASE GetDNSMove
    BY <1>1, <2>5 DEF GetDNSMove, NextMove, Leaving, Finalizing
  <2> QED
    BY <1>1, <2>1, <2>2, <2>3, <2>4, <2>5 DEF QuietStep, QuietMove
<1>2. CASE ConfigStep
  BY <1>2 DEF ConfigStep, Idle, PutConfigMove, NextMove, Leaving, Finalizing
<1>3. CASE ZoneStep
  BY <1>3 DEF ZoneStep, Idle, PutDNSMove, NextMove, Leaving, Finalizing
<1>4. ASSUME NEW c \in CFTunnels, TunnelStep(c) PROVE UNCHANGED copy /\ Leaving /\ Rest
  BY <1>4 DEF TunnelStep, Rest, Leaving, Finalizing
<1>5. ASSUME NEW t \in TunnelIDs, LossStep(t) PROVE UNCHANGED copy /\ Leaving /\ Rest
  BY <1>5 DEF LossStep, Rest, Leaving, Finalizing
<1> QED
  BY <1>1, <1>2, <1>3, <1>4, <1>5, WorldStepsOfNext DEF WorldSteps, Leaving

\* Tunnel t has no rule for h, and no record of h that is not yet to be looked up.
Clean(t, h) == configs[t][h] = NoRule /\ (h \in todo \/ zone[h] # t)

LEMMA CleansStep ==
  ASSUME OneTunnel, TypeOK, CopyIsGuarded, WorksOnItsHosts, SnapIsCurrent, TunnelVersions,
         UnreachedAreUntouched, OthersUntouched, CleansBeforeLeaving, [Next]_vars
  PROVE  CleansBeforeLeaving'
<1> SUFFICES ASSUME Leaving', NEW c \in Uses(copy'.spec), NEW h \in copy'.spec.hosts, Serving(c)',
                    NEW t, t = CF(c)'.tid
             PROVE  Clean(t, h)'
  BY DEF CleansBeforeLeaving, Leaving, Clean, Uses
<1>a. c \in CFTunnels /\ copy' = copy /\ Finalizing
  BY LeavingStep DEF Uses
<1>b. h \in Hosts /\ c \in Uses(copy.spec) /\ h \in copy.spec.hosts /\ Removing
  BY <1>a DEF TypeOK, Ings, SpecType, Removing
<1>c. Untouched(t)' => Clean(t, h)'
  BY <1>b DEF Untouched, Clean, NoConfig
<1>d. /\ configs \in [TunnelIDs -> [Hosts -> Endpoints \cup {NoRule}]] /\ zone \in [Hosts -> Records]
      /\ host \in Hosts
  BY DEF TypeOK
<1>1. CASE t \in TunnelIDs \ issued
  BY <1>1, <1>c, FreshIsUntouched
<1>2. CASE Serving(c) /\ t = CF(c).tid
  <2>a. t \in TunnelIDs /\ t # NoID
    BY <1>2, <1>a, CachedTypes DEF Serving, IDs
  <2>1. CASE ResolveMove /\ QuietStep /\ target' = NoID
             /\ ((Candidates = {} /\ copy.spec.tunnel = "default")
                  \/ \E d \in Candidates : CachedCF(d).phase = "deleting")
    <3>1. pc # "idle"
      BY <2>1 DEF ResolveMove
    <3>2. PICK i \in Ingresses : copy.spec \in Specs[i]
      BY <3>1, SpecInHand
    <3>3. CachedCF(c).phase # "live"
      <4>1. CASE Candidates = {}
        BY <1>a, <1>b, <4>1 DEF Candidates
      <4>2. ASSUME NEW d \in Candidates, CachedCF(d).phase = "deleting" PROVE CachedCF(c).phase # "live"
        <5>1. d = c
          BY <1>b, <3>2, <4>2 DEF Candidates, OneTunnel
        <5> QED
          BY <4>2, <5>1
      <4> QED
        BY <2>1, <4>1, <4>2
    <3>4. Untouched(t)
      BY <1>2, <1>a, <3>3, StaleIsUntouched
    <3> QED
      BY <1>c, <2>1, <2>a, <3>4, UntouchedKept
  <2>2. CASE ConfigStep /\ PutConfigMove
    <3>1. CASE t = target
      <4>1. configs'[t][h] = NoRule
        BY <1>b, <1>d, <2>2, <2>a, <3>1 DEF ConfigStep, NewConfig
      <4>2. h \in todo'
        BY <1>b, <2>2 DEF PutConfigMove, NextMove
      <4> QED
        BY <4>1, <4>2 DEF Clean
    <3>2. CASE t # target
      <4>1. Untouched(t) /\ target' = target
        BY <1>2, <1>b, <2>2, <3>2 DEF OthersUntouched, ConfigStep, Writing, PutConfigMove, NextMove
      <4> QED
        BY <1>c, <2>a, <3>2, <4>1, UntouchedKept
    <3> QED
      BY <3>1, <3>2
  <2>3. CASE Leaving
    <3>0. Clean(t, h)
      BY <1>2, <1>b, <2>3 DEF CleansBeforeLeaving, Leaving, Clean
    <3>1. CASE Rest /\ QuietStep
      BY <3>0, <3>1 DEF Rest, QuietStep, cloud, Clean
    <3>2. CASE GetDNSMove /\ QuietStep
      BY <1>b, <2>a, <3>0, <3>2 DEF GetDNSMove, NextMove, QuietStep, cloud, Clean
    <3>3. CASE PutDNSMove /\ ZoneStep
      BY <1>b, <1>d, <2>a, <3>0, <3>3 DEF PutDNSMove, NextMove, ZoneStep, Clean
    <3>4. ASSUME NEW d \in CFTunnels, TunnelStep(d), Rest PROVE Clean(t, h)'
      <4>1. todo' = todo /\ configs'[t] \in {configs[t], NoConfig} /\ zone'[h] \in {zone[h], NoID}
        BY <1>b, <2>a, <3>4, TunnelStepTakesAway DEF Rest
      <4> QED
        BY <1>b, <2>a, <3>0, <4>1 DEF Clean, NoConfig
    <3>7. ASSUME NEW u \in TunnelIDs, LossStep(u), Rest PROVE Clean(t, h)'
      <4>1. todo' = todo /\ configs'[t] \in {configs[t], NoConfig} /\ zone' = zone
        BY <1>d, <2>a, <3>7 DEF LossStep, Rest
      <4> QED
        BY <1>b, <3>0, <4>1 DEF Clean, NoConfig
    <3>5. \/ ResolveMove
          \/ ConfigStep /\ PutConfigMove
          \/ Rest /\ QuietStep
          \/ GetDNSMove /\ QuietStep
          \/ PutDNSMove /\ ZoneStep
          \/ \E d \in CFTunnels : TunnelStep(d) /\ Rest
          \/ \E u \in TunnelIDs : LossStep(u) /\ Rest
      BY LeavingStep
    <3>6. ~ResolveMove
      BY <2>3 DEF ResolveMove, Leaving
    <3> QED
      BY <2>2, <3>1, <3>2, <3>3, <3>4, <3>5, <3>6, <3>7
  <2> QED
    BY <2>1, <2>2, <2>3, LeavingStep
<1> QED
  BY <1>a, <1>1, <1>2, ServingStep

CleanInvariant == BaseInvariant /\ OthersUntouched /\ CleansBeforeLeaving

\* Where there is one default tunnel, Reconcile writes to no tunnel but the one that
\* the Ingress is published through, and has taken all its entries off when it comes
\* to remove the finalizer, even if the copy in hand is old (lines 61-80 and 384-421).
THEOREM CleanInvariantHolds == ASSUME OneTunnel PROVE Spec => []CleanInvariant
<1>1. Init => OthersUntouched /\ CleansBeforeLeaving
  BY DEF Init, OthersUntouched, CleansBeforeLeaving
<1>2. ASSUME CleanInvariant, BaseInvariant', [Next]_vars PROVE CleanInvariant'
  <2>1. /\ TypeOK /\ WorksOnItsHosts /\ CopyIsGuarded /\ TunnelVersions /\ SnapIsCurrent
        /\ UnreachedAreUntouched
    BY <1>2 DEF CleanInvariant, BaseInvariant
  <2>2. OthersUntouched' /\ CleansBeforeLeaving'
    BY <1>2, <2>1, OthersUntouchedStep, CleansStep DEF CleanInvariant
  <2> QED
    BY <1>2, <2>2 DEF CleanInvariant
<1>3. Init /\ BaseInvariant => CleanInvariant
  BY <1>1 DEF CleanInvariant
<1> QED
  BY <1>2, <1>3, BaseInvariantHolds, PTL DEF Spec

-----------------------------------------------------------------------------
(* When Ingresses stay with their hosts and their tunnel: every entry has an owner *)

\* What StaysPut says of two specifications of one Ingress
LEMMA Stays ==
  ASSUME StaysPut, NEW i \in Ingresses, NEW r \in Specs[i], NEW s \in Specs[i]
  PROVE  /\ r.hosts = s.hosts
         /\ \A c \in Uses(r), d \in Uses(s) : c = d
         /\ r.tunnel # "malformed" => \A c \in Uses(s) : c \in Uses(r)
<1>1. s.tunnel = "malformed" => Uses(s) = {}
  BY ConstantsAssumption DEF Uses
<1> QED
  BY <1>1 DEF StaysPut

LEMMA StaysHasOne == StaysPut => OneTunnel
BY DEF StaysPut, OneTunnel

Owns(i, c, h) == Ing(i).fin /\ h \in Ing(i).spec.hosts /\ c \in Home(i)
Entry(t, h) == configs[t][h] # NoRule \/ zone[h] = t

\* What Reconcile makes: an entry of the Ingress in hand
NewEntry(t, h) ==
  /\ pc \in {"putConfig", "putDNS"} /\ target = t /\ h \in copy.spec.hosts /\ ~Removing
  /\ UNCHANGED ings

LEMMA EntryStep ==
  ASSUME TypeOK, WorksOnItsHosts, SnapIsCurrent, NEW t \in TunnelIDs, NEW h \in Hosts,
         Entry(t, h)', [Next]_vars
  PROVE  Entry(t, h) \/ NewEntry(t, h)
<1>a. /\ configs \in [TunnelIDs -> [Hosts -> Endpoints \cup {NoRule}]] /\ zone \in [Hosts -> Records]
      /\ host \in Hosts /\ t # NoID
  BY ConstantsAssumption DEF TypeOK
<1>1. CASE QuietStep
  BY <1>1 DEF QuietStep, cloud, Entry
<1>2. CASE ConfigStep
  <2>1. CASE t # target
    BY <1>2, <1>a, <2>1 DEF ConfigStep, Entry
  <2>2. CASE t = target /\ h \notin copy.spec.hosts
    <3>1. configs'[t][h] = configs[t][h]
      BY <1>2, <1>a, <2>2 DEF ConfigStep, NewConfig, SnapIsCurrent
    <3> QED
      BY <1>2, <3>1 DEF ConfigStep, Entry
  <2>3. CASE t = target /\ h \in copy.spec.hosts /\ Removing
    <3>1. configs'[t][h] = NoRule
      BY <1>2, <1>a, <2>3 DEF ConfigStep, NewConfig
    <3> QED
      BY <1>2, <3>1 DEF ConfigStep, Entry
  <2>4. CASE t = target /\ h \in copy.spec.hosts /\ ~Removing
    BY <1>2, <2>4 DEF ConfigStep, NewEntry
  <2> QED
    BY <2>1, <2>2, <2>3, <2>4
<1>3. CASE ZoneStep
  <2>1. host \in copy.spec.hosts
    BY <1>3 DEF ZoneStep, WorksOnItsHosts
  <2>2. CASE h # host \/ Removing \/ t # target
    BY <1>3, <1>a, <2>2 DEF ZoneStep, Entry
  <2>3. CASE h = host /\ ~Removing /\ t = target
    BY <1>3, <2>1, <2>3 DEF ZoneStep, NewEntry
  <2> QED
    BY <2>2, <2>3
<1>4. ASSUME NEW c \in CFTunnels, TunnelStep(c) PROVE Entry(t, h)
  <2>1. configs'[t] \in {configs[t], NoConfig} /\ zone'[h] \in {zone[h], NoID}
    BY <1>4, TunnelStepTakesAway
  <2> QED
    BY <1>a, <2>1 DEF Entry, NoConfig
<1>5. ASSUME NEW u \in TunnelIDs, LossStep(u) PROVE Entry(t, h)
  <2>1. configs'[t] \in {configs[t], NoConfig} /\ zone' = zone
    BY <1>5, <1>a DEF LossStep
  <2> QED
    BY <2>1 DEF Entry, NoConfig
<1> QED
  BY <1>1, <1>2, <1>3, <1>4, <1>5, WorldStepsOfNext DEF WorldSteps

LEMMA OwnerStep ==
  ASSUME StaysPut, TypeOK, IngressVersions, CopyIsGuarded, NEW i \in Ingresses, NEW c, NEW h,
         Owns(i, c, h), [Next]_vars
  PROVE  Owns(i, c, h)' \/ (RemovalStep /\ name = i)
<1>a. Ing(i) \in Ings /\ Ing(i).spec \in Specs[i] /\ h \in Ing(i).spec.hosts /\ Ing(i).fin /\ c \in Home(i)
  BY StoredGuarded DEF Owns
<1>b. ASSUME NEW v, Ing(i)' = v, v.fin, v.spec \in Specs[i] PROVE Owns(i, c, h)'
  <2>1. v.spec.hosts = Ing(i).spec.hosts
    BY <1>a, <1>b, Stays
  <2>2. Home(i)' = Home(i)
    BY DEF Home, Uses
  <2> QED
    BY <1>a, <1>b, <2>1, <2>2 DEF Owns
<1>1. ASSUME Ing(i)' = Ing(i) PROVE Owns(i, c, h)'
  BY <1>1, <1>a, <1>b
<1>2. CASE FinalizerStep
  <2> DEFINE ing == [copy EXCEPT !.fin = TRUE]
  <2>1. copy \in Ings /\ copy.spec \in Specs[name]
    BY <1>2 DEF FinalizerStep, CopyIsGuarded, TypeOK
  <2>2. ing \in Ings /\ ing.fin /\ ing.spec = copy.spec
    BY <2>1, RecordTypes DEF Ings
  <2>3. PICK n \in Ingresses : n = name
    BY DEF TypeOK
  <2>4. IF n = i THEN Ing(i)' = ing ELSE Ing(i)' = Ing(i)
    BY <1>2, <2>2, <2>3, IngAppended DEF FinalizerStep
  <2> QED
    BY <1>1, <1>b, <2>1, <2>2, <2>3, <2>4
<1>3. CASE RemovalStep
  <2>1. PICK n \in Ingresses : n = name
    BY DEF TypeOK
  <2>2. n # i => Ing(i)' = Ing(i)
    BY <1>3, <2>1, IngAppended, RecordTypes DEF RemovalStep
  <2> QED
    BY <1>1, <1>3, <2>1, <2>2
<1>4. ASSUME NEW j \in Ingresses, UserStep(j) PROVE Owns(i, c, h)'
  <2>1. PICK v \in Ings : IngAppend(j, v) /\ Successor(j, Ing(j), v)
    BY <1>4 DEF UserStep
  <2>2. CASE j # i
    <3>1. Ing(i)' = Ing(i)
      BY <2>1, <2>2, IngAppended
    <3> QED
      BY <1>1, <3>1
  <2>3. CASE j = i
    <3>1. Ing(i)' = v
      BY <2>1, <2>3, IngAppended
    <3>2. v.fin /\ v.spec \in Specs[i]
      BY <1>a, <2>1, <2>3 DEF Successor
    <3> QED
      BY <1>b, <3>1, <3>2
  <2> QED
    BY <2>2, <2>3
<1>5. ASSUME NEW j \in Ingresses, ObserveStep(j) PROVE Owns(i, c, h)'
  <2>1. Ing(i)' = Ing(i)
    BY <1>5, IngTailed DEF ObserveStep
  <2> QED
    BY <1>1, <2>1
<1>6. CASE OtherStep
  BY <1>1, <1>6 DEF OtherStep, Ing
<1> QED
  BY <1>2, <1>3, <1>4, <1>5, <1>6, IngStepsOfNext DEF IngSteps

LEMMA NamedTunnel ==
  ASSUME NEW c \in Uses(copy.spec) PROVE copy.spec.tunnel # "malformed"
BY ConstantsAssumption DEF Uses

\* Reconcile does not get to the tunnels of an Ingress whose annotation it cannot read.
Named == pc \in {"getConfig", "putConfig", "getDNS", "putDNS", "unfinalize"} => copy.spec.tunnel # "malformed"

LEMMA NamedStep == ASSUME Named, [Next]_vars PROVE Named'
<1>1. CASE Idle
  BY <1>1 DEF Idle, Named
<1>2. CASE Rest
  BY <1>2 DEF Rest, Named
<1>3. CASE ResolveMove
  BY <1>3, NamedTunnel DEF ResolveMove, Named, Candidates
<1>4. CASE Move /\ ~ResolveMove
  BY <1>4 DEF Named, Move, GetMove, AddFinalizerMove, GetConfigMove, PutConfigMove, GetDNSMove, PutDNSMove,
              NextMove
<1> QED
  BY <1>1, <1>2, <1>3, <1>4, AllMoves

\* With the finalizer go the last entries: see CleansBeforeLeaving.
LEMMA RemovalLeavesNothing ==
  ASSUME StaysPut, TypeOK, IngressVersions, CopyIsGuarded, WorksOnItsHosts, Named, CleansBeforeLeaving,
         RemovalStep, NEW c \in CFTunnels, NEW h \in Hosts, Owns(name, c, h), Serving(c)
  PROVE  ~Entry(CF(c).tid, h)
<1>1. /\ name \in Ingresses /\ copy.spec \in Specs[name] /\ pc = "unfinalize" /\ Finalizing /\ todo = {}
      /\ copy.spec.tunnel # "malformed"
  BY DEF RemovalStep, CopyIsGuarded, WorksOnItsHosts, TypeOK, Named
<1>2. Ing(name).spec \in Specs[name] /\ h \in Ing(name).spec.hosts
  BY <1>1, StoredGuarded DEF Owns
<1>3. h \in copy.spec.hosts
  BY <1>1, <1>2, Stays
<1>4. PICK s \in Specs[name] : c \in Uses(s)
  BY DEF Owns, Home
<1>5. c \in Uses(copy.spec)
  BY <1>1, <1>4, Stays
<1> QED
  BY <1>1, <1>3, <1>5 DEF CleansBeforeLeaving, Entry

LEMMA OwnedStep ==
  ASSUME StaysPut, TypeOK, IngressVersions, CopyIsGuarded, WorksOnItsHosts, SnapIsCurrent, TunnelVersions,
         UnreachedAreUntouched, TargetIsUsed, Named, CleansBeforeLeaving, EntriesAreOwned, [Next]_vars
  PROVE  EntriesAreOwned'
<1> SUFFICES ASSUME NEW c \in CFTunnels, NEW h \in Hosts, Serving(c)', NEW t, t = CF(c)'.tid, Entry(t, h)'
             PROVE  \E i \in Ingresses : Owns(i, c, h)'
  BY DEF EntriesAreOwned, Entry, Owns, Home, Uses
<1>1. CASE t \in TunnelIDs \ issued
  <2>1. Untouched(t)'
    BY <1>1, FreshIsUntouched
  <2>2. t # NoID
    BY <1>1, ConstantsAssumption
  <2> QED
    BY <2>1, <2>2 DEF Untouched, Entry, NoConfig
<1>2. CASE Serving(c) /\ t = CF(c).tid
  <2>1. t \in TunnelIDs
    BY <1>2, CachedTypes DEF Serving, IDs
  <2>2. CASE Entry(t, h)
    <3>1. PICK i \in Ingresses : Owns(i, c, h)
      BY <1>2, <2>2 DEF EntriesAreOwned, Entry, Owns
    <3>2. ~(RemovalStep /\ name = i)
      BY <1>2, <2>2, <3>1, RemovalLeavesNothing
    <3> QED
      BY <3>1, <3>2, OwnerStep
  <2>3. CASE NewEntry(t, h)
    <3>1. PICK n \in Ingresses : n = name
      BY DEF TypeOK
    <3>2. /\ copy.spec \in Specs[n] /\ Ing(n).fin /\ h \in copy.spec.hosts
      BY <2>3, <3>1 DEF NewEntry, CopyIsGuarded, Removing, Finalizing, TypeOK, Ings
    <3>3. Ing(n).spec \in Specs[n]
      BY <3>2, StoredGuarded
    <3>4. h \in Ing(n).spec.hosts
      BY <3>2, <3>3, Stays
    <3>5. c \in Uses(copy.spec)
      <4>1. \E k \in 1..Len(cfs[c]) : cfs[c][k].tid = target
        BY <1>2, <2>3, CFLog DEF NewEntry
      <4>2. target # NoID
        BY <2>1, <2>3, ConstantsAssumption DEF NewEntry
      <4> QED
        BY <4>1, <4>2 DEF TargetIsUsed
    <3>6. c \in Home(n)
      BY <3>2, <3>5 DEF Home
    <3>7. Owns(n, c, h) /\ ings' = ings
      BY <2>3, <3>2, <3>4, <3>6 DEF Owns, NewEntry
    <3>8. Owns(n, c, h)'
      BY <3>7 DEF Owns, Ing, Home, Uses
    <3> QED
      BY <3>8
  <2> QED
    BY <2>1, <2>2, <2>3, EntryStep
<1> QED
  BY <1>1, <1>2, ServingStep

OwnedInvariant == CleanInvariant /\ Named /\ EntriesAreOwned

\* Where Ingresses stay with their hosts and their tunnel, each entry of a live tunnel
\* is answered for by an Ingress of that tunnel that keeps its finalizer (lines 61-142).
THEOREM OwnedInvariantHolds == ASSUME StaysPut PROVE Spec => []OwnedInvariant
<1>1. Init => Named /\ EntriesAreOwned
  BY DEF Init, Named, EntriesAreOwned, Serving, CF, NoCF
<1>2. ASSUME OwnedInvariant, CleanInvariant', [Next]_vars PROVE OwnedInvariant'
  <2>1. /\ TypeOK /\ WorksOnItsHosts /\ IngressVersions /\ CopyIsGuarded /\ TunnelVersions /\ SnapIsCurrent
        /\ UnreachedAreUntouched /\ TargetIsUsed
    BY <1>2 DEF OwnedInvariant, CleanInvariant, BaseInvariant
  <2>2. EntriesAreOwned' /\ Named'
    BY <1>2, <2>1, OwnedStep, NamedStep DEF OwnedInvariant, CleanInvariant
  <2> QED
    BY <1>2, <2>2 DEF OwnedInvariant
<1>3. Init /\ CleanInvariant => OwnedInvariant
  BY <1>1 DEF OwnedInvariant
<1>4. Spec => []CleanInvariant
  BY StaysHasOne, CleanInvariantHolds
<1> QED
  BY <1>2, <1>3, <1>4, PTL DEF Spec

\* A rule or a record that leads to a live tunnel always has an Ingress with the
\* finalizer that lists its host, for any number of them, when no user moves an
\* Ingress to other hosts or another tunnel (lines 61-80).
THEOREM EntriesGo == ASSUME StaysPut PROVE Spec => []EntriesGoWithIngress
<1>1. OwnedInvariant => EntriesGoWithIngress
  BY DEF OwnedInvariant, EntriesAreOwned, EntriesGoWithIngress
<1> QED
  BY <1>1, OwnedInvariantHolds, PTL

-----------------------------------------------------------------------------
(* When Ingresses share no host and a CloudflareTunnel is created once: nothing is forgotten *)

LEMMA Apart ==
  ASSUME SharesNoHost, NEW i \in Ingresses, NEW j \in Ingresses, NEW h, h \in Hosted(i), h \in Hosted(j)
  PROVE  i = j
BY DEF SharesNoHost

LEMMA NamesOne ==
  ASSUME NEW s, NEW c \in CFTunnels, s.tunnel = c PROVE Uses(s) = {c}
BY ConstantsAssumption DEF Uses

LEMMA ObjectStep ==
  ASSUME TypeOK, NEW c \in CFTunnels, [Next]_vars
  PROVE  \/ cfs'[c] = cfs[c] /\ made'[c] = made[c]
         \/ ObserveCF(c) /\ made'[c] = made[c]
         \/ TunnelStep(c) /\ \E v \in CFs : NewCF(c, v)
<1>a. made \in [Ingresses \cup CFTunnels -> Nat] /\ c \notin Ingresses
  BY ConstantsAssumption DEF TypeOK
<1>1. CASE Worker
  BY <1>1 DEF Worker, Get, AddFinalizer, Put, Resolve, GetTunnelConfiguration, UpdateTunnelConfiguration,
              GetDNS, PutDNS, RemoveFinalizer
<1>2. CASE UNCHANGED vars
  BY <1>2 DEF vars
<1>3. ASSUME NEW i \in Ingresses,
             CreateIngress(i) \/ EditIngress(i) \/ AssignIP(i) \/ DeleteIngress(i) \/ ObserveIngress(i)
      PROVE  cfs'[c] = cfs[c] /\ made'[c] = made[c]
  BY <1>3, <1>a DEF CreateIngress, EditIngress, AssignIP, DeleteIngress, ObserveIngress, Store
<1>4. CASE Restart
  BY <1>4 DEF Restart
<1>5. ASSUME NEW d \in CFTunnels, TunnelStep(d)
      PROVE  \/ cfs'[c] = cfs[c] /\ made'[c] = made[c]
             \/ ObserveCF(c) /\ made'[c] = made[c]
             \/ TunnelStep(c) /\ \E v \in CFs : NewCF(c, v)
  <2>1. ASSUME NEW v \in CFs, NewCF(d, v), d # c PROVE cfs'[c] = cfs[c] /\ made'[c] = made[c]
    BY <1>a, <2>1, CFAppended DEF NewCF
  <2>2. ASSUME ObserveCF(d), d # c PROVE cfs'[c] = cfs[c]
    BY <2>2, CFTailed
  <2> QED
    BY <1>5, <2>1, <2>2, TunnelStepKinds
<1>6. CASE \E d \in CFTunnels : TunnelStep(d)
  BY <1>5, <1>6
<1>7. (\E d \in CFTunnels : CreateCF(d) \/ DeleteCF(d) \/ ObserveCF(d)) \/ TunnelSteps
        => LoseTunnel \/ \E d \in CFTunnels : TunnelStep(d)
  BY DEF TunnelSteps, CreateCF, DeleteCF, ObserveCF, StoreCF, RecordTunnel, ListRecords, DeleteRecord,
         DeleteTunnel, TunnelStep, Rest, worker
<1>8. CASE LoseTunnel
  BY <1>8 DEF LoseTunnel
<1> QED
  BY <1>1, <1>2, <1>3, <1>4, <1>6, <1>7, <1>8 DEF Next, Users

LEMMA MadeOnceStep ==
  ASSUME CreatesOnce, TypeOK, TunnelVersions, MadeOnce, [Next]_vars PROVE MadeOnce'
<1> SUFFICES ASSUME NEW c \in CFTunnels
             PROVE  /\ made'[c] \in 0..MaxCF
                    /\ \A k \in 1..Len(cfs'[c]) :
                         /\ made'[c] = 0 => cfs'[c][k].phase = "absent"
                         /\ CF(c)'.phase = "live" => cfs'[c][k].tid \in {NoID, CF(c)'.tid}
  BY DEF MadeOnce
<1>a. /\ made[c] \in 0..MaxCF
      /\ \A k \in 1..Len(cfs[c]) :
           /\ made[c] = 0 => cfs[c][k].phase = "absent"
           /\ CF(c).phase = "live" => cfs[c][k].tid \in {NoID, CF(c).tid}
  BY DEF MadeOnce
<1>b. made \in [Ingresses \cup CFTunnels -> Nat] /\ MaxCF \in Nat
  BY ConstantsAssumption DEF TypeOK
<1>1. CASE cfs'[c] = cfs[c] /\ made'[c] = made[c]
  BY <1>1, <1>a DEF CF
<1>2. CASE ObserveCF(c) /\ made'[c] = made[c]
  BY <1>2, <1>a, CFTailed
<1>3. ASSUME NEW v \in CFs, NewCF(c, v)
      PROVE  /\ made'[c] \in 0..MaxCF
             /\ \A k \in 1..Len(cfs'[c]) :
                  /\ made'[c] = 0 => cfs'[c][k].phase = "absent"
                  /\ CF(c)'.phase = "live" => cfs'[c][k].tid \in {NoID, CF(c)'.tid}
  <2>1. /\ CF(c)' = v
        /\ \A k \in 1..Len(cfs'[c]) : (k \in 1..Len(cfs[c]) /\ cfs'[c][k] = cfs[c][k]) \/ cfs'[c][k] = v
    BY <1>3, CFAppended DEF NewCF
  <2>2. CF(c) = cfs[c][Len(cfs[c])] /\ Len(cfs[c]) \in 1..Len(cfs[c])
    BY CFLog
  <2>3. CASE CF(c).phase = "absent" /\ v.phase = "live" /\ v.tid = NoID
             /\ made[c] < MaxCF /\ made' = [made EXCEPT ![c] = @ + 1]
    <3>1. made[c] = 0 /\ made'[c] = 1 /\ MaxCF = 1
      BY <1>a, <1>b, <2>3 DEF CreatesOnce
    <3>2. \A k \in 1..Len(cfs[c]) : cfs[c][k].tid = NoID
      BY <1>a, <3>1 DEF TunnelVersions
    <3> QED
      BY <2>1, <2>3, <3>1, <3>2
  <2>4. CASE CF(c).phase = "live" /\ CF(c).tid = NoID /\ v.phase = "live" /\ UNCHANGED made
    BY <1>a, <2>1, <2>2, <2>4
  <2>5. CASE CF(c).phase = "live" /\ v.phase = "deleting" /\ UNCHANGED made
    BY <1>a, <2>1, <2>2, <2>5
  <2>6. CASE v.phase = "absent" /\ UNCHANGED made
    BY <1>a, <2>1, <2>2, <2>6
  <2> QED
    BY <1>3, <2>3, <2>4, <2>5, <2>6 DEF NewCF
<1> QED
  BY <1>1, <1>2, <1>3, ObjectStep

LEMMA MadeUnlessAbsent ==
  ASSUME TypeOK, MadeOnce, NEW c \in CFTunnels, NEW k \in 1..Len(cfs[c]), cfs[c][k].phase # "absent"
  PROVE  made[c] > 0
BY DEF TypeOK, MadeOnce

LEMMA GoneStep ==
  ASSUME CreatesOnce, TypeOK, MadeOnce, NEW c \in CFTunnels, Gone(c), [Next]_vars PROVE Gone(c)'
<1>a. made[c] > 0 /\ made[c] \in Nat /\ CF(c).phase # "live"
  BY DEF Gone, TypeOK
<1>1. CASE cfs'[c] = cfs[c] /\ made'[c] = made[c]
  BY <1>1, <1>a DEF Gone, CF
<1>2. CASE ObserveCF(c) /\ made'[c] = made[c]
  BY <1>2, <1>a, CFTailed DEF Gone
<1>3. ASSUME NEW v \in CFs, NewCF(c, v) PROVE Gone(c)'
  <2>1. CF(c)' = v
    BY <1>3, CFAppended DEF NewCF
  <2>2. ~(made[c] < MaxCF)
    BY <1>a, ConstantsAssumption DEF CreatesOnce
  <2> QED
    BY <1>3, <1>a, <2>1, <2>2 DEF NewCF, Gone
<1> QED
  BY <1>1, <1>2, <1>3, ObjectStep

LEMMA LostStays ==
  ASSUME CreatesOnce, TypeOK, MadeOnce, NEW h, NEW c, Lost(h, c), zone'[h] = zone[h], [Next]_vars
  PROVE  Lost(h, c)'
<1>1. PICK d \in CFTunnels \ {c} : Gone(d) /\ Linked(h, d)
  BY DEF Lost
<1>2. Gone(d)'
  BY <1>1, GoneStep
<1>3. Linked(h, d)'
  BY <1>1 DEF Linked, Hosted, Home, Uses
<1> QED
  BY <1>2, <1>3 DEF Lost

\* a live object whose tunnel is recorded, whether that exists or has been lost
Recorded(c) == CF(c).phase = "live" /\ CF(c).tid # NoID

LEMMA RecordedOrGone ==
  ASSUME TypeOK, TunnelVersions, MadeOnce, TargetIsServed, Writing, NEW c \in CFTunnels,
         copy.spec.tunnel = c
  PROVE  Gone(c) \/ (Recorded(c) /\ CF(c).tid = target /\ target \in TunnelIDs)
<1>1. CF(c) = cfs[c][Len(cfs[c])] /\ Len(cfs[c]) \in 1..Len(cfs[c]) /\ CF(c) \in CFs
  BY CFLog
<1>2. CASE CF(c).tid = target /\ target # NoID
  <2>1. CF(c).phase # "absent"
    BY <1>1, <1>2 DEF TunnelVersions
  <2>2. made[c] > 0
    BY <1>1, <2>1, MadeUnlessAbsent
  <2> QED
    BY <1>1, <1>2, <2>2 DEF Gone, Recorded, CFs, IDs
<1> QED
  BY <1>2 DEF TargetIsServed, Writing

LEMMA ServedStep ==
  ASSUME CreatesOnce, TypeOK, TunnelVersions, MadeOnce, PurgesItsOwn, TargetIsServed, [Next]_vars
  PROVE  TargetIsServed'
<1> SUFFICES ASSUME Writing', NEW c \in CFTunnels, copy'.spec.tunnel = c
             PROVE  CF(c)'.tid = target' \/ Gone(c)'
  <2>1. ASSUME Writing' PROVE target' # NoID
    <3>1. CASE ResolveMove
      BY <2>1, <3>1 DEF ResolveMove, Writing
    <3>2. CASE Writing /\ UNCHANGED <<copy, target>>
      BY <3>2 DEF Writing, TargetIsServed
    <3> QED
      BY <2>1, <3>1, <3>2, WritingMove
  <2> QED
    BY <2>1 DEF TargetIsServed, Writing
<1>1. CASE ResolveMove /\ QuietStep
  <2>1. PICK d \in Candidates : target' = CachedCF(d).tid /\ target' # NoID /\ CachedCF(d).phase = "live"
    BY <1>1 DEF ResolveMove, Writing
  <2>2. copy' = copy /\ UNCHANGED cfs /\ pc # "idle"
    BY <1>1 DEF ResolveMove, QuietStep
  <2>5. d = c
    BY <2>1, <2>2, NamesOne DEF Candidates
  <2>6. CASE CF(c).phase = "live"
    <3>1. CachedCF(c).tid \in {NoID, CF(c).tid}
      BY <2>6, CFLog DEF MadeOnce
    <3> QED
      BY <2>1, <2>2, <2>5, <3>1 DEF CF
  <2>7. CASE CF(c).phase # "live"
    <3>1. made[c] > 0
      BY <2>1, <2>5, MadeUnlessAbsent, CFLog
    <3>2. Gone(c)
      BY <2>7, <3>1 DEF Gone
    <3> QED
      BY <2>1, <3>2, GoneStep
  <2> QED
    BY <2>6, <2>7
<1>2. CASE Writing /\ UNCHANGED <<copy, target>>
  <2>1. CASE Gone(c)
    BY <1>2, <2>1, GoneStep DEF TargetIsServed, Writing
  <2>2. CASE Recorded(c) /\ CF(c).tid = target
    <3>1. CASE CF(c)' = CF(c)
      BY <1>2, <2>2, <3>1
    <3>2. CASE cfs'[c] = cfs[c] \/ ObserveCF(c)
      BY <3>1, <3>2, CFTailed DEF CF
    <3>3. ASSUME NEW v \in CFs, NewCF(c, v) PROVE CF(c)'.tid = target'
      <4>1. CF(c)' = v
        BY <3>3, CFAppended DEF NewCF
      <4>2. ~purge[c].listed
        BY <2>2 DEF PurgesItsOwn, Recorded
      <4> QED
        BY <1>2, <2>2, <3>3, <4>1, <4>2 DEF NewCF, Recorded
    <3> QED
      BY <1>2, <2>2, <3>2, <3>3, ObjectStep
  <2> QED
    BY <1>2, <2>1, <2>2, RecordedOrGone
<1> QED
  BY <1>1, <1>2, WritingMove

\* Other tunnel objects do not reach the rules of an Ingress; a record may be lost.
LEMMA TunnelStepSpares ==
  ASSUME CreatesOnce, TypeOK, TunnelVersions, MadeOnce, PurgesItsOwn, NEW c \in CFTunnels, Serving(c),
         NEW h \in Hosts, NEW d \in CFTunnels, TunnelStep(d), [Next]_vars
  PROVE  configs'[CF(c).tid][h] = configs[CF(c).tid][h] /\ (zone'[h] = zone[h] \/ Lost(h, c)')
<1>b. CF(c).tid \in TunnelIDs /\ CF(c).tid # NoID
  BY CachedTypes DEF Serving, IDs
<1>c. purge[c].left = {} /\ ~purge[c].listed
  BY DEF PurgesItsOwn, Serving
<1>1. CASE DeleteRecord(d)
  <2>1. PICK g \in purge[d].left : zone' = [zone EXCEPT ![g] = NoID] /\ UNCHANGED configs
    BY <1>1 DEF DeleteRecord
  <2>2. Linked(g, d) /\ CF(d).phase = "deleting"
    BY <2>1 DEF PurgesItsOwn
  <2>3. Gone(d)
    BY <2>2, CFLog, MadeUnlessAbsent DEF Gone
  <2>4. CASE g = h
    <3>1. d # c /\ zone'[h] = NoID
      BY <1>c, <2>1, <2>4 DEF TypeOK
    <3>2. Gone(d)'
      BY <2>3, GoneStep
    <3>3. Linked(h, d)'
      BY <2>2, <2>4 DEF Linked, Hosted, Home, Uses
    <3> QED
      BY <2>1, <3>1, <3>2, <3>3 DEF Lost
  <2>5. CASE g # h
    BY <2>1, <2>5 DEF TypeOK
  <2> QED
    BY <2>4, <2>5
<1>2. CASE DeleteTunnel(d)
  <2>1. d # c
    BY <1>c, <1>2 DEF DeleteTunnel
  <2>2. CF(d).tid # CF(c).tid
    BY <1>b, <2>1, CFLog DEF TunnelVersions
  <2> QED
    BY <1>2, <1>b, <2>2 DEF DeleteTunnel
<1> QED
  BY <1>1, <1>2 DEF TunnelStep, CreateCF, DeleteCF, ObserveCF, RecordTunnel, ListRecords, cloud

InHand(h, c) ==
  configs[target][h] = RightRule(h) /\ (h \in todo \/ zone[h] = RightRecord \/ Lost(h, c))

\* A recorded object stays as it is until it is deleted.
LEMMA RecordedStays ==
  ASSUME TypeOK, MadeOnce, PurgesItsOwn, NEW c \in CFTunnels, Recorded(c), [Next]_vars
  PROVE  Gone(c)' \/ (Recorded(c)' /\ CF(c)' = CF(c))
<1>a. made[c] > 0
  BY CFLog, MadeUnlessAbsent DEF Recorded
<1>1. CASE cfs'[c] = cfs[c] \/ ObserveCF(c)
  BY <1>1, CFTailed DEF Recorded, CF
<1>2. ASSUME NEW v \in CFs, NewCF(c, v) PROVE Gone(c)'
  <2>1. CF(c)' = v
    BY <1>2, CFAppended DEF NewCF
  <2>2. ~purge[c].listed
    BY DEF PurgesItsOwn, Recorded
  <2> QED
    BY <1>2, <1>a, <2>1, <2>2 DEF NewCF, Recorded, Gone
<1> QED
  BY <1>1, <1>2, ObjectStep

LEMMA InHandStep ==
  ASSUME CreatesOnce, TypeOK, CopyIsGuarded, WorksOnItsHosts, TunnelVersions, MadeOnce, PurgesItsOwn,
         TargetIsServed, EntriesInHand, [Next]_vars
  PROVE  EntriesInHand'
<1> SUFFICES ASSUME Looking', NEW c \in CFTunnels, copy'.spec.tunnel = c, Serving(c)', NEW h \in copy'.spec.hosts
             PROVE  InHand(h, c)'
  BY DEF EntriesInHand, Looking, InHand, RightRule, RightRecord
<1>a. UNCHANGED <<copy, target>> /\ copy.spec.tunnel = c /\ h \in copy.spec.hosts
  BY LookingStep
<1>b. h \in Hosts
  BY <1>a DEF TypeOK, Ings, SpecType
<1>c. RightRule(h)' = RightRule(h) /\ RightRecord' = RightRecord
  BY <1>a DEF RightRule, RightRecord, Removing, Finalizing, Endpoint
<1>d. /\ configs \in [TunnelIDs -> [Hosts -> Endpoints \cup {NoRule}]] /\ zone \in [Hosts -> Records]
      /\ host \in Hosts
  BY DEF TypeOK
<1>e. Writing
  BY LookingStep DEF Writing, Looking, ConfigStep
<1>f. Serving(c) /\ CF(c).tid = target /\ target \in TunnelIDs \cap tunnels'
  <2>1. ~Gone(c) /\ ~Gone(c)'
    BY <1>a, GoneStep DEF Gone, Serving
  <2>2. Recorded(c) /\ CF(c).tid = target /\ target \in TunnelIDs
    BY <1>a, <1>e, <2>1, RecordedOrGone
  <2>3. CF(c)' = CF(c)
    BY <2>1, <2>2, RecordedStays
  <2>4. CF(c).tid \in issued \cup {NoID}
    BY CFLog DEF TunnelVersions
  <2>5. Serving(c)
    BY <2>2, <2>3, <2>4, ServingStep, ConstantsAssumption
  <2> QED
    BY <2>2, <2>3, <2>5 DEF Serving
<1>g. Lost(h, c) /\ zone'[h] = zone[h] => Lost(h, c)'
  BY LostStays
<1>1. CASE ConfigStep /\ PutConfigMove
  <2>1. configs'[target][h] = RightRule(h)
    BY <1>1, <1>a, <1>b, <1>d, <1>f DEF ConfigStep, NewConfig, RightRule
  <2>2. h \in todo'
    BY <1>1, <1>a DEF PutConfigMove, NextMove
  <2> QED
    BY <1>a, <1>c, <2>1, <2>2 DEF InHand
<1>2. CASE Looking
  <2>0. InHand(h, c)
    BY <1>2, <1>a, <1>f DEF EntriesInHand, Looking, InHand, RightRule, RightRecord
  <2>1. CASE Rest /\ QuietStep
    BY <1>c, <1>g, <2>0, <2>1 DEF Rest, QuietStep, cloud, InHand
  <2>2. CASE GetDNSMove /\ QuietStep
    <3>1. configs' = configs /\ zone' = zone /\ target' = target
      BY <1>a, <2>2 DEF QuietStep, cloud
    <3>2. h \in todo => h \in todo' \/ zone[h] = RightRecord
      BY <2>2 DEF GetDNSMove, NextMove, RightRecord
    <3> QED
      BY <1>c, <1>g, <2>0, <3>1, <3>2 DEF InHand
  <2>3. CASE PutDNSMove /\ ZoneStep
    <3>1. configs' = configs /\ target' = target /\ zone' = [zone EXCEPT ![host] = RightRecord]
          /\ todo' = todo \ {host}
      BY <1>a, <2>3 DEF ZoneStep, RightRecord, PutDNSMove, NextMove
    <3> QED
      BY <1>b, <1>c, <1>d, <1>g, <2>0, <3>1 DEF InHand
  <2>4. ASSUME NEW d \in CFTunnels, TunnelStep(d), Rest PROVE InHand(h, c)'
    <3>1. configs'[target][h] = configs[target][h] /\ (zone'[h] = zone[h] \/ Lost(h, c)')
      BY <1>b, <1>f, <2>4, TunnelStepSpares
    <3> QED
      BY <1>a, <1>c, <1>g, <2>0, <2>4, <3>1 DEF InHand, Rest
  <2>5. ASSUME NEW u \in TunnelIDs, LossStep(u), Rest PROVE InHand(h, c)'
    <3>1. configs'[target] = configs[target] /\ zone' = zone
      BY <1>d, <1>f, <2>5 DEF LossStep
    <3> QED
      BY <1>a, <1>c, <1>g, <2>0, <2>5, <3>1 DEF InHand, Rest
  <2> QED
    BY <1>1, <2>1, <2>2, <2>3, <2>4, <2>5, LookingStep
<1> QED
  BY <1>1, <1>2, LookingStep

LEMMA Dequeue ==
  ASSUME NEW i \in Ingresses, i \in queue, i \notin queue', [Next]_vars PROVE Get(i)
<1>1. CASE Worker
  BY <1>1 DEF Worker, Get, AddFinalizer, Put, Call, Resolve, UseTunnel, GetTunnelConfiguration,
              UpdateTunnelConfiguration, GetDNS, PutDNS, RemoveFinalizer, NextHost, Finish, Return
<1>2. CASE Users
  BY <1>2 DEF Users, CreateIngress, EditIngress, AssignIP, DeleteIngress, ObserveIngress, Store, CreateCF,
              DeleteCF, ObserveCF, StoreCF, Restart
<1>3. CASE TunnelSteps
  BY <1>3 DEF TunnelSteps, RecordTunnel, ListRecords, DeleteRecord, DeleteTunnel, LoseTunnel, StoreCF
<1> QED
  BY <1>1, <1>2, <1>3 DEF Next, vars

\* How Reconcile ends without an error
DoneStep ==
  \/ pc = "resolve" /\ copy.spec.tunnel = "default"
  \/ pc = "unfinalize" /\ RemovalStep
  \/ pc = "putConfig" /\ ~Finalizing /\ copy.spec.hosts = {} /\ ConfigStep
  \/ /\ pc = "getDNS" /\ ~Finalizing /\ UNCHANGED <<cfs, cloud>>
     /\ \E h \in todo : todo \ {h} = {} /\ zone[h] = RightRecord
  \/ pc = "putDNS" /\ ~Finalizing /\ todo \ {host} = {} /\ ZoneStep

LEMMA LastHost ==
  ASSUME NEW left, NextHost(left) PROVE (left = {} /\ ~Finalizing) \/ pc' # "idle"
BY DEF NextHost, Finish

LEMMA ReturnStep ==
  ASSUME TypeOK, [Next]_vars, pc # "idle", pc' = "idle" PROVE name \in queue' \/ DoneStep
<1>1. CASE Worker
  <2>1. ~\E i \in Ingresses : Get(i)
    BY DEF Get
  <2>2. CASE AddFinalizer
    BY <2>2 DEF AddFinalizer, Put, Call, Return
  <2>3. CASE Resolve
    <3>1. ASSUME NEW c \in Candidates, UseTunnel(c) PROVE name \in queue'
      BY <3>1 DEF UseTunnel, Return
    <3> QED
      BY <2>3, <3>1 DEF Resolve, Return, DoneStep
  <2>4. CASE GetTunnelConfiguration
    BY <2>4 DEF GetTunnelConfiguration, Call, Return
  <2>5. CASE UpdateTunnelConfiguration
    <3>1. \/ Return(TRUE)
          \/ /\ target \in tunnels /\ configs' = [configs EXCEPT ![target] = NewConfig]
             /\ NextHost(copy.spec.hosts)
      BY <2>5 DEF UpdateTunnelConfiguration, Call
    <3>2. CASE NextHost(copy.spec.hosts) /\ target \in tunnels
               /\ configs' = [configs EXCEPT ![target] = NewConfig]
      BY <2>5, <3>2, LastHost, NextHostMove DEF UpdateTunnelConfiguration, DoneStep, ConfigStep, NextMove
    <3> QED
      BY <3>1, <3>2 DEF Return
  <2>6. CASE GetDNS
    <3>1. PICK h \in todo : Return(TRUE) \/ (zone[h] = RightRecord /\ NextHost(todo \ {h}))
      BY <2>6 DEF GetDNS, Call, RightRecord
    <3> QED
      BY <2>6, <3>1, LastHost DEF GetDNS, DoneStep, Return
  <2>7. CASE PutDNS
    <3>1. \/ Return(TRUE)
          \/ zone' = [zone EXCEPT ![host] = IF Removing THEN NoID ELSE target] /\ NextHost(todo \ {host})
      BY <2>7 DEF PutDNS, Call
    <3>2. CASE zone' = [zone EXCEPT ![host] = IF Removing THEN NoID ELSE target] /\ NextHost(todo \ {host})
      BY <2>7, <3>2, LastHost, NextHostMove DEF PutDNS, DoneStep, ZoneStep, NextMove
    <3> QED
      BY <3>1, <3>2 DEF Return
  <2>8. CASE RemoveFinalizer
    BY <2>8 DEF RemoveFinalizer, Put, Call, Return, DoneStep, RemovalStep, IngAppend
  <2> QED
    BY <1>1, <2>1, <2>2, <2>3, <2>4, <2>5, <2>6, <2>7, <2>8 DEF Worker
<1>2. CASE Users
  BY <1>2 DEF Users, CreateIngress, EditIngress, AssignIP, DeleteIngress, ObserveIngress, Store, CreateCF,
              DeleteCF, ObserveCF, StoreCF, Restart, worker, TypeOK
<1>3. CASE TunnelSteps
  BY <1>3 DEF TunnelSteps, RecordTunnel, ListRecords, DeleteRecord, DeleteTunnel, LoseTunnel, StoreCF,
              worker
<1> QED
  BY <1>1, <1>2, <1>3 DEF Next, vars, worker

LEMMA QuiescentVersion ==
  ASSUME TypeOK, IngressVersions, NEW i \in Ingresses, i \notin queue', Len(ings'[i]) = 1, [Next]_vars
  PROVE  ings'[i] = ings[i]
<1>1. ASSUME NEW n \in Ingresses, NEW v \in Ings, IngAppend(n, v) PROVE ings'[i] = ings[i]
  BY <1>1, IngAppended
<1>2. CASE FinalizerStep
  <2>1. name \in Ingresses /\ [copy EXCEPT !.fin = TRUE] \in Ings
    BY RecordTypes DEF TypeOK
  <2> QED
    BY <1>1, <1>2, <2>1 DEF FinalizerStep
<1>3. CASE RemovalStep
  BY <1>1, <1>3, RecordTypes DEF RemovalStep, TypeOK
<1>4. ASSUME NEW j \in Ingresses, UserStep(j) PROVE ings'[i] = ings[i]
  BY <1>1, <1>4 DEF UserStep
<1>5. ASSUME NEW j \in Ingresses, ObserveStep(j) PROVE ings'[i] = ings[i]
  BY <1>5, IngTailed DEF ObserveStep
<1>6. CASE OtherStep
  BY <1>6 DEF OtherStep
<1> QED
  BY <1>2, <1>3, <1>4, <1>5, <1>6, IngStepsOfNext DEF IngSteps

\* Tunnels are handed out for good, and a lost one does not come back.
LEMMA IssuedGrows == ASSUME TypeOK, [Next]_vars PROVE issued \subseteq issued'
<1>1. ASSUME NEW d \in CFTunnels, TunnelStep(d) PROVE issued \subseteq issued'
  BY <1>1, TunnelStepKinds DEF NewCF
<1> QED
  BY <1>1, WorldStepsOfNext DEF WorldSteps, QuietStep, ConfigStep, ZoneStep, LossStep, cloud

LEMMA ServingStays ==
  ASSUME TypeOK, TunnelVersions, MadeOnce, PurgesItsOwn, NEW c \in CFTunnels, Serving(c), [Next]_vars
  PROVE  Gone(c)' \/ Astray(c)' \/ (Serving(c)' /\ CF(c)' = CF(c))
<1>1. Gone(c)' \/ (Recorded(c)' /\ CF(c)' = CF(c))
  BY RecordedStays DEF Serving, Recorded
<1>2. CF(c).tid \in issued'
  BY IssuedGrows DEF Serving, TypeOK
<1> QED
  BY <1>1, <1>2 DEF Astray, Serving, Recorded

LEMMA AstrayStays ==
  ASSUME TypeOK, TunnelVersions, MadeOnce, CreatesOnce, PurgesItsOwn, NEW c \in CFTunnels, Astray(c),
         [Next]_vars
  PROVE  Gone(c)' \/ Astray(c)'
<1>1. CF(c).tid \in issued /\ CF(c).tid \in TunnelIDs /\ CF(c).tid # NoID
  BY ConstantsAssumption DEF Astray, TypeOK
<1>2. Recorded(c) \/ Gone(c)
  <2>1. CF(c).phase # "absent"
    BY <1>1, CFLog DEF TunnelVersions
  <2>2. made[c] > 0
    BY <2>1, CFLog, MadeUnlessAbsent
  <2> QED
    BY <1>1, <2>2 DEF Recorded, Gone
<1>3. CASE Recorded(c)
  <2>1. Gone(c)' \/ CF(c)' = CF(c)
    BY <1>3, RecordedStays
  <2>2. CF(c).tid \in issued' /\ CF(c).tid \notin tunnels'
    BY <1>1, IssuedGrows, NewTunnel DEF Astray
  <2> QED
    BY <2>1, <2>2 DEF Astray
<1> QED
  BY <1>2, <1>3, GoneStep

\* the rule and the record of host h of the stored Ingress i, through tunnel t
StoredRule(i, h) == IF Wants(i) THEN <<Ing(i).ip, h \in Ing(i).spec.tls>> ELSE NoRule
StoredRecord(i, t) == IF Wants(i) THEN t ELSE NoID

RecordOrLost(i, c, h) == zone[h] = StoredRecord(i, CF(c).tid) \/ Lost(h, c)

LEMMA DoneParts ==
  ASSUME NEW i, NEW c
  PROVE  Done(i, c) <=> /\ Serving(c)
                        /\ \A h \in Ing(i).spec.hosts :
                             configs[CF(c).tid][h] = StoredRule(i, h) /\ RecordOrLost(i, c, h)
BY Zenon DEF Done, StoredRule, StoredRecord, RecordOrLost

LEMMA DonePartsNext ==
  ASSUME NEW i, NEW c, Serving(c)',
         \A h \in Ing(i)'.spec.hosts : /\ configs'[CF(c)'.tid][h] = StoredRule(i, h)'
                                       /\ RecordOrLost(i, c, h)'
  PROVE  Done(i, c)'
BY Zenon DEF Done, StoredRule, StoredRecord, RecordOrLost

LEMMA SameStored ==
  ASSUME NEW i, NEW c, Ing(i)' = Ing(i), CF(c)' = CF(c)
  PROVE  /\ \A h : StoredRule(i, h)' = StoredRule(i, h)
         /\ StoredRecord(i, CF(c).tid)' = StoredRecord(i, CF(c).tid)
BY Zenon DEF StoredRule, StoredRecord, Wants

LEMMA DoneStays ==
  ASSUME SharesNoHost, CreatesOnce, TypeOK, IngressVersions, CopyIsGuarded, WorksOnItsHosts, SnapIsCurrent, TunnelVersions,
         MadeOnce, PurgesItsOwn, NEW i \in Ingresses, NEW c \in CFTunnels, Quiescent(i, c), Done(i, c),
         ings'[i] = ings[i], [Next]_vars
  PROVE  Gone(c)' \/ Astray(c)' \/ Done(i, c)'
<1> DEFINE t == CF(c).tid
           s == Ing(i).spec
<1>a. Serving(c) /\ t \in TunnelIDs /\ t # NoID
  BY CachedTypes DEF Done, Serving, IDs
<1>b. s \in Specs[i] /\ s.hosts \subseteq Hosts /\ s.hosts \subseteq Hosted(i)
  <2>1. s \in Specs[i]
    BY StoredGuarded DEF Quiescent
  <2> QED
    BY <2>1, HomeParts
<1>c. Ing(i)' = Ing(i)
  BY DEF Ing
<1>d. /\ configs \in [TunnelIDs -> [Hosts -> Endpoints \cup {NoRule}]] /\ zone \in [Hosts -> Records]
      /\ host \in Hosts
  BY DEF TypeOK
<1>1. ASSUME NEW h \in s.hosts, t \in tunnels'
      PROVE  configs'[t][h] = configs[t][h] /\ (zone'[h] = zone[h] \/ Lost(h, c)')
  <2>a. pc # "idle" => h \notin copy.spec.hosts
    <3>1. ASSUME pc # "idle" PROVE name \in Ingresses /\ copy.spec.hosts \subseteq Hosted(name) /\ name # i
      BY <3>1, SpecInHand, HomeParts DEF Quiescent
    <3> QED
      BY <1>b, <3>1, Apart
  <2>1. CASE QuietStep
    BY <2>1 DEF QuietStep, cloud
  <2>2. CASE ConfigStep
    <3>1. NewConfig[h] = snap[h] /\ (target = t => snap = configs[t])
      BY <1>b, <2>a, <2>2 DEF ConfigStep, NewConfig, SnapIsCurrent
    <3> QED
      BY <1>a, <1>b, <1>d, <2>2, <3>1 DEF ConfigStep
  <2>3. CASE ZoneStep
    <3>1. h # host
      BY <2>a, <2>3 DEF ZoneStep, WorksOnItsHosts
    <3> QED
      BY <1>b, <1>d, <2>3, <3>1 DEF ZoneStep
  <2>4. ASSUME NEW d \in CFTunnels, TunnelStep(d)
        PROVE  configs'[t][h] = configs[t][h] /\ (zone'[h] = zone[h] \/ Lost(h, c)')
    BY <1>a, <1>b, <2>4, TunnelStepSpares
  <2>5. ASSUME NEW u \in TunnelIDs, LossStep(u) PROVE configs'[t] = configs[t] /\ zone' = zone
    BY <1>1, <1>a, <1>d, <2>5 DEF LossStep
  <2> QED
    BY <2>1, <2>2, <2>3, <2>4, <2>5, WorldStepsOfNext DEF WorldSteps
<1>2. CASE Serving(c)' /\ CF(c)' = CF(c)
  <2>0. t \in tunnels'
    BY <1>2 DEF Serving
  <2>1. /\ \A h : StoredRule(i, h)' = StoredRule(i, h)
        /\ StoredRecord(i, CF(c).tid)' = StoredRecord(i, CF(c).tid)
    BY <1>2, <1>c, SameStored
  <2>2. \A h \in s.hosts : configs[t][h] = StoredRule(i, h) /\ RecordOrLost(i, c, h)
    BY DoneParts
  <2>3. ASSUME NEW h \in Ing(i)'.spec.hosts PROVE RecordOrLost(i, c, h)'
    <3>1. h \in s.hosts /\ (Lost(h, c) /\ zone'[h] = zone[h] => Lost(h, c)')
      BY <1>c, LostStays
    <3> QED
      BY <1>1, <2>0, <2>1, <2>2, <3>1 DEF RecordOrLost
  <2>4. \A h \in Ing(i)'.spec.hosts : configs'[CF(c)'.tid][h] = StoredRule(i, h)'
    BY <1>1, <1>2, <1>c, <2>0, <2>1, <2>2
  <2> QED
    BY <1>2, <2>3, <2>4, DonePartsNext
<1> QED
  BY <1>2, <1>a, ServingStays

LEMMA DoneNow ==
  ASSUME CreatesOnce, TypeOK, IngressVersions, CopyIsGuarded, WorksOnItsHosts, TunnelVersions, MadeOnce,
         CopyIsCached, PurgesItsOwn, TargetIsServed, EntriesInHand, NEW i \in Ingresses, NEW c \in CFTunnels,
         i = name, i \notin queue, pc # "idle", Quiescent(i, c)', ings'[i] = ings[i], DoneStep, [Next]_vars
  PROVE  Gone(c)' \/ Astray(c)' \/ Done(i, c)'
<1>a. /\ Ing(i)' = Ing(i) /\ Len(ings[i]) = 1 /\ Ing(i) = ings[i][1] /\ Ing(i) \in Ings
      /\ Ing(i).phase = "live" /\ Ing(i).spec.tunnel = c
  <2>1. Ing(i)' = Ing(i) /\ Len(ings[i]) = 1 /\ Ing(i) = ings[i][1]
    BY DEF Quiescent, Ing
  <2> QED
    BY <2>1, CachedTypes DEF Quiescent
<1>b. copy.phase = "live" /\ copy.spec = Ing(i).spec /\ copy.ip = Ing(i).ip
  BY <1>a DEF CopyIsCached, Ings
<1>c. c # "default" /\ copy.spec.tunnel = c
  BY <1>a, <1>b, ConstantsAssumption
<1>d. ~Finalizing /\ (Removing <=> ~Wants(i))
  BY <1>a, <1>b DEF Finalizing, Removing, Wants
<1>e. ~RemovalStep
  BY <1>d DEF RemovalStep, WorksOnItsHosts
<1>1. Writing /\ UNCHANGED <<cfs, tunnels, issued>>
  BY <1>c, <1>e DEF DoneStep, Writing, ConfigStep, ZoneStep, cloud
<1>2. CASE Gone(c)
  BY <1>2, GoneStep
<1>3. CASE Serving(c) /\ CF(c).tid = target /\ target \in TunnelIDs
  <2>1. CF(c)' = CF(c) /\ Serving(c)'
    BY <1>1, <1>3 DEF Serving, CF
  <2>2. \A h : StoredRule(i, h) = RightRule(h)
    <3>1. \A h : Endpoint(h) = <<Ing(i).ip, h \in Ing(i).spec.tls>>
      BY <1>b, Zenon DEF Endpoint
    <3> QED
      BY <1>d, <3>1, Zenon DEF StoredRule, RightRule
  <2>3. StoredRecord(i, target) = RightRecord
    BY <1>d DEF StoredRecord, RightRecord
  <2>4. /\ \A h : StoredRule(i, h)' = RightRule(h)
        /\ StoredRecord(i, CF(c).tid)' = RightRecord
    BY <1>a, <1>3, <2>1, <2>2, <2>3, SameStored
  <2>5. ASSUME NEW h \in copy.spec.hosts PROVE configs'[target][h] = RightRule(h) /\ RecordOrLost(i, c, h)'
    <3>g. Lost(h, c) /\ zone'[h] = zone[h] => Lost(h, c)'
      BY LostStays
    <3>1. ASSUME Looking PROVE InHand(h, c)
      BY <1>c, <1>3, <3>1 DEF EntriesInHand, Looking, InHand, RightRule, RightRecord
    <3>2. CASE pc = "getDNS" /\ UNCHANGED <<cfs, cloud>>
               /\ \E g \in todo : todo \ {g} = {} /\ zone[g] = RightRecord
      <4>1. configs' = configs /\ zone' = zone /\ InHand(h, c)
        BY <3>1, <3>2 DEF Looking, cloud
      <4>2. h \in todo => zone[h] = RightRecord
        BY <3>2
      <4> QED
        BY <2>4, <3>g, <4>1, <4>2 DEF InHand, RecordOrLost
    <3>3. CASE pc = "putDNS" /\ todo \ {host} = {} /\ ZoneStep
      <4>1. configs' = configs /\ zone' = [zone EXCEPT ![host] = RightRecord]
        BY <3>3 DEF ZoneStep, RightRecord
      <4>2. h \in Hosts /\ zone \in [Hosts -> Records]
        BY DEF TypeOK, Ings, SpecType
      <4> QED
        BY <2>4, <3>1, <3>3, <3>g, <4>1, <4>2 DEF Looking, InHand, RecordOrLost
    <3> QED
      BY <1>c, <1>e, <3>2, <3>3 DEF DoneStep
  <2> QED
    BY <1>a, <1>b, <1>3, <2>1, <2>4, <2>5, DonePartsNext
<1>4. CASE Recorded(c) /\ CF(c).tid = target /\ target \in TunnelIDs /\ ~Serving(c)
  <2>1. CF(c).tid \in issued \ tunnels
    BY <1>4, CFLog, ConstantsAssumption DEF TunnelVersions, Recorded, Serving
  <2> QED
    BY <1>1, <2>1 DEF Astray, CF
<1> QED
  BY <1>1, <1>2, <1>3, <1>4, <1>c, RecordedOrGone

LEMMA ForgottenStep ==
  ASSUME SharesNoHost, CreatesOnce, TypeOK, IngressVersions, CopyIsGuarded, WorksOnItsHosts, SnapIsCurrent, TunnelVersions,
         MadeOnce, CopyIsCached, PurgesItsOwn, TargetIsServed, EntriesInHand, NothingIsForgotten, [Next]_vars
  PROVE  NothingIsForgotten'
<1> SUFFICES ASSUME NEW i \in Ingresses, NEW c \in CFTunnels, Quiescent(i, c)'
             PROVE  Gone(c)' \/ Astray(c)' \/ Done(i, c)'
  BY Zenon DEF NothingIsForgotten, Quiescent, Done
<1>a. ings'[i] = ings[i] /\ Ing(i)' = Ing(i)
  <2>1. ings'[i] = ings[i]
    BY QuiescentVersion DEF Quiescent
  <2> QED
    BY <2>1 DEF Ing
<1>b. Quiescent(i, c) => Gone(c) \/ Astray(c) \/ Done(i, c)
  BY Zenon DEF NothingIsForgotten, Quiescent, Done
<1>1. CASE Quiescent(i, c)
  BY <1>a, <1>b, <1>1, GoneStep, AstrayStays, DoneStays
<1>2. CASE i \in queue
  <2>1. Get(i)
    BY <1>2, Dequeue DEF Quiescent
  <2>2. CachedIng(i).phase = "live"
    BY <1>a DEF Quiescent, CachedIng, Ing
  <2>3. pc' # "idle" /\ name' = i
    BY <2>1, <2>2 DEF Get
  <2> QED
    BY <2>3 DEF Quiescent
<1>3. CASE i \notin queue /\ pc # "idle" /\ name = i
  <2>1. pc' = "idle"
    BY <1>3, AllMoves DEF Quiescent, Idle, Rest, Move, GetMove, AddFinalizerMove, ResolveMove, GetConfigMove,
                       PutConfigMove, GetDNSMove, PutDNSMove, NextMove
  <2>2. DoneStep
    BY <1>3, <2>1, ReturnStep DEF Quiescent
  <2> QED
    BY <1>3, <1>a, <2>2, DoneNow
<1> QED
  BY <1>a, <1>1, <1>2, <1>3 DEF Quiescent

PublishedInvariant ==
  BaseInvariant /\ MadeOnce /\ TargetIsServed /\ EntriesInHand /\ NothingIsForgotten

\* Where Ingresses share no host and each CloudflareTunnel is created once, the rules
\* of an Ingress are the right ones as soon as it is neither queued nor in hand, and
\* its records are or have been taken along by another tunnel; they stay so until the
\* tunnel is deleted, by its object or at the dashboard (lines 82-142).
THEOREM PublishedInvariantHolds == ASSUME SharesNoHost, CreatesOnce PROVE Spec => []PublishedInvariant
<1>1. Init => MadeOnce /\ TargetIsServed /\ EntriesInHand /\ NothingIsForgotten
  <2> SUFFICES ASSUME Init PROVE MadeOnce /\ TargetIsServed /\ EntriesInHand /\ NothingIsForgotten
    OBVIOUS
  <2>1. /\ pc = "idle" /\ \A c \in CFTunnels : made[c] = 0 /\ CF(c) = NoCF
        /\ \A i \in Ingresses : Ing(i) = NoIngress
    BY DEF Init, CF, Ing
  <2>2. \A c \in CFTunnels : \A k \in 1..Len(cfs[c]) : cfs[c][k] = NoCF
    BY DEF Init
  <2>3. MadeOnce
    BY <2>1, <2>2, ConstantsAssumption DEF MadeOnce, NoCF
  <2>4. NothingIsForgotten
    BY <2>1 DEF NothingIsForgotten, Quiescent, NoIngress
  <2> QED
    BY <2>1, <2>3, <2>4 DEF TargetIsServed, EntriesInHand
<1>2. ASSUME PublishedInvariant, BaseInvariant', [Next]_vars PROVE PublishedInvariant'
  <2>1. /\ TypeOK /\ WorksOnItsHosts /\ IngressVersions /\ CopyIsGuarded /\ CopyIsCached /\ TunnelVersions
        /\ SnapIsCurrent /\ PurgesItsOwn
    BY <1>2 DEF PublishedInvariant, BaseInvariant
  <2>2. MadeOnce' /\ TargetIsServed' /\ EntriesInHand' /\ NothingIsForgotten'
    BY <1>2, <2>1, MadeOnceStep, ServedStep, InHandStep, ForgottenStep DEF PublishedInvariant
  <2> QED
    BY <1>2, <2>2 DEF PublishedInvariant
<1>3. Init /\ BaseInvariant => PublishedInvariant
  BY <1>1 DEF PublishedInvariant
<1> QED
  BY <1>2, <1>3, BaseInvariantHolds, PTL DEF Spec

LEMMA SettledIsDone ==
  ASSUME PublishedInvariant, Settled, NEW i \in Ingresses, NEW c \in CFTunnels,
         Ing(i).phase = "live", Ing(i).spec.tunnel = c, Serving(c)
  PROVE  Done(i, c)
BY DEF PublishedInvariant, NothingIsForgotten, Quiescent, Settled, Gone, Astray, Serving

\* When all is quiet, the rules and records of an Ingress that names a live tunnel
\* lead to that one, wherever it was published before, unless a record has been taken
\* along by a deleted tunnel; for any number of Ingresses that share no host, after
\* any edits, failures, conflicts and restarts (lines 82-142 and 286-306).
THEOREM MovedWhenSettled == ASSUME SharesNoHost, CreatesOnce PROVE Spec => []MovedIsRouted
<1>1. PublishedInvariant => MovedIsRouted
  <2> SUFFICES ASSUME PublishedInvariant, Settled, NEW i \in Ingresses, NEW c \in CFTunnels,
                      PublishedThrough(i, c)
               PROVE  RedirectedTo(i, c)
    BY Zenon DEF MovedIsRouted
  <2>1. Done(i, c)
    BY SettledIsDone DEF PublishedThrough, Wants
  <2> QED
    BY <2>1, Zenon DEF Done, Lost, Gone, PublishedThrough, RedirectedTo
<1> QED
  BY <1>1, PublishedInvariantHolds, PTL

\* Where Ingresses stay with their tunnel as well, no record is taken along: when all
\* is quiet, an Ingress that names a live tunnel is published through it, or hidden if
\* it is to be ignored (lines 82-142).
THEOREM RoutedWhenSettled ==
  ASSUME StaysPut, SharesNoHost, CreatesOnce PROVE Spec => []SettledIsRouted
<1>1. PublishedInvariant => SettledIsRouted
  <2> SUFFICES ASSUME PublishedInvariant, Settled, NEW i \in Ingresses, NEW c \in CFTunnels,
                      Ing(i).phase = "live", Ing(i).spec.tunnel = c, Serving(c)
               PROVE  IF Wants(i) THEN RoutedBy(i, CF(c).tid) ELSE HiddenFrom(i, CF(c).tid)
    BY Zenon DEF SettledIsRouted
  <2>1. Done(i, c)
    BY SettledIsDone
  <2>2. Ing(i).spec \in Specs[i] /\ c \in Uses(Ing(i).spec)
    BY StoredGuarded, NamesOne DEF PublishedInvariant, BaseInvariant
  <2>3. ASSUME NEW h \in Ing(i).spec.hosts PROVE ~Lost(h, c)
    <3> SUFFICES ASSUME NEW d \in CFTunnels \ {c}, Linked(h, d) PROVE FALSE
      BY DEF Lost
    <3>1. PICK j \in Ingresses : h \in Hosted(j) /\ d \in Home(j)
      BY DEF Linked
    <3>2. j = i
      BY <2>2, <3>1, HomeParts, Apart
    <3>3. PICK s \in Specs[i] : d \in Uses(s)
      BY <3>1, <3>2 DEF Home
    <3> QED
      BY <2>2, <3>3, Stays
  <2> QED
    BY <2>1, <2>3, Zenon DEF Done, RoutedBy, HiddenFrom
<1> QED
  BY <1>1, PublishedInvariantHolds, PTL

-----------------------------------------------------------------------------
(* With one default tunnel and no shared host: rules go off before records *)

\* Nobody makes a record again of what is left, while the Ingress has no finalizer or
\* its copy in hand is about to lose it.
LEMMA LeftStays ==
  ASSUME SharesNoHost, TypeOK, CopyIsGuarded, WorksOnItsHosts, TunnelVersions, SnapIsCurrent,
         UnreachedAreUntouched, NEW i \in Ingresses, NEW v, v.spec \in Specs[i],
         ~Ing(i).fin \/ pc = "unfinalize", HasLeft(v), [Next]_vars
  PROVE  HasLeft(v)'
<1> SUFFICES ASSUME NEW c \in Uses(v.spec), NEW h \in v.spec.hosts, Serving(c)', zone'[h] = CF(c)'.tid
             PROVE  FALSE
  BY DEF HasLeft, Uses
<1>a. c \in CFTunnels /\ h \in Hosts /\ h \in Hosted(i)
  BY HomeParts DEF Uses
<1>1. ~(CF(c)'.tid \in TunnelIDs \ issued)
  BY <1>a, FreshIsUntouched DEF Untouched
<1>2. Serving(c) /\ CF(c)'.tid = CF(c).tid /\ CF(c).tid \in TunnelIDs
  BY <1>1, <1>a, ServingStep, CachedTypes DEF Serving, IDs
<1>3. zone[h] # CF(c).tid
  BY <1>2 DEF HasLeft
<1>4. ZoneStep /\ ~Removing /\ h \in copy.spec.hosts
  BY <1>2, <1>3, <1>a, NewRecord
<1>5. name = i
  BY <1>4, <1>a, SpecInHand, HomeParts, Apart DEF ZoneStep
<1> QED
  BY <1>4, <1>5 DEF ZoneStep, Removing, Finalizing, CopyIsGuarded, TypeOK, Ings

\* What LeavesNothing says of the versions and of the copy in hand
VersionsLeave(i) ==
  ~Ing(i).fin => \A k \in 1..Len(ings[i]) : ings[i][k].phase = "deleting" => HasLeft(ings[i][k])
CopyLeaves == pc # "idle" /\ Finalizing /\ ~Ing(name).fin => HasLeft(copy)

LEMMA LeaveParts == LeavesNothing <=> (\A i \in Ingresses : VersionsLeave(i)) /\ CopyLeaves
BY DEF LeavesNothing, VersionsLeave, CopyLeaves

LEMMA LeavePartsNext == (\A i \in Ingresses : VersionsLeave(i)') /\ CopyLeaves' => LeavesNothing'
BY DEF LeavesNothing, VersionsLeave, CopyLeaves

\* The finalizer that Reconcile removes is that of the copy in hand.
LEMMA LastCopy ==
  ASSUME EditsOnlyLive, TypeOK, IngressVersions, CopyIsGuarded, WorksOnItsHosts, RemovalStep
  PROVE  /\ name \in Ingresses /\ pc = "unfinalize" /\ Finalizing /\ todo = {}
         /\ Ing(name).spec = copy.spec
         /\ \A k \in 1..Len(ings[name]) :
              ings[name][k].phase = "deleting" /\ ings[name][k].spec = copy.spec
<1>1. /\ name \in Ingresses /\ pc = "unfinalize" /\ Finalizing /\ todo = {}
      /\ \A k \in 1..Len(ings[name]) : ings[name][k].phase = "deleting"
  BY DEF RemovalStep, WorksOnItsHosts, CopyIsGuarded, Finalizing, TypeOK
<1>2. Ing(name).phase = "deleting"
  BY <1>1, IngLog DEF Ing
<1>3. Ing(name).fin
  BY <1>1, <1>2, StoredGuarded
<1>4. Ing(name).spec = copy.spec
  BY <1>1, <1>3 DEF CopyIsGuarded, Finalizing
<1> QED
  BY <1>1, <1>3, <1>4 DEF IngressVersions

\* A version of an Ingress without finalizer was there before, or the finalizer goes now.
LEMMA LeavingVersion ==
  ASSUME TypeOK, IngressVersions, NEW i \in Ingresses, ~Ing(i)'.fin, NEW k \in 1..Len(ings'[i]),
         ings'[i][k].phase = "deleting", [Next]_vars
  PROVE  /\ ~Ing(i).fin \/ (RemovalStep /\ name = i)
         /\ \E l \in 1..Len(ings[i]) : ings[i][l] = ings'[i][k]
<1> DEFINE Before == \E l \in 1..Len(ings[i]) : ings[i][l] = ings'[i][k]
<1>0. ASSUME ings'[i] = ings[i] PROVE ~Ing(i).fin /\ Before
  BY <1>0 DEF Ing
<1>a. ASSUME NEW n \in Ingresses, NEW v \in Ings, IngAppend(n, v), n # i PROVE ~Ing(i).fin /\ Before
  BY <1>0, <1>a, IngAppended
<1>b. ASSUME NEW v \in Ings, IngAppend(i, v)
      PROVE  Ing(i)' = v /\ (Before \/ v.phase = "deleting")
  <2>1. /\ Ing(i)' = v /\ Len(ings[i]) \in Nat /\ Len(ings'[i]) = Len(ings[i]) + 1
        /\ \A l \in 1..Len(ings[i]) : ings'[i][l] = ings[i][l]
        /\ ings'[i][Len(ings[i]) + 1] = v
    BY <1>b, IngAppended
  <2>2. k \in 1..Len(ings[i]) \/ k = Len(ings[i]) + 1
    BY <2>1
  <2> QED
    BY <2>1, <2>2
<1>1. CASE FinalizerStep
  <2>1. PICK n \in Ingresses : n = name
    BY DEF TypeOK
  <2>2. [copy EXCEPT !.fin = TRUE] \in Ings /\ [copy EXCEPT !.fin = TRUE].fin
    BY RecordTypes DEF TypeOK, Ings
  <2>3. n # i
    BY <1>1, <1>b, <2>1, <2>2 DEF FinalizerStep
  <2> QED
    BY <1>1, <1>a, <2>1, <2>2, <2>3 DEF FinalizerStep
<1>2. CASE RemovalStep
  <2>1. PICK n \in Ingresses : n = name
    BY DEF TypeOK
  <2>2. NoIngress \in Ings /\ NoIngress.phase = "absent"
    BY RecordTypes DEF NoIngress
  <2> QED
    BY <1>2, <1>a, <1>b, <2>1, <2>2 DEF RemovalStep
<1>3. ASSUME NEW j \in Ingresses, UserStep(j) PROVE ~Ing(i).fin /\ Before
  <2>1. PICK v \in Ings : IngAppend(j, v) /\ Successor(j, Ing(j), v)
    BY <1>3 DEF UserStep
  <2>2. CASE j = i
    <3>1. Ing(i)' = v /\ (Before \/ v.phase = "deleting")
      BY <1>b, <2>1, <2>2
    <3>2. ~Ing(i).fin
      BY <2>1, <2>2, <3>1, Zenon DEF Successor
    <3>3. v.phase # "deleting"
      BY <2>1, <2>2, <3>2 DEF Successor, NoIngress
    <3> QED
      BY <3>1, <3>2, <3>3
  <2> QED
    BY <1>a, <2>1, <2>2
<1>4. ASSUME NEW j \in Ingresses, ObserveStep(j) PROVE ~Ing(i).fin /\ Before
  <2>1. CASE j = i
    BY <1>4, <2>1, IngTailed DEF ObserveStep
  <2>2. CASE j # i
    BY <1>0, <1>4, <2>2, IngTailed DEF ObserveStep
  <2> QED
    BY <2>1, <2>2
<1>5. CASE OtherStep
  BY <1>0, <1>5 DEF OtherStep
<1> QED
  BY <1>1, <1>2, <1>3, <1>4, <1>5, IngStepsOfNext DEF IngSteps

\* When Reconcile is about to remove the finalizer, nothing of the copy is left.
LEMMA LastIsClean ==
  ASSUME WorksOnItsHosts, CleansBeforeLeaving, pc = "unfinalize", Finalizing
  PROVE  HasLeft(copy)
BY DEF WorksOnItsHosts, CleansBeforeLeaving, HasLeft

LEMMA VersionsLeaveStep ==
  ASSUME SharesNoHost, EditsOnlyLive, TypeOK, IngressVersions, CopyIsGuarded, WorksOnItsHosts, TunnelVersions,
         SnapIsCurrent, UnreachedAreUntouched, CleansBeforeLeaving,
         NEW i \in Ingresses, VersionsLeave(i), [Next]_vars
  PROVE  VersionsLeave(i)'
<1> SUFFICES ASSUME ~Ing(i)'.fin, NEW k \in 1..Len(ings'[i]), NEW v, v = ings'[i][k],
                    v.phase = "deleting"
             PROVE  HasLeft(v)'
  BY DEF VersionsLeave, HasLeft, Uses
<1>1. PICK l \in 1..Len(ings[i]) : ings[i][l] = v
  BY LeavingVersion
<1>2. v.spec \in Specs[i]
  BY <1>1 DEF IngressVersions
<1>3. CASE ~Ing(i).fin
  <2>1. HasLeft(v)
    BY <1>1, <1>3 DEF VersionsLeave
  <2> QED
    BY <1>2, <1>3, <2>1, LeftStays
<1>4. CASE RemovalStep /\ name = i
  <2>1. pc = "unfinalize" /\ Finalizing /\ v.spec = copy.spec
    BY <1>1, <1>4, LastCopy
  <2>2. HasLeft(v)
    BY <2>1, LastIsClean DEF HasLeft
  <2> QED
    BY <1>2, <2>1, <2>2, LeftStays
<1> QED
  BY <1>3, <1>4, LeavingVersion

LEMMA CopyLeavesStep ==
  ASSUME SharesNoHost, TypeOK, IngressVersions, CopyIsGuarded, WorksOnItsHosts, TunnelVersions,
         SnapIsCurrent, UnreachedAreUntouched, LeavesNothing, [Next]_vars
  PROVE  CopyLeaves'
<1> SUFFICES ASSUME pc' # "idle", copy'.phase = "deleting", NEW n, n = name', ~Ing(n)'.fin,
                    NEW v, v = copy'
             PROVE  HasLeft(v)'
  BY DEF CopyLeaves, Finalizing, HasLeft, Uses, Ing
<1>a. CopyLeaves /\ \A i \in Ingresses : VersionsLeave(i)
  BY LeaveParts
<1>b. name \in Ingresses /\ copy \in Ings
  BY DEF TypeOK
<1>1. ASSUME pc # "idle", UNCHANGED <<name, copy>>, ~Ing(n).fin PROVE HasLeft(v)'
  <2>1. HasLeft(v) /\ v.spec \in Specs[n]
    BY <1>a, <1>1 DEF CopyLeaves, Finalizing, CopyIsGuarded
  <2> QED
    BY <1>b, <1>1, <2>1, LeftStays
<1>2. CASE FinalizerStep
  <2>1. copy.phase = "live"
    BY <1>2 DEF FinalizerStep, CopyIsGuarded
  <2> QED
    BY <1>2, <1>b, <2>1 DEF FinalizerStep, Idle, AddFinalizerMove, Ings
<1>3. CASE RemovalStep
  BY <1>3 DEF RemovalStep, Idle
<1>4. ASSUME NEW j \in Ingresses, UserStep(j) PROVE HasLeft(v)'
  <2>1. PICK u \in Ings : IngAppend(j, u) /\ Successor(j, Ing(j), u)
    BY <1>4 DEF UserStep
  <2>2. pc # "idle" /\ UNCHANGED <<name, copy>> /\ n \in Ingresses
    BY <1>4, <1>b DEF UserStep, Rest
  <2>3. CASE n = j
    <3>1. Ing(n)' = u
      BY <2>1, <2>2, <2>3, IngAppended
    <3>2. ~Ing(n).fin
      BY <2>1, <2>3, <3>1, Zenon DEF Successor
    <3> QED
      BY <1>1, <2>2, <3>2
  <2>4. CASE n # j
    <3>1. Ing(n)' = Ing(n)
      BY <2>1, <2>2, <2>4, IngAppended
    <3> QED
      BY <1>1, <2>2, <3>1
  <2> QED
    BY <2>3, <2>4
<1>5. ASSUME NEW j \in Ingresses, ObserveStep(j) PROVE HasLeft(v)'
  <2>1. pc # "idle" /\ UNCHANGED <<name, copy>> /\ n \in Ingresses
    BY <1>5, <1>b DEF ObserveStep, Rest
  <2>2. Ing(n)' = Ing(n)
    BY <1>5, <2>1, IngTailed DEF ObserveStep
  <2> QED
    BY <1>1, <2>1, <2>2
<1>6. CASE OtherStep
  <2>a. Ing(n)' = Ing(n)
    BY <1>6 DEF OtherStep, Ing
  <2>1. ASSUME NEW i \in Ingresses, GetMove(i) PROVE HasLeft(v)'
    <3>1. n = i /\ v = ings[i][1] /\ v.phase = "deleting" /\ ~Ing(i).fin
      BY <2>1, <2>a DEF GetMove, CachedIng
    <3>2. HasLeft(v) /\ v.spec \in Specs[i]
      BY <1>a, <3>1, IngLog DEF VersionsLeave, IngressVersions
    <3> QED
      BY <3>1, <3>2, LeftStays
  <2>2. CASE Rest \/ ResolveMove \/ GetConfigMove \/ PutConfigMove \/ GetDNSMove \/ PutDNSMove
    <3>1. pc # "idle" /\ UNCHANGED <<name, copy>>
      BY <2>2 DEF Rest, ResolveMove, GetConfigMove, PutConfigMove, GetDNSMove, PutDNSMove, NextMove
    <3> QED
      BY <1>1, <2>a, <3>1
  <2> QED
    BY <1>6, <2>1, <2>2 DEF OtherStep, Idle
<1> QED
  BY <1>2, <1>3, <1>4, <1>5, <1>6, IngStepsOfNext DEF IngSteps

LEMMA LeavesStep ==
  ASSUME SharesNoHost, EditsOnlyLive, TypeOK, IngressVersions, CopyIsGuarded, WorksOnItsHosts, TunnelVersions,
         SnapIsCurrent, UnreachedAreUntouched, CleansBeforeLeaving, LeavesNothing, [Next]_vars
  PROVE  LeavesNothing'
BY LeaveParts, VersionsLeaveStep, CopyLeavesStep, LeavePartsNext

\* Ingress i is being deleted and keeps its finalizer until host h is withdrawn from c.
Withdrawing(i, c, h) ==
  Ing(i).fin /\ Ing(i).phase = "deleting" /\ h \in Ing(i).spec.hosts /\ c \in Uses(Ing(i).spec)

LEMMA WithdrawingStep ==
  ASSUME EditsOnlyLive, TypeOK, IngressVersions, CopyIsGuarded, NEW i \in Ingresses, NEW c, NEW h,
         Withdrawing(i, c, h), [Next]_vars
  PROVE  Withdrawing(i, c, h)' \/ (RemovalStep /\ name = i)
<1>1. ASSUME Ing(i)' = Ing(i) PROVE Withdrawing(i, c, h)'
  BY <1>1 DEF Withdrawing, Uses
<1>2. CASE FinalizerStep
  <2>1. name \in Ingresses /\ [copy EXCEPT !.fin = TRUE] \in Ings
    BY RecordTypes DEF TypeOK
  <2>2. name # i
    <3>1. copy.phase = "live" /\ \A k \in 1..Len(ings[name]) : ings[name][k].phase = "live"
      BY <1>2 DEF FinalizerStep, CopyIsGuarded
    <3> QED
      BY <3>1, IngLog DEF Withdrawing, Ing
  <2>3. Ing(i)' = Ing(i)
    BY <1>2, <2>1, <2>2, IngAppended DEF FinalizerStep
  <2> QED
    BY <1>1, <2>3
<1>3. CASE RemovalStep /\ name # i
  <2>1. name \in Ingresses
    BY DEF TypeOK
  <2> QED
    BY <1>1, <1>3, <2>1, IngAppended, RecordTypes DEF RemovalStep
<1>4. ASSUME NEW j \in Ingresses, UserStep(j) PROVE Withdrawing(i, c, h)'
  <2>1. PICK u \in Ings : IngAppend(j, u) /\ Successor(j, Ing(j), u)
    BY <1>4 DEF UserStep
  <2>2. CASE j = i
    <3>1. Ing(i)' = u
      BY <2>1, <2>2, IngAppended
    <3>2. Ing(i).fin /\ Ing(i).phase = "deleting"
      BY DEF Withdrawing
    <3>3. u.phase = "deleting" /\ u.spec = Ing(i).spec
      BY <2>1, <2>2, <3>2 DEF Successor
    <3>4. u.fin
      BY <2>1, <2>2, <3>2, Zenon DEF Successor
    <3> QED
      BY <3>1, <3>3, <3>4 DEF Withdrawing, Uses
  <2>3. CASE j # i
    BY <1>1, <2>1, <2>3, IngAppended
  <2> QED
    BY <2>2, <2>3
<1>5. ASSUME NEW j \in Ingresses, ObserveStep(j) PROVE Withdrawing(i, c, h)'
  BY <1>1, <1>5, IngTailed DEF ObserveStep
<1>6. CASE OtherStep
  BY <1>1, <1>6 DEF OtherStep, Ing
<1> QED
  BY <1>2, <1>3, <1>4, <1>5, <1>6, IngStepsOfNext DEF IngSteps

LEMMA IsARule == \A h : Endpoint(h) # NoRule
<1> SUFFICES ASSUME NEW h PROVE Len(Endpoint(h)) # Len(NoRule)
  OBVIOUS
<1> QED
  BY DEF Endpoint, NoRule

\* Who takes the rule of a record away: Reconcile, for what is not to be published.
LEMMA RuleRemoved ==
  ASSUME TypeOK, SnapIsCurrent, TunnelVersions, NEW c \in CFTunnels, NEW h \in Hosts, NEW t \in TunnelIDs,
         t = CF(c).tid, Serving(c)', configs[t][h] # NoRule, configs'[t][h] = NoRule, [Next]_vars
  PROVE  pc = "putConfig" /\ target = t /\ h \in copy.spec.hosts /\ Removing /\ UNCHANGED <<ings, cfs>>
<1>a. configs \in [TunnelIDs -> [Hosts -> Endpoints \cup {NoRule}]] /\ t # NoID
  BY ConstantsAssumption DEF TypeOK
<1>1. CASE ConfigStep
  <2>1. t = target /\ configs'[t][h] = NewConfig[h]
    BY <1>1, <1>a DEF ConfigStep
  <2>2. CASE h \notin copy.spec.hosts
    BY <1>1, <1>a, <2>1, <2>2 DEF ConfigStep, NewConfig, SnapIsCurrent
  <2>3. CASE h \in copy.spec.hosts /\ ~Removing
    BY <2>1, <2>3, IsARule DEF NewConfig
  <2> QED
    BY <1>1, <2>1, <2>2, <2>3 DEF ConfigStep
<1>2. ASSUME NEW d \in CFTunnels, TunnelStep(d) PROVE FALSE
  <2>1. DeleteTunnel(d) /\ CF(d).tid = t
    BY <1>a, <1>2 DEF TunnelStep, CreateCF, DeleteCF, ObserveCF, RecordTunnel, ListRecords, DeleteRecord,
                      DeleteTunnel, cloud
  <2>2. CFAppend(d, NoCF)
    BY <2>1 DEF DeleteTunnel, StoreCF, CFAppend
  <2>3. c # d
    <3>1. CF(d)' = NoCF
      BY <2>2, CFAppended, RecordTypes
    <3> QED
      BY <3>1 DEF Serving, NoCF
  <2> QED
    BY <1>a, <2>1, <2>3, CFLog DEF TunnelVersions
<1>3. ASSUME NEW u \in TunnelIDs, LossStep(u) PROVE FALSE
  <2>1. u = t /\ CF(c)' = CF(c)
    BY <1>3, <1>a DEF LossStep, CF
  <2> QED
    BY <1>3, <2>1 DEF LossStep, Serving
<1> QED
  BY <1>1, <1>2, <1>3, WorldStepsOfNext DEF WorldSteps, QuietStep, ZoneStep, cloud

LEMMA WithdrawsStep ==
  ASSUME SharesNoHost, KeepsIgnoring, EditsOnlyLive, TypeOK, IngressVersions, CopyIsGuarded,
         WorksOnItsHosts, SnapIsCurrent, TargetIsUsed, RulesInHand, TunnelVersions, UnreachedAreUntouched,
         RecordsAreWanted, CleansBeforeLeaving, LeavesNothing, WithdrawsInOrder, [Next]_vars
  PROVE  WithdrawsInOrder'
<1> SUFFICES ASSUME NEW c \in CFTunnels, NEW h \in Hosts, Serving(c)', NEW t, t = CF(c)'.tid,
                    zone'[h] = t, configs'[t][h] = NoRule
             PROVE  \E i \in Ingresses : Withdrawing(i, c, h)'
  BY DEF WithdrawsInOrder, Withdrawing, Uses
<1>a. ~(t \in TunnelIDs \ issued)
  BY FreshIsUntouched DEF Untouched
<1>b. Serving(c) /\ t = CF(c).tid /\ t \in TunnelIDs
  BY <1>a, ServingStep, CachedTypes DEF Serving, IDs
<1>1. CASE zone[h] = t /\ configs[t][h] = NoRule
  <2>1. PICK i \in Ingresses : Withdrawing(i, c, h)
    BY <1>1, <1>b DEF WithdrawsInOrder, Withdrawing
  <2>2. ~(RemovalStep /\ name = i)
    <3> SUFFICES ASSUME RemovalStep, name = i PROVE FALSE
      OBVIOUS
    <3>1. pc = "unfinalize" /\ Finalizing /\ Ing(i).spec = copy.spec
      BY LastCopy
    <3>2. HasLeft(copy)
      BY <3>1, LastIsClean
    <3> QED
      BY <1>1, <1>b, <2>1, <3>1, <3>2 DEF HasLeft, Withdrawing
  <2> QED
    BY <2>1, <2>2, WithdrawingStep
<1>2. CASE zone[h] # t
  <2>1. ZoneStep /\ t = target /\ ~Removing /\ h \in copy.spec.hosts
    BY <1>2, <1>b, NewRecord
  <2>2. configs[t][h] = Endpoint(h)
    BY <1>b, <2>1 DEF RulesInHand, Serving, ZoneStep
  <2> QED
    BY <2>1, <2>2, IsARule DEF ZoneStep
<1>3. CASE zone[h] = t /\ configs[t][h] # NoRule
  <2>1. pc = "putConfig" /\ target = t /\ h \in copy.spec.hosts /\ Removing /\ UNCHANGED <<ings, cfs>>
    BY <1>3, <1>b, RuleRemoved
  <2>2. c \in Uses(copy.spec) /\ name \in Ingresses /\ copy.spec \in Specs[name]
    BY <1>b, <2>1, CFLog, SpecInHand DEF TargetIsUsed, Serving
  <2>3. CASE Finalizing /\ Ing(name).fin
    <3>1. Withdrawing(name, c, h)
      BY <2>1, <2>2, <2>3 DEF CopyIsGuarded, Finalizing, Withdrawing
    <3>2. PICK i \in Ingresses : i = name
      BY <2>2
    <3> QED
      BY <2>1, <3>1, <3>2 DEF Withdrawing, Ing, Uses
  <2>4. CASE Finalizing /\ ~Ing(name).fin
    <3>1. HasLeft(copy)
      BY <2>1, <2>4, LeaveParts DEF CopyLeaves
    <3> QED
      BY <1>3, <1>b, <2>1, <2>2, <3>1 DEF HasLeft
  <2>5. CASE ~Finalizing
    <3>1. copy.spec.ignored
      BY <2>1, <2>5 DEF Removing
    <3>2. PICK j \in Ingresses : \E s \in Specs[j] : h \in s.hosts /\ ~s.ignored
      BY <1>3, <1>b DEF RecordsAreWanted
    <3>3. PICK s \in Specs[j] : h \in s.hosts /\ ~s.ignored
      BY <3>2
    <3>4. j = name
      BY <2>1, <2>2, <3>3, HomeParts, Apart
    <3> QED
      BY <2>2, <3>1, <3>3, <3>4 DEF KeepsIgnoring
  <2> QED
    BY <2>3, <2>4, <2>5
<1> QED
  BY <1>1, <1>2, <1>3

LeavingInvariant == CleanInvariant /\ LeavesNothing

\* Where there is one default tunnel, Ingresses share no host and nobody edits one that is
\* being deleted, Reconcile of an old copy of an Ingress that is gone finds nothing to
\* withdraw (lines 61-80).
THEOREM LeavingInvariantHolds ==
  ASSUME OneTunnel, SharesNoHost, EditsOnlyLive PROVE Spec => []LeavingInvariant
<1>1. Init => LeavesNothing
  <2>1. Init => pc = "idle" /\ \A i \in Ingresses : \A k \in 1..Len(ings[i]) : ings[i][k] = NoIngress
    BY DEF Init
  <2> QED
    BY <2>1 DEF LeavesNothing, NoIngress
<1>2. ASSUME LeavingInvariant, CleanInvariant', [Next]_vars PROVE LeavingInvariant'
  <2>1. /\ TypeOK /\ WorksOnItsHosts /\ IngressVersions /\ CopyIsGuarded /\ TunnelVersions
        /\ SnapIsCurrent /\ UnreachedAreUntouched /\ CleansBeforeLeaving
    BY <1>2 DEF LeavingInvariant, CleanInvariant, BaseInvariant
  <2>2. LeavesNothing'
    BY <1>2, <2>1, LeavesStep DEF LeavingInvariant
  <2> QED
    BY <1>2, <2>2 DEF LeavingInvariant
<1>3. Init /\ CleanInvariant => LeavingInvariant
  BY <1>1 DEF LeavingInvariant
<1> QED
  BY <1>2, <1>3, CleanInvariantHolds, PTL DEF Spec

WithdrawalInvariant == LeavingInvariant /\ WithdrawsInOrder

\* Where moreover an Ingress is to be ignored once and for all, rules go off before
\* records only for an Ingress that is being deleted and keeps its finalizer until
\* the records are off as well (lines 96-140 and 384-421).
THEOREM WithdrawalInvariantHolds ==
  ASSUME OneTunnel, SharesNoHost, EditsOnlyLive, KeepsIgnoring PROVE Spec => []WithdrawalInvariant
<1>1. Init => WithdrawsInOrder
  BY DEF Init, WithdrawsInOrder, Serving, CF, NoCF
<1>2. ASSUME WithdrawalInvariant, LeavingInvariant', [Next]_vars PROVE WithdrawalInvariant'
  <2>1. /\ TypeOK /\ IngressVersions /\ CopyIsGuarded /\ WorksOnItsHosts /\ SnapIsCurrent
        /\ TargetIsUsed /\ RulesInHand /\ TunnelVersions /\ UnreachedAreUntouched
        /\ RecordsAreWanted /\ CleansBeforeLeaving /\ LeavesNothing
    BY <1>2 DEF WithdrawalInvariant, LeavingInvariant, CleanInvariant, BaseInvariant
  <2>2. WithdrawsInOrder'
    BY <1>2, <2>1, WithdrawsStep DEF WithdrawalInvariant
  <2> QED
    BY <1>2, <2>2 DEF WithdrawalInvariant
<1>3. Init /\ LeavingInvariant => WithdrawalInvariant
  BY <1>1 DEF WithdrawalInvariant
<1> QED
  BY <1>2, <1>3, LeavingInvariantHolds, PTL DEF Spec

\* A record never leads to a live tunnel that has no rule for its host, except while
\* an Ingress of that host is being withdrawn: for any number of Ingresses that share
\* no host, are not switched between ignored and not, and are not edited once they are
\* deleted (lines 96-140).
THEOREM RecordsLead ==
  ASSUME OneTunnel, SharesNoHost, EditsOnlyLive, KeepsIgnoring PROVE Spec => []RecordsHaveRules
<1>1. WithdrawsInOrder => RecordsHaveRules
  <2> SUFFICES ASSUME WithdrawsInOrder, NEW c \in CFTunnels, NEW h \in Hosts, Serving(c),
                      zone[h] = CF(c).tid, configs[CF(c).tid][h] = NoRule
               PROVE  \E i \in Ingresses : /\ Ing(i).fin /\ h \in Ing(i).spec.hosts
                                           /\ Ing(i).phase = "deleting" \/ Ing(i).spec.ignored
    BY Zenon DEF RecordsHaveRules
  <2>1. PICK i \in Ingresses : Ing(i).fin /\ Ing(i).phase = "deleting" /\ h \in Ing(i).spec.hosts
    BY Zenon DEF WithdrawsInOrder
  <2> QED
    BY <2>1
<1>2. WithdrawalInvariant => WithdrawsInOrder
  BY DEF WithdrawalInvariant
<1> QED
  BY <1>1, <1>2, WithdrawalInvariantHolds, PTL

-----------------------------------------------------------------------------
(* All together *)

\* The whole inductive invariant holds, each part of it where its hypotheses do.
THEOREM InvariantHolds == Spec => []Invariant
<1> DEFINE Cleans == OneTunnel => OthersUntouched /\ CleansBeforeLeaving
           Owned == StaysPut => EntriesAreOwned
           Published == SharesNoHost /\ CreatesOnce =>
                          MadeOnce /\ TargetIsServed /\ EntriesInHand /\ NothingIsForgotten
           Leaves == OneTunnel /\ SharesNoHost /\ EditsOnlyLive => LeavesNothing
           Withdrawn == OneTunnel /\ SharesNoHost /\ EditsOnlyLive /\ KeepsIgnoring => WithdrawsInOrder
<1>1. Spec => []Cleans
  <2>1. CASE OneTunnel
    <3>1. CleanInvariant => Cleans
      BY DEF CleanInvariant
    <3> QED
      BY <2>1, <3>1, CleanInvariantHolds, PTL
  <2>2. CASE ~OneTunnel
    <3>1. Cleans
      BY <2>2
    <3> QED
      BY <3>1, PTL
  <2> QED
    BY <2>1, <2>2
<1>2. Spec => []Owned
  <2>1. CASE StaysPut
    <3>1. OwnedInvariant => Owned
      BY DEF OwnedInvariant
    <3> QED
      BY <2>1, <3>1, OwnedInvariantHolds, PTL
  <2>2. CASE ~StaysPut
    <3>1. Owned
      BY <2>2
    <3> QED
      BY <3>1, PTL
  <2> QED
    BY <2>1, <2>2
<1>3. Spec => []Published
  <2>1. CASE SharesNoHost /\ CreatesOnce
    <3>1. PublishedInvariant => Published
      BY DEF PublishedInvariant
    <3> QED
      BY <2>1, <3>1, PublishedInvariantHolds, PTL
  <2>2. CASE ~(SharesNoHost /\ CreatesOnce)
    <3>1. Published
      BY <2>2
    <3> QED
      BY <3>1, PTL
  <2> QED
    BY <2>1, <2>2
<1>4. Spec => []Leaves
  <2>1. CASE OneTunnel /\ SharesNoHost /\ EditsOnlyLive
    <3>1. LeavingInvariant => Leaves
      BY DEF LeavingInvariant
    <3> QED
      BY <2>1, <3>1, LeavingInvariantHolds, PTL
  <2>2. CASE ~(OneTunnel /\ SharesNoHost /\ EditsOnlyLive)
    <3>1. Leaves
      BY <2>2
    <3> QED
      BY <3>1, PTL
  <2> QED
    BY <2>1, <2>2
<1>5. Spec => []Withdrawn
  <2>1. CASE OneTunnel /\ SharesNoHost /\ EditsOnlyLive /\ KeepsIgnoring
    <3>1. WithdrawalInvariant => Withdrawn
      BY DEF WithdrawalInvariant
    <3> QED
      BY <2>1, <3>1, WithdrawalInvariantHolds, PTL
  <2>2. CASE ~(OneTunnel /\ SharesNoHost /\ EditsOnlyLive /\ KeepsIgnoring)
    <3>1. Withdrawn
      BY <2>2
    <3> QED
      BY <3>1, PTL
  <2> QED
    BY <2>1, <2>2
<1>6. BaseInvariant /\ Cleans /\ Owned /\ Published /\ Leaves /\ Withdrawn => Invariant
  BY DEF BaseInvariant, Invariant
<1> QED
  BY <1>1, <1>2, <1>3, <1>4, <1>5, <1>6, BaseInvariantHolds, PTL
=============================================================================
