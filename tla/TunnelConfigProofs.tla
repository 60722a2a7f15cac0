------------------------- MODULE TunnelConfigProofs -------------------------
(* Theorems about TunnelConfig, for every value of its constants. *)
EXTENDS TunnelConfig, FiniteSetTheorems, TLAPS

-----------------------------------------------------------------------------
(* Least and greatest elements, for the first rule that matches and the last rule  *)
(* of a host                                                                       *)

LEMMA MinimalSubset ==
  ASSUME NEW U, IsFiniteSet(U), NEW family, family \subseteq SUBSET U, family # {}
  PROVE  \E t : t \in family /\ \A s \in family : s \subseteq t => s = t
<1>1. family \subseteq FiniteSubsetsOf(U)
  BY FS_Subset DEF FiniteSubsetsOf
<1>2. IsWellFoundedOn(StrictSubsetOrdering(U), FiniteSubsetsOf(U))
  BY FS_StrictSubsetOrderingWellFounded
<1>3. PICK t \in family : \A s \in family : <<s, t>> \notin StrictSubsetOrdering(U)
  BY <1>1, <1>2, WFMin
<1>4. ASSUME NEW s \in family, s \subseteq t, s # t PROVE FALSE
  <2>1. <<s, t>> \in (SUBSET U) \X (SUBSET U)
    OBVIOUS
  <2>2. <<s, t>> \in StrictSubsetOrdering(U)
    BY <1>4, <2>1 DEF StrictSubsetOrdering
  <2> QED
    BY <1>3, <2>2
<1> QED
  BY <1>4

LEMMA ExtremeElement ==
  ASSUME NEW T, IsFiniteSet(T), T # {}, NEW f \in [T -> SUBSET T]
  PROVE  \E t \in T : \A s \in T : f[s] \subseteq f[t] => f[s] = f[t]
<1>1. PICK family : family = {f[t] : t \in T}
  OBVIOUS
<1>2. family \subseteq SUBSET T /\ family # {}
  BY <1>1
<1>3. PICK x : x \in family /\ \A y \in family : y \subseteq x => y = x
  BY <1>2, MinimalSubset
<1> QED
  BY <1>1, <1>3

LEMMA LeastElement ==
  ASSUME NEW T, IsFiniteSet(T), T # {}, \A t \in T : t \in Nat
  PROVE  \E t \in T : \A s \in T : t <= s
<1>1. \A r \in T : r \in Nat
  OBVIOUS
<1>2. PICK below : below = [t \in T |-> {s \in T : s < t}]
  OBVIOUS
<1>4. PICK t \in T : \A s \in T : below[s] \subseteq below[t] => below[s] = below[t]
  <2>1. below \in [T -> SUBSET T]
    BY <1>2
  <2> QED
    BY <2>1, ExtremeElement
<1>5. ASSUME NEW s \in T, s < t PROVE FALSE
  <2>1. ASSUME NEW r \in below[s] PROVE r \in below[t]
    <3>1. r \in Nat /\ s \in Nat /\ t \in Nat
      BY <1>1, <1>2
    <3> QED
      BY <1>2, <1>5, <3>1
  <2>2. s \in below[t] /\ s \notin below[s]
    BY <1>1, <1>2, <1>5
  <2> QED
    BY <1>4, <2>1, <2>2
<1> QED
  BY <1>1, <1>5

LEMMA GreatestElement ==
  ASSUME NEW T, IsFiniteSet(T), T # {}, \A t \in T : t \in Nat
  PROVE  \E t \in T : \A s \in T : s <= t
<1>1. \A r \in T : r \in Nat
  OBVIOUS
<1>2. PICK above : above = [t \in T |-> {s \in T : t < s}]
  OBVIOUS
<1>4. PICK t \in T : \A s \in T : above[s] \subseteq above[t] => above[s] = above[t]
  <2>1. above \in [T -> SUBSET T]
    BY <1>2
  <2> QED
    BY <2>1, ExtremeElement
<1>5. ASSUME NEW s \in T, t < s PROVE FALSE
  <2>1. ASSUME NEW r \in above[s] PROVE r \in above[t]
    <3>1. r \in Nat /\ s \in Nat /\ t \in Nat
      BY <1>1, <1>2
    <3> QED
      BY <1>2, <1>5, <3>1
  <2>2. s \in above[t] /\ s \notin above[s]
    BY <1>1, <1>2, <1>5
  <2> QED
    BY <1>4, <2>1, <2>2
<1> QED
  BY <1>1, <1>5

-----------------------------------------------------------------------------
(* Sorting *)

HostNameSet == Hosts \cup {NoHost}

\* The comparison is a strict total order with the empty name at its end.
LEMMA SortOrder ==
  /\ \A g \in HostNameSet : ~SortsBefore(g, g) /\ ~SortsBefore(NoHost, g)
  /\ \A g \in Hosts : SortsBefore(g, NoHost)
  /\ \A g, h \in HostNameSet : g # h => SortsBefore(g, h) \/ SortsBefore(h, g)
  /\ \A f, g, h \in HostNameSet :
       SortsBefore(f, g) /\ SortsBefore(g, h) => SortsBefore(f, h)
  /\ \A c \in Covers : c[1] \in Hosts /\ c[2] \in Hosts /\ SortsBefore(c[1], c[2])
<1>1. Rank \in [Hosts -> Nat] /\ (\A g, h \in Hosts : Rank[g] = Rank[h] => g = h) /\ NoHost \notin Hosts
  BY HostsAssumption
<1>2. \A g \in HostNameSet : ~SortsBefore(g, g) /\ ~SortsBefore(NoHost, g)
  BY DEF SortsBefore, HostNameSet
<1>3. \A g \in Hosts : SortsBefore(g, NoHost)
  BY <1>1 DEF SortsBefore
<1>4. \A g, h \in HostNameSet : g # h => SortsBefore(g, h) \/ SortsBefore(h, g)
  <2>1. \A g, h \in Hosts : g # h => Rank[g] < Rank[h] \/ Rank[h] < Rank[g]
    BY <1>1
  <2> QED
    BY <2>1 DEF SortsBefore, HostNameSet
<1>5. ASSUME NEW f \in HostNameSet, NEW g \in HostNameSet, NEW h \in HostNameSet,
             SortsBefore(f, g), SortsBefore(g, h)
      PROVE  SortsBefore(f, h)
  <2>1. f \in Hosts /\ g \in Hosts
    BY <1>5 DEF SortsBefore, HostNameSet
  <2>2. CASE h = NoHost
    BY <1>1, <2>1, <2>2 DEF SortsBefore
  <2>3. CASE h # NoHost
    <3>1. h \in Hosts /\ Rank[f] < Rank[g] /\ Rank[g] < Rank[h]
      BY <1>1, <1>5, <2>1, <2>3 DEF SortsBefore, HostNameSet
    <3>2. Rank[f] < Rank[h] /\ f # h
      BY <1>1, <2>1, <3>1
    <3> QED
      BY <1>1, <2>1, <3>2 DEF SortsBefore
  <2> QED
    BY <2>2, <2>3
<1>6. ASSUME NEW c \in Covers
      PROVE  c[1] \in Hosts /\ c[2] \in Hosts /\ SortsBefore(c[1], c[2])
  <2>1. c \in Hosts \X Hosts /\ Rank[c[1]] < Rank[c[2]]
    BY HostsAssumption
  <2>2. c[1] \in Hosts /\ c[2] \in Hosts /\ c[1] # c[2]
    BY <1>1, <2>1
  <2> QED
    BY <1>1, <2>1, <2>2 DEF SortsBefore
<1> QED
  BY <1>2, <1>3, <1>4, <1>5, <1>6

Place(D, h) == Cardinality({g \in D : SortsBefore(g, h)}) + 1

LEMMA Places ==
  ASSUME NEW D \in SUBSET HostNameSet, IsFiniteSet(D)
  PROVE  /\ Cardinality(D) \in Nat
         /\ \A h \in D : Place(D, h) \in 1..Cardinality(D)
         /\ \A g, h \in D : SortsBefore(g, h) => Place(D, g) < Place(D, h)
         /\ \A k \in 1..Cardinality(D) : \E h \in D : Place(D, h) = k
         /\ NoHost \in D => Place(D, NoHost) = Cardinality(D)
<1> DEFINE before(h) == {g \in D : SortsBefore(g, h)}
           n == Cardinality(D)
<1>1. n \in Nat
  BY FS_CardinalityType
<1>2. \A h \in D : IsFiniteSet(before(h)) /\ Cardinality(before(h)) \in Nat
  BY FS_Subset, FS_CardinalityType
<1>3. ASSUME NEW h \in D PROVE Place(D, h) \in 1..n
  <2>1. before(h) \subseteq D \ {h}
    BY SortOrder
  <2>2. IsFiniteSet(D \ {h}) /\ Cardinality(D \ {h}) = n - 1
    BY FS_RemoveElement
  <2>3. Cardinality(before(h)) <= n - 1
    BY <2>1, <2>2, FS_Subset
  <2> QED
    BY <1>1, <1>2, <2>3 DEF Place
<1>4. ASSUME NEW g \in D, NEW h \in D, SortsBefore(g, h) PROVE Place(D, g) < Place(D, h)
  <2>1. before(g) \subseteq before(h) /\ g \in before(h) /\ g \notin before(g)
    BY <1>4, SortOrder
  <2>2. Cardinality(before(g)) <= Cardinality(before(h)) /\ Cardinality(before(g)) # Cardinality(before(h))
    BY <1>2, <2>1, FS_Subset
  <2>3. Cardinality(before(g)) \in Nat /\ Cardinality(before(h)) \in Nat
    BY <1>2
  <2>4. Place(D, g) = Cardinality(before(g)) + 1 /\ Place(D, h) = Cardinality(before(h)) + 1
    BY DEF Place
  <2> HIDE DEF before
  <2> QED
    BY <2>2, <2>3, <2>4
<1>5. ASSUME NEW k \in 1..n PROVE \E h \in D : Place(D, h) = k
  <2> DEFINE f == [h \in D |-> Place(D, h)]
  <2>1. f \in [D -> 1..n]
    BY <1>3
  <2>2. \A g, h \in D : f[g] = f[h] => g = h
    BY <1>1, <1>3, <1>4, SortOrder
  <2>3. f \in Injection(D, 1..n)
    BY <2>1, <2>2 DEF Injection, IsInjective
  <2>4. IsFiniteSet(1..n) /\ Cardinality(1..n) = n
    BY <1>1, FS_Interval
  <2>5. f \in Surjection(D, 1..n)
    BY <2>3, <2>4, FS_Injection
  <2> QED
    BY <2>5 DEF Surjection
<1>6. ASSUME NoHost \in D PROVE Place(D, NoHost) = n
  <2>1. before(NoHost) = D \ {NoHost}
    BY SortOrder, <1>6 DEF HostNameSet
  <2>2. Cardinality(D \ {NoHost}) = n - 1
    BY <1>6, FS_RemoveElement
  <2> QED
    BY <1>1, <2>1, <2>2 DEF Place
<1> QED
  BY <1>1, <1>3, <1>4, <1>5, <1>6

\* What the sort makes of rules that are held by their host names: a list with each of
\* them once, in the order of the names, the one without a name at the end.
LEMMA SortedList ==
  ASSUME NEW byHost, DOMAIN byHost \in SUBSET HostNameSet, IsFiniteSet(DOMAIN byHost),
         NoHost \in DOMAIN byHost, \A h \in DOMAIN byHost : byHost[h].host = h,
         NEW list, list = Sorted(byHost)
  PROVE  /\ Len(list) \in Nat \ {0} /\ DOMAIN list = 1..Len(list)
         /\ \A S : (\A h \in DOMAIN byHost : byHost[h] \in S) => list \in Seq(S)
         /\ list[Len(list)] = byHost[NoHost]
         /\ \A k \in 1..Len(list) : /\ list[k].host \in DOMAIN byHost
                                    /\ list[k] = byHost[list[k].host]
         /\ \A h \in DOMAIN byHost : \E k \in 1..Len(list) : list[k] = byHost[h]
         /\ \A j, k \in 1..Len(list) :
              /\ list[j].host = list[k].host => j = k
              /\ SortsBefore(list[j].host, list[k].host) => j < k
<1> DEFINE D == DOMAIN byHost
           n == Cardinality(D)
<1>1. /\ n \in Nat
      /\ \A h \in D : Place(D, h) \in 1..n
      /\ \A g, h \in D : SortsBefore(g, h) => Place(D, g) < Place(D, h)
      /\ \A k \in 1..n : \E h \in D : Place(D, h) = k
      /\ Place(D, NoHost) = n
  BY Places
<1>2. \A g, h \in D : Place(D, g) = Place(D, h) => g = h
  BY <1>1, SortOrder
<1>3. list = [k \in 1..n |-> byHost[CHOOSE h \in D : Cardinality({g \in D : SortsBefore(g, h)}) = k - 1]]
  BY DEF Sorted
<1>4. DOMAIN list = 1..n /\ Len(list) = n
  BY <1>1, <1>3
<1>5. ASSUME NEW h \in D PROVE list[Place(D, h)] = byHost[h]
  <2> DEFINE k == Place(D, h)
             pick == CHOOSE g \in D : Cardinality({f \in D : SortsBefore(f, g)}) = k - 1
  <2>1. k \in 1..n
    BY <1>1
  <2>2. \A g \in D : Cardinality({f \in D : SortsBefore(f, g)}) \in Nat
    BY FS_Subset, FS_CardinalityType
  <2>3. Cardinality({f \in D : SortsBefore(f, h)}) = k - 1
    BY <2>2 DEF Place
  <2>4. pick \in D /\ Cardinality({f \in D : SortsBefore(f, pick)}) = k - 1
    BY <2>3, Zenon
  <2>5. Place(D, pick) = k
    BY <2>1, <2>4 DEF Place
  <2>6. pick = h
    <3> HIDE DEF pick
    <3> QED
      BY <1>2, <2>4, <2>5
  <2>7. list[k] = byHost[pick]
    <3> HIDE DEF k
    <3> QED
      BY <1>3, <2>1
  <2> QED
    BY <2>6, <2>7
<1>6. \A h \in D : Place(D, h) \in 1..n /\ list[Place(D, h)] = byHost[h] /\ list[Place(D, h)].host = h
  BY <1>1, <1>5
<1>7. ASSUME NEW k \in 1..n
      PROVE  list[k].host \in D /\ list[k] = byHost[list[k].host] /\ Place(D, list[k].host) = k
  <2>1. PICK h \in D : Place(D, h) = k
    BY <1>1
  <2> QED
    BY <2>1, <1>6
<1>8. n # 0
  BY <1>1
<1>9. ASSUME NEW S, \A h \in D : byHost[h] \in S PROVE list \in Seq(S)
  <2>1. \A k \in 1..n : list[k] \in S
    BY <1>7, <1>9
  <2>2. list \in [1..n -> S]
    BY <1>3, <2>1
  <2> QED
    BY <1>1, <2>2
<1>10. \A j, k \in 1..n : list[j].host = list[k].host => j = k
  BY <1>7
<1>11. ASSUME NEW j \in 1..n, NEW k \in 1..n, SortsBefore(list[j].host, list[k].host) PROVE j < k
  <2> DEFINE g == list[j].host
             h == list[k].host
  <2>1. g \in D /\ h \in D /\ Place(D, g) = j /\ Place(D, h) = k /\ SortsBefore(g, h)
    BY <1>7, <1>11
  <2> HIDE DEF g, h
  <2> QED
    BY <1>1, <2>1
<1> HIDE DEF D, n
<1>12. list[n] = byHost[NoHost] /\ NoHost \in D
  BY <1>1, <1>6 DEF D
<1> QED
  BY <1>1, <1>4, <1>6, <1>7, <1>8, <1>9, <1>10, <1>11, <1>12 DEF D

-----------------------------------------------------------------------------
(* Lists of rules *)

RuleSet ==
  [host : HostNameSet, path : Paths \cup {AnyPath}, service : Services, origin : Origins]

LEMMA TypeParts == TypeOK <=> rules \in Seq(RuleSet) /\ settings \in Settings
BY DEF TypeOK, RuleSet, HostNameSet

LEMMA TypePartsNext == rules' \in Seq(RuleSet) /\ settings' \in Settings => TypeOK'
BY DEF TypeOK, RuleSet, HostNameSet

LEMMA FiniteElems ==
  ASSUME NEW S, NEW list \in Seq(S)
  PROVE  /\ Len(list) \in Nat /\ DOMAIN list = 1..Len(list)
         /\ \A k \in 1..Len(list) : list[k] \in S /\ list[k] \in Elems(list)
         /\ Elems(list) \subseteq S
         /\ IsFiniteSet(DOMAIN list) /\ IsFiniteSet(Elems(list))
<1>1. Len(list) \in Nat /\ DOMAIN list = 1..Len(list) /\ \A k \in 1..Len(list) : list[k] \in S
  OBVIOUS
<1>2. IsFiniteSet(DOMAIN list)
  BY <1>1, FS_Interval
<1>3. list \in Surjection(DOMAIN list, Elems(list))
  BY <1>1 DEF Surjection, Elems
<1>4. IsFiniteSet(Elems(list))
  BY <1>2, <1>3, FS_Surjection
<1> QED
  BY <1>1, <1>2, <1>4 DEF Elems

LEMMA FiniteHosts ==
  /\ \A list \in Seq(RuleSet) : IsFiniteSet(HostNames(list)) /\ HostNames(list) \subseteq HostNameSet
  /\ \A spec \in Specs : IsFiniteSet(HostsOf(spec)) /\ HostsOf(spec) \subseteq HostNameSet
<1>1. ASSUME NEW list \in Seq(RuleSet)
      PROVE  IsFiniteSet(HostNames(list)) /\ HostNames(list) \subseteq HostNameSet
  <2> DEFINE f == [r \in Elems(list) |-> r.host]
  <2>1. IsFiniteSet(Elems(list)) /\ Elems(list) \subseteq RuleSet
    BY FiniteElems
  <2>2. f \in Surjection(Elems(list), HostNames(list))
    BY DEF Surjection, HostNames
  <2>3. IsFiniteSet(HostNames(list))
    BY <2>1, <2>2, FS_Surjection
  <2> QED
    BY <2>1, <2>3 DEF HostNames, RuleSet
<1>2. ASSUME NEW spec \in Specs
      PROVE  IsFiniteSet(HostsOf(spec)) /\ HostsOf(spec) \subseteq HostNameSet
  <2>1. spec.hosts \in Seq(HostNameSet)
    BY SpecsAssumption DEF HostNameSet
  <2> QED
    BY <2>1, FiniteElems DEF HostsOf
<1> QED
  BY <1>1, <1>2

\* The rule that is left of a host is the last one it has.
LEMMA LastRuleIsLast ==
  ASSUME NEW list \in Seq(RuleSet), NEW h \in HostNames(list)
  PROVE  \E k \in 1..Len(list) :
           /\ LastRule(list, h) = list[k] /\ list[k].host = h
           /\ \A j \in 1..Len(list) : list[j].host = h => j <= k
<1> DEFINE Ours == {k \in DOMAIN list : list[k].host = h}
           IsLast(k) == list[k].host = h /\ \A j \in DOMAIN list : list[j].host = h => j <= k
<1>1. /\ Len(list) \in Nat /\ DOMAIN list = 1..Len(list)
      /\ IsFiniteSet(DOMAIN list)
  BY FiniteElems
<1>2. IsFiniteSet(Ours) /\ \A k \in Ours : k \in Nat
  BY <1>1, FS_Subset
<1>3. Ours # {}
  BY DEF HostNames, Elems
<1>4. PICK k \in Ours : \A j \in Ours : j <= k
  <2> HIDE DEF Ours
  <2> QED
    BY <1>2, <1>3, GreatestElement
<1>5. \E i \in DOMAIN list : IsLast(i)
  BY <1>4
<1> DEFINE last == CHOOSE i \in DOMAIN list : IsLast(i)
<1>6. last \in DOMAIN list /\ IsLast(last)
  <2> HIDE DEF IsLast
  <2> QED
    BY <1>5
<1>7. LastRule(list, h) = list[last]
  BY DEF LastRule
<1> HIDE DEF last
<1> QED
  BY <1>1, <1>6, <1>7

LEMMA LastRuleIs ==
  ASSUME NEW list \in Seq(RuleSet), NEW k \in 1..Len(list),
         \A j \in 1..Len(list) : list[j].host = list[k].host => j <= k
  PROVE  LastRule(list, list[k].host) = list[k]
<1>1. list[k].host \in HostNames(list) /\ Len(list) \in Nat
  BY FiniteElems DEF HostNames
<1>2. PICK i \in 1..Len(list) :
        /\ LastRule(list, list[k].host) = list[i] /\ list[i].host = list[k].host
        /\ \A j \in 1..Len(list) : list[j].host = list[k].host => j <= i
  BY <1>1, LastRuleIsLast
<1>3. i = k
  BY <1>1, <1>2
<1> QED
  BY <1>2, <1>3

\* What both writers make of the stored list, where D are the hosts that get a rule.
IsRewrite(list, spec, D) ==
  /\ list \in Seq(RuleSet) /\ Len(list) \in Nat \ {0}
  /\ list[Len(list)] = CatchAllRule(settings)
  /\ \A k \in 1..Len(list) :
       LET h == list[k].host IN
       /\ h \in D
       /\ h # NoHost => list[k].origin = ToOriginRequestConfig(settings, h)
       /\ h \notin HostsOf(spec) \cup {NoHost} => list[k] = KeptRule(rules, h, settings)
  /\ \A h \in D : \E k \in 1..Len(list) : list[k].host = h
  /\ \A j, k \in 1..Len(list) :
       /\ list[j].host = list[k].host => j = k
       /\ SortsBefore(list[j].host, list[k].host) => j < k

LEMMA RuleTypes ==
  ASSUME TypeOK
  PROVE  /\ CatchAllRule(settings) \in RuleSet /\ CatchAllRule(settings).host = NoHost
         /\ \A h \in HostNames(rules) \ {NoHost} :
              LET r == KeptRule(rules, h, settings) IN
              /\ r \in RuleSet /\ r.host = h /\ r.origin = ToOriginRequestConfig(settings, h)
         /\ \A spec \in Specs, ip \in IPs : \A h \in HostsOf(spec) \ {NoHost} :
              LET r == OwnRule(spec, ip, h, settings) IN
              /\ r \in RuleSet /\ r.host = h /\ r.origin = ToOriginRequestConfig(settings, h)
              /\ r.path = AnyPath /\ r.service = Endpoint(spec, ip, h)
<1>1. rules \in Seq(RuleSet) /\ settings \in Settings
  BY TypeParts
<1>2. CatchAllRule(settings) \in RuleSet /\ CatchAllRule(settings).host = NoHost
  BY <1>1 DEF CatchAllRule, Rule, RuleSet, HostNameSet, Services, Origins
<1>3. \A h \in Hosts : ToOriginRequestConfig(settings, h) \in Origins
  BY <1>1 DEF ToOriginRequestConfig, Origins
<1>4. ASSUME NEW h \in HostNames(rules) \ {NoHost}
      PROVE  LET r == KeptRule(rules, h, settings) IN
             r \in RuleSet /\ r.host = h /\ r.origin = ToOriginRequestConfig(settings, h)
  <2>1. h \in Hosts
    BY <1>1, FiniteHosts DEF HostNameSet
  <2>2. LastRule(rules, h) \in RuleSet /\ LastRule(rules, h).host = h
    BY <1>1, LastRuleIsLast, FiniteElems
  <2> QED
    BY <1>3, <2>1, <2>2 DEF KeptRule, RuleSet
<1>5. ASSUME NEW spec \in Specs, NEW ip \in IPs, NEW h \in HostsOf(spec) \ {NoHost}
      PROVE  LET r == OwnRule(spec, ip, h, settings) IN
             /\ r \in RuleSet /\ r.host = h /\ r.origin = ToOriginRequestConfig(settings, h)
             /\ r.path = AnyPath /\ r.service = Endpoint(spec, ip, h)
  <2>1. h \in Hosts
    BY FiniteHosts DEF HostNameSet
  <2>2. Endpoint(spec, ip, h) \in Services
    BY DEF Endpoint, Services, Endpoints
  <2> QED
    BY <1>3, <2>1, <2>2 DEF OwnRule, Rule, RuleSet, HostNameSet
<1> QED
  BY <1>2, <1>4, <1>5

LEMMA RewrittenSorted ==
  ASSUME TypeOK, NEW spec \in Specs, NEW byHost, NEW D, D = DOMAIN byHost,
         D \subseteq HostNameSet, IsFiniteSet(D), NoHost \in D,
         byHost[NoHost] = CatchAllRule(settings),
         \A h \in D \ {NoHost} :
           /\ byHost[h] \in RuleSet /\ byHost[h].host = h
           /\ byHost[h].origin = ToOriginRequestConfig(settings, h)
           /\ h \notin HostsOf(spec) => byHost[h] = KeptRule(rules, h, settings)
  PROVE  LET list == Sorted(byHost) IN
         IsRewrite(list, spec, D) /\ \A k \in 1..Len(list) : list[k] = byHost[list[k].host]
<1> DEFINE list == Sorted(byHost)
<1>1. \A h \in D : byHost[h] \in RuleSet /\ byHost[h].host = h
  BY RuleTypes
<1>2. /\ Len(list) \in Nat \ {0} /\ DOMAIN list = 1..Len(list)
      /\ \A S : (\A h \in D : byHost[h] \in S) => list \in Seq(S)
      /\ list[Len(list)] = byHost[NoHost]
      /\ \A k \in 1..Len(list) : list[k].host \in D /\ list[k] = byHost[list[k].host]
      /\ \A h \in D : \E k \in 1..Len(list) : list[k] = byHost[h]
      /\ \A j, k \in 1..Len(list) :
           /\ list[j].host = list[k].host => j = k
           /\ SortsBefore(list[j].host, list[k].host) => j < k
  BY <1>1, SortedList
<1> HIDE DEF list
<1>3. list \in Seq(RuleSet)
  BY <1>1, <1>2
<1>4. \A h \in D : \E k \in 1..Len(list) : list[k].host = h
  BY <1>1, <1>2
<1>5. ASSUME NEW k \in 1..Len(list), NEW h, h = list[k].host
      PROVE  /\ h \in D
             /\ h # NoHost => list[k].origin = ToOriginRequestConfig(settings, h)
             /\ h \notin HostsOf(spec) \cup {NoHost} => list[k] = KeptRule(rules, h, settings)
  BY <1>2, <1>5
<1>6. IsRewrite(list, spec, D)
  BY <1>2, <1>3, <1>4, <1>5 DEF IsRewrite
<1> QED
  BY <1>2, <1>6 DEF list

AppendedHosts(spec) == HostNames(rules) \cup HostsOf(spec) \cup {NoHost}
RemainingHosts(spec) == (HostNames(rules) \ HostsOf(spec)) \cup {NoHost}

LEMMA AppendRewrites ==
  ASSUME TypeOK, NEW spec \in Specs, NEW ip \in IPs, NEW list, list = AppendConfig(rules, spec, ip, settings)
  PROVE  /\ IsRewrite(list, spec, AppendedHosts(spec))
         /\ \A k \in 1..Len(list) : list[k].host \in HostsOf(spec) \ {NoHost} =>
              list[k] = OwnRule(spec, ip, list[k].host, settings)
<1> DEFINE D == AppendedHosts(spec)
           byHost == [h \in D |-> IF h = NoHost THEN CatchAllRule(settings)
                                  ELSE IF h \in HostsOf(spec) THEN OwnRule(spec, ip, h, settings)
                                  ELSE KeptRule(rules, h, settings)]
<1>1. rules \in Seq(RuleSet)
  BY TypeParts
<1>2. IsFiniteSet(D) /\ D \subseteq HostNameSet /\ NoHost \in D
  <2>1. IsFiniteSet(HostNames(rules) \cup HostsOf(spec))
    BY <1>1, FiniteHosts, FS_Union
  <2>2. IsFiniteSet(D)
    BY <2>1, FS_AddElement DEF AppendedHosts
  <2> QED
    BY <1>1, <2>2, FiniteHosts DEF AppendedHosts, HostNameSet
<1>3. ASSUME NEW h \in D \ {NoHost}
      PROVE  /\ byHost[h] \in RuleSet /\ byHost[h].host = h
             /\ byHost[h].origin = ToOriginRequestConfig(settings, h)
             /\ h \notin HostsOf(spec) => byHost[h] = KeptRule(rules, h, settings)
             /\ h \in HostsOf(spec) => byHost[h] = OwnRule(spec, ip, h, settings)
  <2>1. CASE h \in HostsOf(spec)
    BY <2>1, RuleTypes
  <2>2. CASE h \notin HostsOf(spec)
    <3>1. h \in HostNames(rules) \ {NoHost}
      BY <2>2 DEF AppendedHosts
    <3> QED
      BY <2>2, <3>1, RuleTypes
  <2> QED
    BY <2>1, <2>2
<1>4. list = Sorted(byHost) /\ byHost[NoHost] = CatchAllRule(settings) /\ DOMAIN byHost = D
  BY <1>2 DEF AppendConfig, AppendedHosts
<1> HIDE DEF D, byHost
<1>5. IsRewrite(list, spec, D) /\ \A k \in 1..Len(list) : list[k] = byHost[list[k].host]
  BY <1>2, <1>3, <1>4, RewrittenSorted
<1> QED
  BY <1>3, <1>5 DEF D, IsRewrite

LEMMA RemoveRewrites ==
  ASSUME TypeOK, NEW spec \in Specs, NEW list, list = RemoveConfig(rules, spec, settings)
  PROVE  IsRewrite(list, spec, RemainingHosts(spec))
<1> DEFINE D == RemainingHosts(spec)
           byHost == [h \in D |-> IF h = NoHost THEN CatchAllRule(settings)
                                  ELSE KeptRule(rules, h, settings)]
<1>1. rules \in Seq(RuleSet)
  BY TypeParts
<1>2. IsFiniteSet(D) /\ D \subseteq HostNameSet /\ NoHost \in D
  <2>1. IsFiniteSet(HostNames(rules) \ HostsOf(spec))
    BY <1>1, FiniteHosts, FS_Difference
  <2>2. IsFiniteSet(D)
    BY <2>1, FS_AddElement DEF RemainingHosts
  <2> QED
    BY <1>1, <2>2, FiniteHosts DEF RemainingHosts, HostNameSet
<1>3. ASSUME NEW h \in D \ {NoHost}
      PROVE  /\ byHost[h] \in RuleSet /\ byHost[h].host = h
             /\ byHost[h].origin = ToOriginRequestConfig(settings, h)
             /\ h \notin HostsOf(spec) => byHost[h] = KeptRule(rules, h, settings)
  <2>1. h \in HostNames(rules) \ {NoHost}
    BY DEF RemainingHosts
  <2> QED
    BY <2>1, RuleTypes
<1>4. list = Sorted(byHost) /\ byHost[NoHost] = CatchAllRule(settings) /\ DOMAIN byHost = D
  BY <1>2 DEF RemoveConfig, RemainingHosts
<1> HIDE DEF D, byHost
<1>5. IsRewrite(list, spec, D)
  BY <1>2, <1>3, <1>4, RewrittenSorted
<1> QED
  BY <1>5 DEF D

LEMMA ReconcileRewrites ==
  ASSUME TypeOK, NEW spec \in Specs, Reconciles(spec)
  PROVE  /\ UNCHANGED settings
         /\ \E D : /\ IsRewrite(rules', spec, D)
                   /\ HostNames(rules) \ HostsOf(spec) \subseteq D
<1>1. CASE RemoveCloudflareTunnelConfig(spec)
  <2>1. rules' = RemoveConfig(rules, spec, settings) /\ UNCHANGED settings
    BY <1>1 DEF RemoveCloudflareTunnelConfig
  <2>2. IsRewrite(rules', spec, RemainingHosts(spec))
    BY <2>1, RemoveRewrites
  <2> QED
    BY <2>1, <2>2 DEF RemainingHosts
<1>2. ASSUME NEW ip \in IPs, AppendCloudflareTunnelConfig(spec, ip)
      PROVE  /\ UNCHANGED settings
             /\ \E D : IsRewrite(rules', spec, D) /\ HostNames(rules) \ HostsOf(spec) \subseteq D
  <2>1. rules' = AppendConfig(rules, spec, ip, settings) /\ UNCHANGED settings
    BY <1>2 DEF AppendCloudflareTunnelConfig
  <2>2. IsRewrite(rules', spec, AppendedHosts(spec))
    BY <2>1, AppendRewrites
  <2> QED
    BY <2>1, <2>2 DEF AppendedHosts
<1> QED
  BY <1>1, <1>2 DEF Reconciles

-----------------------------------------------------------------------------
(* Type correctness *)

LEMMA JoinedParts ==
  ASSUME NEW S, NEW a \in Seq(S), NEW b \in Seq(S)
  PROVE  /\ a \o b \in Seq(S) /\ Len(a \o b) = Len(a) + Len(b)
         /\ \A i \in 1..Len(a) : (a \o b)[i] = a[i]
         /\ \A i \in 1..Len(b) : (a \o b)[Len(a) + i] = b[i]
OBVIOUS

\* Rule r is put into a list as its k-th, the k-th rule is taken out of a list.
Inserted(list, new, k, r) ==
  /\ Len(new) = Len(list) + 1
  /\ \A i \in 1..Len(new) : new[i] = IF i < k THEN list[i] ELSE IF i = k THEN r ELSE list[i - 1]

Dropped(list, new, k) ==
  /\ Len(new) = Len(list) - 1
  /\ \A i \in 1..Len(new) : new[i] = IF i < k THEN list[i] ELSE list[i + 1]

LEMMA InsertedRule ==
  ASSUME NEW S, NEW list \in Seq(S), NEW k \in 1..Len(list), NEW r \in S
  PROVE  LET new == SubSeq(list, 1, k - 1) \o <<r>> \o SubSeq(list, k, Len(list)) IN
         new \in Seq(S) /\ Inserted(list, new, k, r)
<1>1. PICK a, b : a = SubSeq(list, 1, k - 1) /\ b = SubSeq(list, k, Len(list))
  OBVIOUS
<1>2. Len(list) \in Nat
  OBVIOUS
<1>3. a \in Seq(S) /\ Len(a) = k - 1 /\ \A i \in 1..k - 1 : a[i] = list[i]
  BY <1>1, <1>2
<1>4. /\ b \in Seq(S) /\ Len(b) = Len(list) - k + 1
      /\ \A i \in 1..Len(list) - k + 1 : b[i] = list[k + i - 1]
  BY <1>1, <1>2
<1>5. PICK c : c = a \o <<r>>
  OBVIOUS
<1>c. /\ c \in Seq(S) /\ Len(c) = Len(a) + 1
      /\ \A i \in 1..Len(a) : c[i] = a[i]
      /\ c[Len(a) + 1] = r
  <2>1. a \in Seq(S)
    BY <1>3
  <2> QED
    BY <1>5, <2>1
<1>n. PICK new : new = c \o b
  OBVIOUS
<1>6. /\ new \in Seq(S) /\ Len(new) = Len(a) + 1 + Len(b)
      /\ \A i \in 1..Len(a) : new[i] = a[i]
      /\ new[Len(a) + 1] = r
      /\ \A i \in 1..Len(b) : new[Len(a) + 1 + i] = b[i]
  <2>1. b \in Seq(S) /\ Len(a) \in Nat /\ Len(b) \in Nat
    BY <1>2, <1>3, <1>4
  <2>2. /\ new \in Seq(S) /\ Len(new) = Len(c) + Len(b)
        /\ \A i \in 1..Len(c) : new[i] = c[i]
        /\ \A i \in 1..Len(b) : new[Len(c) + i] = b[i]
    <3>1. c \in Seq(S)
      BY <1>c
    <3> QED
      BY <1>n, <2>1, <3>1, JoinedParts
  <2> QED
    BY <1>c, <2>1, <2>2
<1>7. Len(new) = Len(list) + 1
  BY <1>2, <1>3, <1>4, <1>6
<1>8. \A i \in 1..k - 1 : new[i] = list[i]
  BY <1>3, <1>6
<1>9. new[k] = r
  BY <1>3, <1>6
<1>10. ASSUME NEW i \in k + 1..Len(list) + 1 PROVE new[i] = list[i - 1]
  <2>1. PICK j \in 1..Len(list) - k + 1 : i = k + j
    BY <1>2
  <2>2. new[k + j] = b[j]
    BY <1>2, <1>3, <1>4, <1>6
  <2>3. b[j] = list[k + j - 1]
    BY <1>4
  <2> QED
    BY <2>1, <2>2, <2>3
<1>11. ASSUME NEW i \in 1..Len(list) + 1
       PROVE  new[i] = IF i < k THEN list[i] ELSE IF i = k THEN r ELSE list[i - 1]
  BY <1>2, <1>8, <1>9, <1>10
<1> QED
  BY <1>1, <1>5, <1>n, <1>6, <1>7, <1>11 DEF Inserted

LEMMA DroppedRule ==
  ASSUME NEW S, NEW list \in Seq(S), NEW k \in 1..Len(list) - 1
  PROVE  LET new == SubSeq(list, 1, k - 1) \o SubSeq(list, k + 1, Len(list)) IN
         new \in Seq(S) /\ Dropped(list, new, k)
<1>1. PICK a, b : a = SubSeq(list, 1, k - 1) /\ b = SubSeq(list, k + 1, Len(list))
  OBVIOUS
<1>2. Len(list) \in Nat
  OBVIOUS
<1>3. a \in Seq(S) /\ Len(a) = k - 1 /\ \A i \in 1..k - 1 : a[i] = list[i]
  BY <1>1, <1>2
<1>4. /\ b \in Seq(S) /\ Len(b) = Len(list) - k
      /\ \A i \in 1..Len(list) - k : b[i] = list[k + i]
  BY <1>1, <1>2
<1>n. PICK new : new = a \o b
  OBVIOUS
<1>5. /\ new \in Seq(S) /\ Len(new) = Len(a) + Len(b)
      /\ \A i \in 1..Len(a) : new[i] = a[i]
      /\ \A i \in 1..Len(b) : new[Len(a) + i] = b[i]
  <2>1. a \in Seq(S) /\ b \in Seq(S)
    BY <1>3, <1>4
  <2> QED
    BY <1>n, <2>1, JoinedParts
<1>6. Len(new) = Len(list) - 1
  BY <1>2, <1>3, <1>4, <1>5
<1>7. ASSUME NEW i \in 1..Len(list) - 1 PROVE new[i] = IF i < k THEN list[i] ELSE list[i + 1]
  <2>1. CASE i < k
    BY <1>2, <1>3, <1>5, <2>1
  <2>2. CASE i >= k
    <3>1. PICK j \in 1..Len(list) - k : i = (k - 1) + j
      BY <1>2, <2>2
    <3>2. new[(k - 1) + j] = b[j]
      BY <1>3, <1>4, <1>5
    <3>3. b[j] = list[k + j] /\ k + j = i + 1
      BY <1>2, <1>4, <3>1
    <3> QED
      BY <1>2, <2>2, <3>1, <3>2, <3>3
  <2> QED
    BY <1>2, <2>1, <2>2
<1> QED
  BY <1>1, <1>n, <1>5, <1>6, <1>7 DEF Dropped

LEMMA ManualRule ==
  \A h \in Hosts, path \in Paths \cup {AnyPath}, s \in Manual :
    Rule(h, path, s, ManualOrigin) \in RuleSet /\ Rule(h, path, s, ManualOrigin).host = h
BY DEF Rule, RuleSet, HostNameSet, Services, Origins

LEMMA TypeInit == Init => TypeOK
BY TypeParts DEF Init

LEMMA TypeNext == TypeOK /\ [Next]_vars => TypeOK'
<1> SUFFICES ASSUME TypeOK, [Next]_vars PROVE TypeOK'
  OBVIOUS
<1>1. rules \in Seq(RuleSet) /\ settings \in Settings
  BY TypeParts
<1>2. ASSUME NEW spec \in Specs, Reconciles(spec) PROVE TypeOK'
  BY <1>1, <1>2, ReconcileRewrites, TypePartsNext DEF IsRewrite
<1>3. CASE EditSettings
  BY <1>1, <1>3, TypePartsNext DEF EditSettings
<1>4. ASSUME NEW h \in Hosts, NEW path \in Paths \cup {AnyPath}, AddRule(h, path) PROVE TypeOK'
  <2>1. PICK k \in 1..Len(rules), s \in Manual :
          rules' = SubSeq(rules, 1, k - 1) \o <<Rule(h, path, s, ManualOrigin)>>
                   \o SubSeq(rules, k, Len(rules))
    BY <1>4 DEF AddRule
  <2>2. rules' \in Seq(RuleSet)
    BY <1>1, <2>1, ManualRule, InsertedRule
  <2> QED
    BY <1>1, <1>4, <2>2, TypePartsNext DEF AddRule
<1>5. ASSUME NEW k \in 1..(Len(rules) - 1), DropRule(k) PROVE TypeOK'
  <2>1. rules' \in Seq(RuleSet)
    BY <1>1, <1>5, DroppedRule DEF DropRule
  <2> QED
    BY <1>1, <1>5, <2>1, TypePartsNext DEF DropRule
<1>6. CASE UNCHANGED vars
  BY <1>6 DEF TypeOK, vars
<1> QED
  BY <1>2, <1>3, <1>4, <1>5, <1>6 DEF Next

\* Whatever is written, at the dashboard or by the controller, stays a list of rules.
THEOREM TypeCorrect == Spec => []TypeOK
BY TypeInit, TypeNext, PTL DEF Spec

-----------------------------------------------------------------------------
(* What the controller writes *)

LEMMA ValidListStep ==
  ASSUME TypeOK, NEW spec \in Specs, Reconciles(spec), NEW n, n = Len(rules')
  PROVE  /\ rules'[n] = CatchAllRule(settings)
         /\ \A k \in 1..(n - 1) : rules'[k].host # NoHost
         /\ \A j, k \in 1..n : rules'[j].host = rules'[k].host => j = k
<1>1. PICK D : IsRewrite(rules', spec, D)
  BY ReconcileRewrites
<1>2. n \in Nat \ {0} /\ rules'[n] = CatchAllRule(settings)
  BY <1>1 DEF IsRewrite
<1>3. \A j, k \in 1..n : rules'[j].host = rules'[k].host => j = k
  BY <1>1 DEF IsRewrite
<1>4. rules'[n].host = NoHost
  BY <1>2, RuleTypes
<1>5. ASSUME NEW k \in 1..(n - 1) PROVE rules'[k].host # NoHost
  BY <1>2, <1>3, <1>4
<1> QED
  BY <1>2, <1>3, <1>5

\* The controller turns whatever list it finds into one that cloudflared accepts, with
\* one rule per host and the catch-all at its end.
THEOREM ValidLists == Spec => WritesValidList
<1>1. TypeOK => \A spec \in Specs : Reconciles(spec) =>
        LET n == Len(rules') IN
        /\ rules'[n] = CatchAllRule(settings)
        /\ \A k \in 1..(n - 1) : rules'[k].host # NoHost
        /\ \A j, k \in 1..n : rules'[j].host = rules'[k].host => j = k
  BY ValidListStep
<1> QED
  BY <1>1, TypeCorrect, PTL DEF WritesValidList

LEMMA OthersStep ==
  ASSUME TypeOK, NEW spec \in Specs, Reconciles(spec), NEW k \in DOMAIN rules,
         rules[k].host \notin HostsOf(spec) \cup {NoHost},
         \A j \in DOMAIN rules : j > k => rules[j].host # rules[k].host
  PROVE  [rules[k] EXCEPT !.origin = [header |-> rules[k].host, origin |-> settings.origin]]
           \in Elems(rules')
<1> DEFINE h == rules[k].host
<1>1. rules \in Seq(RuleSet) /\ DOMAIN rules = 1..Len(rules) /\ Len(rules) \in Nat
  BY TypeParts
<1>2. LastRule(rules, h) = rules[k]
  BY <1>1, LastRuleIs
<1>3. KeptRule(rules, h, settings)
        = [rules[k] EXCEPT !.origin = [header |-> h, origin |-> settings.origin]]
  BY <1>2 DEF KeptRule, ToOriginRequestConfig
<1>4. h \in HostNames(rules) \ HostsOf(spec)
  BY DEF HostNames, Elems
<1>5. PICK D : IsRewrite(rules', spec, D) /\ h \in D
  BY <1>4, ReconcileRewrites
<1>6. PICK i \in 1..Len(rules') : rules'[i].host = h
  BY <1>5 DEF IsRewrite
<1>7. rules'[i] = KeptRule(rules, h, settings)
  BY <1>5, <1>6 DEF IsRewrite
<1>8. rules'[i] \in Elems(rules')
  BY <1>5, FiniteElems DEF IsRewrite
<1> QED
  BY <1>3, <1>7, <1>8

\* Publishing and withdrawing an Ingress leaves the last rule of every other host in the
\* list, with the origin settings of today.
THEOREM OthersAreKept == Spec => OthersKeepTheirRule
<1>1. TypeOK => \A spec \in Specs : Reconciles(spec) =>
       \A k \in DOMAIN rules :
         /\ rules[k].host \notin HostsOf(spec) \cup {NoHost}
         /\ \A j \in DOMAIN rules : j > k => rules[j].host # rules[k].host
         => [rules[k] EXCEPT !.origin = [header |-> rules[k].host, origin |-> settings.origin]]
              \in Elems(rules')
  BY OthersStep
<1> QED
  BY <1>1, TypeCorrect, PTL DEF OthersKeepTheirRule

-----------------------------------------------------------------------------
(* What cloudflared answers *)

LEMMA FirstMatchIsFirst ==
  ASSUME NEW list \in Seq(RuleSet), NEW h, NEW path,
         \E k \in 1..Len(list) : Matches(list[k], h, path)
  PROVE  \E k \in 1..Len(list) :
           /\ FirstMatch(list, h, path) = list[k] /\ Matches(list[k], h, path)
           /\ \A j \in 1..Len(list) : Matches(list[j], h, path) => k <= j
<1> DEFINE M == {k \in DOMAIN list : Matches(list[k], h, path)}
           IsFirst(k) == Matches(list[k], h, path) /\ \A j \in 1..(k - 1) : ~Matches(list[j], h, path)
<1>1. Len(list) \in Nat /\ DOMAIN list = 1..Len(list) /\ IsFiniteSet(DOMAIN list)
  BY FiniteElems
<1>2. IsFiniteSet(M) /\ M # {} /\ \A k \in M : k \in Nat
  BY <1>1, FS_Subset
<1>3. PICK m \in M : \A j \in M : m <= j
  <2> HIDE DEF M
  <2> QED
    BY <1>2, LeastElement
<1>4. m \in DOMAIN list /\ IsFirst(m)
  BY <1>1, <1>3
<1> DEFINE first == CHOOSE i \in DOMAIN list : IsFirst(i)
<1>5. first \in DOMAIN list /\ IsFirst(first)
  <2> HIDE DEF IsFirst
  <2> QED
    BY <1>4
<1>6. FirstMatch(list, h, path) = list[first]
  BY DEF FirstMatch
<1> HIDE DEF first
<1>7. ASSUME NEW j \in 1..Len(list), Matches(list[j], h, path) PROVE first <= j
  <2>1. first \in Nat /\ j \in Nat
    BY <1>1, <1>5
  <2>2. j \notin 1..(first - 1)
    BY <1>5, <1>7
  <2> QED
    BY <2>1, <2>2
<1> QED
  BY <1>1, <1>5, <1>6, <1>7

LEMMA ReachedStep ==
  ASSUME TypeOK, NEW spec \in Specs, NEW ip \in IPs, AppendCloudflareTunnelConfig(spec, ip),
         NEW h \in HostsOf(spec) \ (Wildcards \cup {NoHost}), NEW path \in Paths \cup {AnyPath},
         NEW answer, answer = FirstMatch(rules', h, path)
  PROVE  /\ IF \E r \in Elems(rules') : r.host \in Wildcards /\ Matches(r, h, path)
            THEN answer.host \in Wildcards
            ELSE answer.host = h /\ answer.service = Endpoint(spec, ip, h)
         /\ answer.origin.header = answer.host
<1>1. PICK list : list = rules'
  OBVIOUS
<1>2. /\ IsRewrite(list, spec, AppendedHosts(spec))
      /\ \A k \in 1..Len(list) : list[k].host \in HostsOf(spec) \ {NoHost} =>
           list[k] = OwnRule(spec, ip, list[k].host, settings)
  BY <1>1, AppendRewrites DEF AppendCloudflareTunnelConfig
<1>3. list \in Seq(RuleSet) /\ Len(list) \in Nat /\ DOMAIN list = 1..Len(list)
      /\ \A k \in 1..Len(list) : list[k].host \in HostNameSet
  <2>1. list \in Seq(RuleSet)
    BY <1>2 DEF IsRewrite
  <2>2. Len(list) \in Nat /\ DOMAIN list = 1..Len(list) /\ \A k \in 1..Len(list) : list[k] \in RuleSet
    BY <2>1, FiniteElems
  <2>3. \A k \in 1..Len(list) : list[k].host \in HostNameSet
    BY <2>2 DEF RuleSet
  <2> QED
    BY <2>1, <2>2, <2>3
<1>4. h \in Hosts /\ h # NoHost
  BY FiniteHosts DEF HostNameSet
<1>5. PICK own \in 1..Len(list) : list[own].host = h
  BY <1>2 DEF IsRewrite, AppendedHosts
<1>6. /\ list[own] = OwnRule(spec, ip, h, settings)
      /\ list[own].path = AnyPath /\ list[own].service = Endpoint(spec, ip, h)
  <2>1. h \in HostsOf(spec) \ {NoHost}
    OBVIOUS
  <2>2. list[own] = OwnRule(spec, ip, h, settings)
    BY <1>2, <1>5, <2>1
  <2> QED
    BY <2>1, <2>2, RuleTypes
<1>7. Matches(list[own], h, path)
  BY <1>5, <1>6 DEF Matches
<1>8. PICK k \in 1..Len(list) :
        /\ answer = list[k] /\ Matches(list[k], h, path)
        /\ \A j \in 1..Len(list) : Matches(list[j], h, path) => k <= j
  BY <1>1, <1>3, <1>7, FirstMatchIsFirst
<1>9. list[k].host # NoHost
  <2> SUFFICES ASSUME list[k].host = NoHost PROVE FALSE
    OBVIOUS
  <2>1. own < k
    BY <1>2, <1>4, <1>5, SortOrder DEF IsRewrite
  <2> QED
    BY <1>3, <1>7, <1>8, <2>1
<1>10. list[k].host = h \/ (list[k].host \in Wildcards /\ <<list[k].host, h>> \in Covers)
  BY <1>8, <1>9 DEF Matches, Wildcards
<1>11. answer.origin.header = answer.host
  <2>1. list[k].origin = ToOriginRequestConfig(settings, list[k].host)
    BY <1>2, <1>9 DEF IsRewrite
  <2> QED
    BY <1>8, <2>1 DEF ToOriginRequestConfig
<1>12. ASSUME NEW r \in Elems(list), r.host \in Wildcards, Matches(r, h, path)
       PROVE  answer.host \in Wildcards
  <2>1. PICK j \in 1..Len(list) : r = list[j]
    BY <1>3 DEF Elems
  <2>2. <<r.host, h>> \in Covers
    <3>1. Wildcards \subseteq Hosts
      BY HostsAssumption DEF Wildcards
    <3> QED
      BY <1>12, <3>1, HostsAssumption DEF Matches
  <2>3. SortsBefore(list[j].host, h)
    BY <2>1, <2>2, SortOrder
  <2>4. j < own
    BY <1>2, <1>5, <2>3 DEF IsRewrite
  <2>5. k # own
    BY <1>3, <1>8, <1>12, <2>1, <2>4
  <2>6. list[k].host # h
    BY <1>2, <1>5, <2>5 DEF IsRewrite
  <2> QED
    BY <1>8, <1>10, <2>6
<1>13. ASSUME ~\E r \in Elems(list) : r.host \in Wildcards /\ Matches(r, h, path)
       PROVE  answer.host = h /\ answer.service = Endpoint(spec, ip, h)
  <2>1. list[k] \in Elems(list)
    BY <1>3 DEF Elems
  <2>2. list[k].host = h
    BY <1>8, <1>10, <1>13, <2>1
  <2>3. k = own
    BY <1>2, <1>5, <2>2 DEF IsRewrite
  <2> QED
    BY <1>6, <1>8, <2>2, <2>3
<1> QED
  BY <1>1, <1>11, <1>12, <1>13

\* Once an Ingress is published, every request for a host of it goes to its endpoint, or,
\* if a wildcard in the list stands for the host, to that wildcard.
THEOREM PublishedHosts == Spec => PublishedHostIsReached
<1>1. ASSUME TypeOK, NEW spec \in Specs, NEW ip \in IPs, AppendCloudflareTunnelConfig(spec, ip),
             NEW h \in HostsOf(spec) \ (Wildcards \cup {NoHost}), NEW path \in Paths \cup {AnyPath}
      PROVE  LET answer == FirstMatch(rules', h, path)
                 shadowed == \E r \in Elems(rules') : r.host \in Wildcards /\ Matches(r, h, path)
             IN /\ IF shadowed THEN answer.host \in Wildcards
                   ELSE answer.host = h /\ answer.service = Endpoint(spec, ip, h)
                /\ answer.origin.header = answer.host
  BY <1>1, ReachedStep
<1>2. TypeOK => \A spec \in Specs, ip \in IPs : AppendCloudflareTunnelConfig(spec, ip) =>
       \A h \in HostsOf(spec) \ (Wildcards \cup {NoHost}), path \in Paths \cup {AnyPath} :
         LET answer == FirstMatch(rules', h, path)
             shadowed == \E r \in Elems(rules') : r.host \in Wildcards /\ Matches(r, h, path)
         IN /\ IF shadowed THEN answer.host \in Wildcards
               ELSE answer.host = h /\ answer.service = Endpoint(spec, ip, h)
            /\ answer.origin.header = answer.host
  BY <1>1
<1> QED
  BY <1>2, TypeCorrect, PTL DEF PublishedHostIsReached

-----------------------------------------------------------------------------
(* The list implements a table *)

TableOf(list) ==
  [h \in Hosts |-> IF h \in HostNames(list) THEN LastRule(list, h).service ELSE NoRule]

\* What a rewrite says of the hosts that are not in hand
LEMMA RewriteTable ==
  ASSUME TypeOK, NEW spec \in Specs, NEW D, NEW list, IsRewrite(list, spec, D)
  PROVE  /\ HostNames(list) = D
         /\ \A k \in 1..Len(list) : LastRule(list, list[k].host) = list[k]
         /\ \A h \in D \ (HostsOf(spec) \cup {NoHost}) : LastRule(list, h).service = LastRule(rules, h).service
<1>1. list \in Seq(RuleSet) /\ Len(list) \in Nat /\ DOMAIN list = 1..Len(list)
  BY FiniteElems DEF IsRewrite
<1>2. HostNames(list) = D
  BY <1>1 DEF IsRewrite, HostNames, Elems
<1>3. ASSUME NEW k \in 1..Len(list) PROVE LastRule(list, list[k].host) = list[k]
  <2>1. \A j \in 1..Len(list) : list[j].host = list[k].host => j <= k
    BY <1>1 DEF IsRewrite
  <2> QED
    BY <1>1, <2>1, LastRuleIs
<1>4. ASSUME NEW h \in D \ (HostsOf(spec) \cup {NoHost})
      PROVE  LastRule(list, h).service = LastRule(rules, h).service
  <2>1. PICK k \in 1..Len(list) : list[k].host = h
    BY DEF IsRewrite
  <2>2. list[k] = KeptRule(rules, h, settings)
    BY <2>1 DEF IsRewrite
  <2>3. list[k].service = LastRule(rules, h).service
    BY <2>2 DEF KeptRule
  <2> QED
    BY <1>3, <2>1, <2>3
<1> QED
  BY <1>2, <1>3, <1>4

LEMMA PublishStep ==
  ASSUME TypeOK, NEW spec \in Specs, NEW ip \in IPs, AppendCloudflareTunnelConfig(spec, ip)
  PROVE  Table!Publish(spec, ip)
<1>1. PICK list : list = rules'
  OBVIOUS
<1>2. /\ IsRewrite(list, spec, AppendedHosts(spec))
      /\ \A k \in 1..Len(list) : list[k].host \in HostsOf(spec) \ {NoHost} =>
           list[k] = OwnRule(spec, ip, list[k].host, settings)
  BY <1>1, AppendRewrites DEF AppendCloudflareTunnelConfig
<1>3. /\ HostNames(list) = AppendedHosts(spec)
      /\ \A k \in 1..Len(list) : LastRule(list, list[k].host) = list[k]
      /\ \A h \in AppendedHosts(spec) \ (HostsOf(spec) \cup {NoHost}) :
           LastRule(list, h).service = LastRule(rules, h).service
  BY <1>2, RewriteTable
<1>4. ASSUME NEW h \in Hosts
      PROVE  TableOf(list)[h] = IF h \in HostsOf(spec) THEN Endpoint(spec, ip, h) ELSE TableOf(rules)[h]
  <2>1. h # NoHost
    BY HostsAssumption
  <2>2. CASE h \in HostsOf(spec)
    <3>1. PICK k \in 1..Len(list) : list[k].host = h
      BY <1>2, <2>2 DEF IsRewrite, AppendedHosts
    <3>2. LastRule(list, h) = OwnRule(spec, ip, h, settings)
      BY <1>2, <1>3, <2>1, <2>2, <3>1
    <3> QED
      BY <1>3, <2>1, <2>2, <3>2, RuleTypes DEF TableOf, AppendedHosts
  <2>3. CASE h \notin HostsOf(spec)
    BY <1>3, <2>1, <2>3 DEF TableOf, AppendedHosts
  <2> QED
    BY <2>2, <2>3
<1>5. TableOf(rules') = [h \in Hosts |-> IF h \in HostsOf(spec) THEN Endpoint(spec, ip, h) ELSE TableOf(rules)[h]]
  BY <1>1, <1>4 DEF TableOf
<1> QED
  BY <1>5 DEF Table!Publish, TableOf

LEMMA WithdrawStep ==
  ASSUME TypeOK, NEW spec \in Specs, RemoveCloudflareTunnelConfig(spec)
  PROVE  Table!Withdraw(spec)
<1>1. PICK list : list = rules'
  OBVIOUS
<1>2. IsRewrite(list, spec, RemainingHosts(spec))
  BY <1>1, RemoveRewrites DEF RemoveCloudflareTunnelConfig
<1>3. /\ HostNames(list) = RemainingHosts(spec)
      /\ \A h \in RemainingHosts(spec) \ (HostsOf(spec) \cup {NoHost}) :
           LastRule(list, h).service = LastRule(rules, h).service
  BY <1>2, RewriteTable
<1>4. ASSUME NEW h \in Hosts
      PROVE  TableOf(list)[h] = IF h \in HostsOf(spec) THEN NoRule ELSE TableOf(rules)[h]
  <2>1. h # NoHost
    BY HostsAssumption
  <2> QED
    BY <1>3, <2>1 DEF TableOf, RemainingHosts
<1>5. TableOf(rules') = [h \in Hosts |-> IF h \in HostsOf(spec) THEN NoRule ELSE TableOf(rules)[h]]
  BY <1>1, <1>4 DEF TableOf
<1> QED
  BY <1>5 DEF Table!Withdraw, TableOf

\* The rules of a host move from one list to another, the last one to the last one.
Moves(list, new, h) ==
  /\ \A i \in 1..Len(list) : list[i].host = h =>
       \E j \in 1..Len(new) :
         /\ new[j] = list[i]
         /\ (\A m \in 1..Len(list) : list[m].host = h => m <= i) =>
              \A m \in 1..Len(new) : new[m].host = h => m <= j
  /\ \A j \in 1..Len(new) : new[j].host = h => h \in HostNames(list)

LEMMA SameLastRule ==
  ASSUME NEW list \in Seq(RuleSet), NEW new \in Seq(RuleSet), NEW h, Moves(list, new, h)
  PROVE  /\ h \in HostNames(new) <=> h \in HostNames(list)
         /\ h \in HostNames(list) => LastRule(new, h) = LastRule(list, h)
<1>1. DOMAIN list = 1..Len(list) /\ DOMAIN new = 1..Len(new)
  BY FiniteElems
<1>2. h \in HostNames(new) <=> h \in HostNames(list)
  BY <1>1 DEF HostNames, Elems, Moves
<1>3. ASSUME h \in HostNames(list) PROVE LastRule(new, h) = LastRule(list, h)
  <2>1. PICK i \in 1..Len(list) :
          /\ LastRule(list, h) = list[i] /\ list[i].host = h
          /\ \A m \in 1..Len(list) : list[m].host = h => m <= i
    BY <1>3, LastRuleIsLast
  <2>2. PICK j \in 1..Len(new) : new[j] = list[i] /\ \A m \in 1..Len(new) : new[m].host = h => m <= j
    BY <2>1 DEF Moves
  <2>3. LastRule(new, new[j].host) = new[j]
    BY <2>1, <2>2, LastRuleIs
  <2> QED
    BY <2>1, <2>2, <2>3
<1> QED
  BY <1>2, <1>3

LEMMA InsertKeepsOthers ==
  ASSUME NEW list \in Seq(RuleSet), NEW new \in Seq(RuleSet), NEW k \in 1..Len(list), NEW r, Inserted(list, new, k, r),
         NEW h, h # r.host
  PROVE  /\ h \in HostNames(new) <=> h \in HostNames(list)
         /\ h \in HostNames(list) => LastRule(new, h) = LastRule(list, h)
<1>1. PICK n : n = Len(list)
  OBVIOUS
<1>2. /\ n \in Nat /\ Len(new) = n + 1
      /\ \A i \in 1..n : list[i] \in Elems(list)
      /\ \A i \in 1..n : i < k => new[i] = list[i]
      /\ new[k] = r
      /\ \A i \in 1..n : i >= k => new[i + 1] = list[i]
  <2>1. Len(list) \in Nat /\ \A i \in 1..Len(list) : list[i] \in Elems(list)
    BY FiniteElems
  <2>2. ASSUME NEW i \in 1..n, i >= k PROVE new[i + 1] = list[i]
    <3>1. new[i + 1] = list[(i + 1) - 1] /\ (i + 1) - 1 = i
      BY <1>1, <2>1, <2>2 DEF Inserted
    <3> QED
      BY <3>1
  <2> QED
    BY <1>1, <2>1, <2>2 DEF Inserted
<1>3. ASSUME NEW m \in 1..n + 1, new[m].host = h
      PROVE  \E i \in 1..n : list[i] = new[m] /\ ((i < k /\ m = i) \/ (i >= k /\ m = i + 1))
  <2>1. CASE m < k
    BY <1>1, <1>2, <2>1
  <2>2. CASE m > k
    <3>1. m - 1 \in 1..n /\ m - 1 >= k /\ m = (m - 1) + 1
      BY <1>1, <1>2, <2>2
    <3> QED
      BY <1>2, <3>1
  <2>3. m # k
    BY <1>2, <1>3
  <2> QED
    BY <1>1, <1>2, <2>1, <2>2, <2>3
<1>4. ASSUME NEW i \in 1..n, list[i].host = h
      PROVE  \E j \in 1..n + 1 :
               /\ new[j] = list[i]
               /\ (\A m \in 1..n : list[m].host = h => m <= i) =>
                    \A m \in 1..n + 1 : new[m].host = h => m <= j
  <2>1. PICK j \in 1..n + 1 : (i < k /\ j = i) \/ (i >= k /\ j = i + 1)
    BY <1>1, <1>2
  <2>2. new[j] = list[i]
    BY <1>2, <2>1
  <2>3. ASSUME \A m \in 1..n : list[m].host = h => m <= i, NEW m \in 1..n + 1, new[m].host = h
        PROVE  m <= j
    <3>1. PICK l \in 1..n : list[l] = new[m] /\ ((l < k /\ m = l) \/ (l >= k /\ m = l + 1))
      BY <1>3, <2>3
    <3>2. l <= i
      BY <2>3, <3>1
    <3> QED
      BY <1>1, <1>2, <2>1, <3>1, <3>2
  <2> QED
    BY <2>2, <2>3
<1>5. \A m \in 1..n + 1 : new[m].host = h => h \in HostNames(list)
  BY <1>2, <1>3 DEF HostNames
<1>6. Moves(list, new, h)
  BY <1>1, <1>2, <1>4, <1>5 DEF Moves
<1> QED
  BY <1>6, SameLastRule

LEMMA DropKeepsOthers ==
  ASSUME NEW list \in Seq(RuleSet), NEW new \in Seq(RuleSet), NEW k \in 1..Len(list) - 1, Dropped(list, new, k),
         NEW h, h # list[k].host
  PROVE  /\ h \in HostNames(new) <=> h \in HostNames(list)
         /\ h \in HostNames(list) => LastRule(new, h) = LastRule(list, h)
<1>1. PICK n : n = Len(list)
  OBVIOUS
<1>2. /\ n \in Nat /\ Len(new) = n - 1 /\ k \in 1..n - 1
      /\ \A i \in 1..n : list[i] \in Elems(list)
      /\ \A i \in 1..n - 1 : i < k => new[i] = list[i]
      /\ \A i \in 1..n - 1 : i >= k => new[i] = list[i + 1]
  <2>1. Len(list) \in Nat /\ \A i \in 1..Len(list) : list[i] \in Elems(list)
    BY FiniteElems
  <2> QED
    BY <1>1, <2>1 DEF Dropped
<1>3. ASSUME NEW m \in 1..n - 1, new[m].host = h
      PROVE  \E i \in 1..n : list[i] = new[m] /\ ((i < k /\ m = i) \/ (i > k /\ m = i - 1))
  <2>1. CASE m < k
    BY <1>2, <2>1
  <2>2. CASE m >= k
    <3>1. m + 1 \in 1..n /\ m + 1 > k /\ m = (m + 1) - 1
      BY <1>2, <2>2
    <3> QED
      BY <1>2, <2>2, <3>1
  <2> QED
    BY <1>2, <2>1, <2>2
<1>4. ASSUME NEW i \in 1..n, list[i].host = h
      PROVE  \E j \in 1..n - 1 :
               /\ new[j] = list[i]
               /\ (\A m \in 1..n : list[m].host = h => m <= i) =>
                    \A m \in 1..n - 1 : new[m].host = h => m <= j
  <2>0. i # k
    BY <1>4
  <2>1. PICK j \in 1..n - 1 : (i < k /\ j = i) \/ (i > k /\ j = i - 1)
    <3>1. CASE i < k
      BY <1>2, <3>1
    <3>2. CASE i > k
      <4>1. i - 1 \in 1..n - 1
        BY <1>2, <3>2
      <4> QED
        BY <3>2, <4>1
    <3> QED
      BY <1>2, <2>0, <3>1, <3>2
  <2>2. new[j] = list[i]
    <3>1. CASE i < k
      BY <1>2, <2>1, <3>1
    <3>2. CASE i > k
      <4>1. j >= k /\ j + 1 = i
        BY <1>2, <2>1, <3>2
      <4> QED
        BY <1>2, <4>1
    <3> QED
      BY <1>2, <2>0, <3>1, <3>2
  <2>3. ASSUME \A m \in 1..n : list[m].host = h => m <= i, NEW m \in 1..n - 1, new[m].host = h
        PROVE  m <= j
    <3>1. PICK l \in 1..n : list[l] = new[m] /\ ((l < k /\ m = l) \/ (l > k /\ m = l - 1))
      BY <1>3, <2>3
    <3>2. l <= i
      BY <2>3, <3>1
    <3> QED
      BY <1>2, <2>0, <2>1, <3>1, <3>2
  <2> QED
    BY <2>2, <2>3
<1>5. \A m \in 1..n - 1 : new[m].host = h => h \in HostNames(list)
  BY <1>2, <1>3 DEF HostNames
<1>6. Moves(list, new, h)
  BY <1>1, <1>2, <1>4, <1>5 DEF Moves
<1> QED
  BY <1>6, SameLastRule

\* A change that touches one host only edits the table there, or not at all.
LEMMA OneHostStep ==
  ASSUME TypeOK, TypeOK', NEW g \in HostNameSet,
         \A h \in Hosts \ {g} :
           /\ h \in HostNames(rules') <=> h \in HostNames(rules)
           /\ h \in HostNames(rules) => LastRule(rules', h) = LastRule(rules, h)
  PROVE  (\E h \in Hosts : Table!Edit(h)) \/ TableOf(rules') = TableOf(rules)
<1>1. \A h \in Hosts \ {g} : TableOf(rules')[h] = TableOf(rules)[h]
  BY DEF TableOf
<1>2. CASE g \in Hosts
  <2>1. TableOf(rules')[g] \in Services \cup {NoRule}
    <3>1. CASE g \in HostNames(rules')
      <4>1. rules' \in Seq(RuleSet)
        BY DEF TypeOK, RuleSet, HostNameSet
      <4>2. LastRule(rules', g) \in RuleSet
        BY <3>1, <4>1, LastRuleIsLast, FiniteElems
      <4> QED
        BY <1>2, <3>1, <4>2 DEF TableOf, RuleSet
    <3>2. CASE g \notin HostNames(rules')
      BY <1>2, <3>2 DEF TableOf
    <3> QED
      BY <3>1, <3>2
  <2>2. TableOf(rules') = [TableOf(rules) EXCEPT ![g] = TableOf(rules')[g]]
    BY <1>1, <1>2 DEF TableOf
  <2>3. Table!Edit(g)
    BY <2>1, <2>2 DEF Table!Edit, TableOf
  <2> QED
    BY <1>2, <2>3
<1>3. CASE g \notin Hosts
  BY <1>1, <1>3 DEF TableOf
<1> QED
  BY <1>2, <1>3

LEMMA TableNext == TypeOK /\ TypeOK' /\ [Next]_vars => Table!Next \/ TableOf(rules') = TableOf(rules)
<1> SUFFICES ASSUME TypeOK, TypeOK', [Next]_vars PROVE Table!Next \/ TableOf(rules') = TableOf(rules)
  OBVIOUS
<1>1. rules \in Seq(RuleSet) /\ Len(rules) \in Nat
  BY TypeParts
<1>2. ASSUME NEW spec \in Specs, Reconciles(spec) PROVE Table!Next
  BY <1>2, PublishStep, WithdrawStep DEF Reconciles, Table!Next
<1>3. CASE EditSettings
  BY <1>3 DEF EditSettings
<1>4. ASSUME NEW h \in Hosts, NEW path \in Paths \cup {AnyPath}, AddRule(h, path)
      PROVE  Table!Next \/ TableOf(rules') = TableOf(rules)
  <2>1. PICK k \in 1..Len(rules), s \in Manual :
          rules' = SubSeq(rules, 1, k - 1) \o <<Rule(h, path, s, ManualOrigin)>>
                   \o SubSeq(rules, k, Len(rules))
    BY <1>4 DEF AddRule
  <2>2. \A g \in Hosts \ {h} :
          /\ g \in HostNames(rules') <=> g \in HostNames(rules)
          /\ g \in HostNames(rules) => LastRule(rules', g) = LastRule(rules, g)
    <3>1. PICK r \in RuleSet : r = Rule(h, path, s, ManualOrigin) /\ r.host = h
      BY ManualRule
    <3>2. rules' \in Seq(RuleSet) /\ Inserted(rules, rules', k, r)
      BY <1>1, <2>1, <3>1, InsertedRule
    <3> QED
      BY <1>1, <3>1, <3>2, InsertKeepsOthers
  <2> QED
    BY <2>2, OneHostStep DEF HostNameSet, Table!Next
<1>5. ASSUME NEW k \in 1..(Len(rules) - 1), DropRule(k)
      PROVE  Table!Next \/ TableOf(rules') = TableOf(rules)
  <2>1. rules' = SubSeq(rules, 1, k - 1) \o SubSeq(rules, k + 1, Len(rules))
    BY <1>5 DEF DropRule
  <2>2. \A g \in Hosts \ {rules[k].host} :
          /\ g \in HostNames(rules') <=> g \in HostNames(rules)
          /\ g \in HostNames(rules) => LastRule(rules', g) = LastRule(rules, g)
    <3>1. rules' \in Seq(RuleSet) /\ Dropped(rules, rules', k)
      BY <1>1, <2>1, DroppedRule
    <3> QED
      BY <1>1, <3>1, DropKeepsOthers
  <2>3. rules[k].host \in HostNameSet
    <3>1. k \in 1..Len(rules)
      BY <1>1
    <3>2. rules[k] \in RuleSet
      BY <1>1, <3>1, FiniteElems
    <3> QED
      BY <3>2 DEF RuleSet
  <2> QED
    BY <2>2, <2>3, OneHostStep DEF Table!Next
<1>6. CASE UNCHANGED vars
  BY <1>6 DEF vars
<1> QED
  BY <1>2, <1>3, <1>4, <1>5, <1>6 DEF Next

LEMMA TableInit == Init => Table!Init
BY DEF Init, Table!Init, HostNames, Elems

\* Sorting, paths and the catch-all aside, the list is the table of hosts that
\* IngressController works on: each write of the controller changes what it says of the
\* hosts in hand and of no other.
THEOREM Refinement == Spec => ImplementsTable
<1>1. TypeOK /\ TypeOK' /\ [Next]_vars => [Table!Next]_(TableOf(rules))
  BY TableNext
<1> QED
  BY <1>1, TableInit, TypeCorrect, PTL DEF Spec, ImplementsTable, Table!Spec, TableOf
=============================================================================
