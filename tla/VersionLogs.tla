---------------------------- MODULE VersionLogs ----------------------------
(***************************************************************************)
(* Lemmas about logs of versions.  The controllers see the cluster through *)
(* caches: an object is the sequence of its versions from the cached one,  *)
(* the first, to the stored one, the last.  A write appends a version, a   *)
(* watch event drops the first.                                            *)
(***************************************************************************)
EXTENDS Integers, Sequences, TLAPS

Elems(log) == {log[i] : i \in 1..Len(log)}

LEMMA AppendLog ==
  ASSUME NEW S, NEW log \in Seq(S), NEW v \in S
  PROVE  /\ Append(log, v) \in Seq(S)
         /\ Len(Append(log, v)) = Len(log) + 1
         /\ Append(log, v)[Len(Append(log, v))] = v
         /\ \A i \in 1..Len(log) : Append(log, v)[i] = log[i]
         /\ Elems(Append(log, v)) = Elems(log) \cup {v}
<1>1. /\ Append(log, v) \in Seq(S)
      /\ Len(Append(log, v)) = Len(log) + 1
      /\ Append(log, v)[Len(log) + 1] = v
      /\ \A i \in 1..Len(log) : Append(log, v)[i] = log[i]
  OBVIOUS
<1>2. Len(log) \in Nat
  OBVIOUS
<1>3. 1..Len(log) + 1 = (1..Len(log)) \cup {Len(log) + 1}
  BY <1>2
<1> QED
  BY <1>1, <1>2, <1>3 DEF Elems

LEMMA TailLog ==
  ASSUME NEW S, NEW log \in Seq(S), Len(log) > 1
  PROVE  /\ Tail(log) \in Seq(S)
         /\ Len(Tail(log)) = Len(log) - 1
         /\ Len(Tail(log)) > 0
         /\ Tail(log)[Len(Tail(log))] = log[Len(log)]
         /\ \A i \in 1..Len(Tail(log)) : Tail(log)[i] = log[i + 1]
         /\ Elems(Tail(log)) \subseteq Elems(log)
<1>1. /\ Tail(log) \in Seq(S)
      /\ Len(Tail(log)) = Len(log) - 1
      /\ \A i \in 1..Len(log) - 1 : Tail(log)[i] = log[i + 1]
  OBVIOUS
<1>2. Len(log) \in Nat
  OBVIOUS
<1> QED
  BY <1>1, <1>2 DEF Elems

LEMMA LogElems ==
  ASSUME NEW S, NEW log \in Seq(S), Len(log) > 0
  PROVE  /\ Len(log) \in Nat
         /\ log[1] \in Elems(log) /\ log[Len(log)] \in Elems(log)
         /\ log[1] \in S /\ log[Len(log)] \in S
         /\ \A i \in 1..Len(log) : log[i] \in S
         /\ Len(log) = 1 => log[1] = log[Len(log)]
<1>1. 1 \in 1..Len(log) /\ Len(log) \in 1..Len(log)
  OBVIOUS
<1> QED
  BY <1>1 DEF Elems

LEMMA SingletonLog ==
  ASSUME NEW S, NEW v \in S PROVE <<v>> \in Seq(S) /\ Len(<<v>>) > 0 /\ <<v>>[Len(<<v>>)] = v
OBVIOUS
=============================================================================
