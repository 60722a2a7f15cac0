------------------------- MODULE MCIngressController -------------------------
(* Values of the constants of IngressController for TLC. *)
EXTENDS IngressController

CONSTANTS i1, i2, c1, c2, h1, h2

Plain(hosts, tunnel) == [hosts |-> hosts, tls |-> {}, ignored |-> FALSE, tunnel |-> tunnel]
Secure(spec) == [spec EXCEPT !.tls = spec.hosts]
Ignored(spec) == [spec EXCEPT !.ignored = TRUE]

\* two Ingresses with hosts of their own, and edits that keep the hosts
OwnHosts ==
  [i \in {i1, i2} |->
     IF i = i1 THEN {Plain({h1}, c1), Secure(Plain({h1}, c1)), Ignored(Plain({h1}, c1))}
     ELSE {Plain({h2}, c1), Plain({h2}, "malformed")}]

\* one Ingress with two hosts, moved between the default tunnel and the same by name
TwoHosts ==
  [i \in {i1} |-> {Plain({h1, h2}, "default"), Plain({h1, h2}, c1)}]

\* one Ingress, moved between the default tunnel and another one
Moves ==
  [i \in {i1} |-> {Plain({h1, h2}, "default"), Plain({h1, h2}, c2)}]

\* an Ingress for the default tunnel
ByDefault == [i \in {i1} |-> {Plain({h1}, "default")}]

\* an Ingress for a tunnel it names
ByName == [i \in {i1} |-> {Plain({h1}, c1)}]
=============================================================================
