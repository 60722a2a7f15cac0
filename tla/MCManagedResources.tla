-------------------------- MODULE MCManagedResources --------------------------
(* Values of the constants of ManagedResources for TLC. *)
EXTENDS ManagedResources

CONSTANTS n1, n2

Plain == [default |-> FALSE, monitor |-> TRUE, replicas |-> 1,
          limits |-> NoList, requests |-> NoList, pdb |-> NoPDB]
Field(f) == [g \in {f} |-> 1]

\* a default tunnel with a budget of either kind, or no default one, with no ServiceMonitor
\* and no replica; beside it a default tunnel with a limit for one resource and a request
\* for the other
TwoTunnels ==
  [n \in {n1, n2} |->
     IF n = n1
     THEN {[Plain EXCEPT !.default = TRUE, !.pdb = Field("min")],
           [Plain EXCEPT !.default = TRUE, !.pdb = Field("max"), !.replicas = 2],
           [Plain EXCEPT !.monitor = FALSE, !.replicas = 0]}
     ELSE {[Plain EXCEPT !.default = TRUE, !.limits = Field("cpu"), !.requests = Field("memory")]}]
=============================================================================
