------------------------------ MODULE HostTable ------------------------------
(***************************************************************************)
(* What the remote configuration of a tunnel is to the Ingress controller: *)
(* a table from host names to services.  An Ingress is published by giving *)
(* each of its hosts its endpoint, withdrawn by clearing them, and nothing *)
(* else changes.  IngressController.tla works on this table; TunnelConfig  *)
(* works on the list of rules and implements it.                           *)
(***************************************************************************)
CONSTANTS
  Hosts,             \* host names
  Services, NoRule,  \* what a host may be sent to, or that it has no rule
  Specs,             \* what users ask for, see TunnelConfig
  HostsOf(_),        \* the hosts of such a specification
  Endpoint(_, _, _)  \* the service of a host of it, at an address
CONSTANT IPs

VARIABLE table

Init == table = [h \in Hosts |-> NoRule]

Publish(spec, ip) ==
  table' = [h \in Hosts |-> IF h \in HostsOf(spec) THEN Endpoint(spec, ip, h) ELSE table[h]]

Withdraw(spec) ==
  table' = [h \in Hosts |-> IF h \in HostsOf(spec) THEN NoRule ELSE table[h]]

\* somebody else changes one host at the dashboard
Edit(h) == \E s \in Services \cup {NoRule} : table' = [table EXCEPT ![h] = s]

Next ==
  \/ \E spec \in Specs : Withdraw(spec) \/ \E ip \in IPs : Publish(spec, ip)
  \/ \E h \in Hosts : Edit(h)

Spec == Init /\ [][Next]_table
=============================================================================
