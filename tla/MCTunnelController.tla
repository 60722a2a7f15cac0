------------------------- MODULE MCTunnelController -------------------------
(* TunnelController with the definitions TLC's configurations need. *)
EXTENDS TunnelController, TLC

\* Tunnel ids are interchangeable: CreateTunnel hands out any unused one.
Symmetry == Permutations(TunnelIDs) \cup Permutations(Hosts)
=============================================================================
