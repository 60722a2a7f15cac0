--------------------------- MODULE TunnelLifecycle ---------------------------
(***************************************************************************)
(* What the operator promises about the tunnel of a CloudflareTunnel       *)
(* object: the id in Status.TunnelID changes only when the tunnel it names *)
(* no longer exists, only that tunnel is deleted and only while the object *)
(* is being deleted, and the object does not disappear before it.          *)
(* Tunnels nobody recorded are outside of the promise: it says nothing     *)
(* about when they are created, and nothing ever removes them but a person *)
(* at the dashboard.                                                       *)
(***************************************************************************)
CONSTANTS
  TunnelIDs, NoID,
  Removable          \* the tunnels a person may delete at the dashboard

VARIABLES
  phase,     \* of the stored object: "absent", "live" or "deleting"
  recorded,  \* its Status.TunnelID
  tunnels    \* the tunnels that exist

vars == <<phase, recorded, tunnels>>

Init == phase = "absent" /\ recorded = NoID /\ tunnels = {}

Appear == phase = "absent" /\ phase' = "live" /\ UNCHANGED <<recorded, tunnels>>

Provision == \E t \in TunnelIDs : tunnels' = tunnels \cup {t} /\ UNCHANGED <<phase, recorded>>

Record ==
  /\ phase = "live" /\ recorded \notin tunnels
  /\ recorded' \in TunnelIDs /\ UNCHANGED <<phase, tunnels>>

Retire == phase = "live" /\ phase' = "deleting" /\ UNCHANGED <<recorded, tunnels>>

\* deleted by the user before the operator took hold of it
Forget ==
  phase = "live" /\ recorded = NoID /\ phase' = "absent" /\ UNCHANGED <<recorded, tunnels>>

Destroy ==
  /\ phase = "deleting"
  /\ tunnels' = tunnels \ {recorded} /\ UNCHANGED <<phase, recorded>>

Vanish ==
  /\ phase = "deleting" /\ recorded \notin tunnels
  /\ phase' = "absent" /\ recorded' = NoID /\ UNCHANGED tunnels

Remove == \E t \in Removable : tunnels' = tunnels \ {t} /\ UNCHANGED <<phase, recorded>>

Next == Appear \/ Provision \/ Record \/ Retire \/ Forget \/ Destroy \/ Vanish \/ Remove

Spec == Init /\ [][Next]_vars
=============================================================================
