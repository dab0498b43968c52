------------------------------ MODULE MCDelivery ------------------------------
(***************************************************************************)
(* A bounded instance of Delivery.  Each budget says how many events of    *)
(* each kind are explored; the steps of server and gateway are not         *)
(* bounded.                                                                *)
(***************************************************************************)
EXTENDS Delivery

NoEvents == [e \in EventKinds |-> 0]

(* Routes move to another cluster, which expires, and back. *)
RouteBudget == [NoEvents EXCEPT !["reroute"] = 2, !["expire"] = 1]

(* The certificate changes twice while routes move. *)
CertificateBudget == [NoEvents EXCEPT !["reroute"] = 1, !["reconfigure"] = 2]

(* Routes move, a cluster expires and a stream breaks or a process restarts. *)
FaultBudget == [NoEvents EXCEPT !["reroute"] = 1, !["expire"] = 1, !["fault"] = 1]

(* A rejected certificate leads to a resync; a process restarts. *)
ResyncBudget == [NoEvents EXCEPT !["reconfigure"] = 1, !["resync"] = 1, !["fault"] = 1]

AllBudgets == {RouteBudget, CertificateBudget, FaultBudget, ResyncBudget}

=============================================================================
