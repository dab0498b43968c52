----------------------------- MODULE MCController -----------------------------
(***************************************************************************)
(* Bounded instances of Controller.  Each budget says how many events of   *)
(* each kind a run explores; the controller's own steps are not bounded.   *)
(***************************************************************************)
EXTENDS Controller

CONSTANT c1

(* Both ingresses route to the same service. *)
SharedBackend == [i \in Ingress |-> c1]

NoEvents == [e \in EventKinds |-> 0]

(* Users create two ingresses, change one and delete one; a service scales. *)
ChurnBudget ==
    [NoEvents EXCEPT !["create"] = 2, !["update"] = 1, !["delete"] = 1, !["scale"] = 1]

(* As above, without a change of spec. *)
DeleteBudget ==
    [NoEvents EXCEPT !["create"] = 2, !["delete"] = 1, !["scale"] = 1]

(* One ingress; its backend comes and goes, the gateway too, a step fails. *)
FaultBudget ==
    [NoEvents EXCEPT !["create"] = 1, !["update"] = 1, !["delete"] = 1, !["scale"] = 1,
                     !["lose"] = 1, !["gateway"] = 2, !["pod"] = 1, !["error"] = 1, !["resync"] = 1]

(* The process restarts while users create, change and delete ingresses. *)
RestartBudget ==
    [NoEvents EXCEPT !["create"] = 2, !["update"] = 1, !["delete"] = 1,
                     !["restart"] = 1]

(* The process restarts while steps of it fail and the gateway is away. *)
FailureBudget ==
    [NoEvents EXCEPT !["create"] = 1, !["update"] = 1, !["gateway"] = 2, !["error"] = 1,
                     !["restart"] = 1]

(* Two ingresses are created and their common service scales. *)
ScaleBudget == [NoEvents EXCEPT !["create"] = 2, !["scale"] = 1]

(* An ingress is deleted and created again. *)
RecreateBudget == [NoEvents EXCEPT !["create"] = 3, !["delete"] = 1]

(* The budgets a run chooses from. *)
Churn == {ChurnBudget, RestartBudget, FailureBudget}
Delete == {DeleteBudget}
Fault == {FaultBudget}
Recreate == {RecreateBudget}
JustRestart == {RestartBudget}
Scale == {ScaleBudget}

=============================================================================
