------------------------------- MODULE Countdown -------------------------------
(***************************************************************************)
(* What the status prober promises to the reconciler.  Every probing of an *)
(* ingress waits for a set of gateway pods, each of which is finished once *)
(* (probed, or given up); with the last one the reconciler is called back, *)
(* once and not before.                                                    *)
(***************************************************************************)
EXTENDS Naturals, Sequences

CONSTANT Pod

VARIABLES
    waiting,   \* for each probing, the pods it waits for
    calls      \* for each probing, how often it has called back

vars == <<waiting, calls>>

Init ==
    /\ waiting = <<>>
    /\ calls = <<>>

Begin(pods) ==
    /\ pods # {}
    /\ waiting' = Append(waiting, pods)
    /\ calls' = Append(calls, 0)

Finish(n, p) ==
    /\ p \in waiting[n]
    /\ waiting' = [waiting EXCEPT ![n] = @ \ {p}]
    /\ calls' = IF waiting[n] = {p} THEN [calls EXCEPT ![n] = @ + 1] ELSE calls

Next ==
    \/ \E pods \in SUBSET Pod : Begin(pods)
    \/ \E n \in DOMAIN waiting, p \in Pod : Finish(n, p)

Spec == Init /\ [][Next]_vars

-----------------------------------------------------------------------------

(* A probing has called back exactly when it waits for no pod. *)
CalledWhenDone ==
    \A n \in DOMAIN waiting : calls[n] = IF waiting[n] = {} THEN 1 ELSE 0

=============================================================================
