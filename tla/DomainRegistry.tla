---------------------------- MODULE DomainRegistry ----------------------------
(***************************************************************************)
(* What pkg/generator/caches.go promises its callers about host names: a   *)
(* registry in which every domain has at most one owner.  An ingress       *)
(* claims all the domains of its rules at once; a claim that meets a       *)
(* domain of another ingress is refused, and the refused ingress is left   *)
(* with nothing, not with what it held before (UpdateIngress deletes the   *)
(* old translation before it validates the new one).                       *)
(***************************************************************************)
CONSTANTS Ingress,  \* the ingress keys (namespace/name)
          Domain    \* the host names rules can ask for

VARIABLE owned      \* owned[i]: the domains ingress i is served on

-----------------------------------------------------------------------------

TypeOK == owned \in [Ingress -> SUBSET Domain]

Init == owned = [i \in Ingress |-> {}]

(* The domains held by any ingress but i. *)
OwnedByOthers(i) == UNION {owned[j] : j \in Ingress \ {i}}

(* UpdateIngress that succeeds: i owns exactly the domains it asked for. *)
Claim(i, D) ==
    /\ D \cap OwnedByOthers(i) = {}
    /\ owned' = [owned EXCEPT ![i] = D]

(* UpdateIngress that ends in ErrDomainConflict. *)
Refuse(i, D) ==
    /\ D \cap OwnedByOthers(i) # {}
    /\ owned' = [owned EXCEPT ![i] = {}]

(* DeleteIngressInfo. *)
Release(i) == owned' = [owned EXCEPT ![i] = {}]

Next ==
    \E i \in Ingress :
        \/ \E D \in SUBSET Domain : Claim(i, D) \/ Refuse(i, D)
        \/ Release(i)

Spec == Init /\ [][Next]_owned

-----------------------------------------------------------------------------

(* No domain is served for two ingresses. *)
Exclusive ==
    \A i, j \in Ingress : i # j => owned[i] \cap owned[j] = {}

=============================================================================
