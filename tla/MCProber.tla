------------------------------- MODULE MCProber -------------------------------
(***************************************************************************)
(* An instance of Prober: a gateway pod that is replaced by a new one.      *)
(***************************************************************************)
EXTENDS Prober, TLC

CONSTANTS p1, p2

(* The first version has one host, the second one two. *)
URLs == [hash \in Hash |-> IF hash = 1 THEN 1 ELSE 2]

=============================================================================
