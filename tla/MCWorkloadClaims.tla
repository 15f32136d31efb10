---------------------------- MODULE MCWorkloadClaims ----------------------------
(* Instances of WorkloadClaims for TLC. *)
EXTENDS WorkloadClaims, TLC

CONSTANTS k1, k2, t1, t2

(* One key, or two that belong to different tenants *)
OneTenant == k1 :> t1
TwoTenants == (k1 :> t1) @@ (k2 :> t2)

(* Controllers are only compared for equality. *)
ControllerSymmetry == Permutations(Controllers)
=============================================================================
