----------------------------- MODULE MCSurfaceProxy -----------------------------
(* Instances of SurfaceProxy for TLC. *)
EXTENDS SurfaceProxy, TLC

CONSTANTS i1, i2, k1, k2

SameParameters == [i \in Calls |-> 0]

(* A user's call and its retry under the same key. *)
RetryKeys == [i \in Calls |-> k1]
UserCalls == [i \in Calls |-> User]

(* Two calls that service 1 makes, with a key each. *)
TwoKeys == [i \in Calls |-> IF i = i1 THEN k1 ELSE k2]
ServiceCalls == [i \in Calls |-> 1]

ProxySymmetry == Permutations(Providers) \cup Permutations({i1, i2})
=============================================================================
