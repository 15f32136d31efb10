-------------------------- MODULE MCUpdateLifecycle --------------------------
(* Instances of UpdateLifecycle for TLC. *)
EXTENDS UpdateLifecycle

\* Every row is about another software item.
OwnItem == [u \in Updates |-> u]

\* The third row is about the same item as the first.
SharedItem == [u \in Updates |-> IF u = 3 THEN 1 ELSE u]

\* Single updates.
NoBatch == [u \in Updates |-> None]

\* A batch of all rows but the first, which is a single update.
BatchAfterFirst == [u \in Updates |-> IF u = 1 THEN None ELSE CHOOSE b \in Batches : TRUE]
=============================================================================
