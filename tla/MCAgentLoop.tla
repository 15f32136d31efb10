------------------------------ MODULE MCAgentLoop ------------------------------
(* Instances of AgentLoop for TLC. *)
EXTENDS AgentLoop

CONSTANTS a, b

(* A version check and one it covers.  (Discoveries have a key of their    *)
(* own, and under it behave like version checks of one and the same set.)  *)
TwoScopes ==
    {[kind |-> "check", items |-> {a, b}], [kind |-> "check", items |-> {a}]}
=============================================================================
