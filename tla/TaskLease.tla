------------------------------- MODULE TaskLease -------------------------------
(***************************************************************************)
(* What the scheduler's claims promise, without clocks, heartbeats or a    *)
(* database: a lease on every task.  A participant that keeps its leases   *)
(* up never loses the lease of a task it works on; every other lease may   *)
(* expire at any moment, and so may the lease of a task that its holder    *)
(* does not work on.                                                       *)
(***************************************************************************)
EXTENDS TLAPS

CONSTANTS
    Participants,
    Tasks,
    Nobody         \* the holder of a free task

VARIABLES
    holder,        \* holder[t]: whose lease task t is
    working,       \* working[p]: the tasks p works on
    keeping        \* the participants that keep their leases up

vars == <<holder, working, keeping>>

Init ==
    /\ holder = [t \in Tasks |-> Nobody]
    /\ working = [p \in Participants |-> {}]
    /\ keeping = Participants

Acquire(p, t) ==
    /\ p \in keeping /\ holder[t] = Nobody /\ t \notin working[p]
    /\ holder' = [holder EXCEPT ![t] = p]
    /\ working' = [working EXCEPT ![p] = @ \cup {t}]
    /\ UNCHANGED keeping

(* The work is over; the lease is given back, if it can be and still is    *)
(* there.                                                                  *)
Finish(p, t) ==
    /\ t \in working[p]
    /\ working' = [working EXCEPT ![p] = @ \ {t}]
    /\ \/ holder[t] = p /\ holder' = [holder EXCEPT ![t] = Nobody]
       \/ UNCHANGED holder
    /\ UNCHANGED keeping

Kept(t) == \E p \in keeping : holder[t] = p /\ t \in working[p]

Expire(S) ==
    /\ \A t \in S : ~Kept(t)
    /\ holder' = [t \in Tasks |-> IF t \in S THEN Nobody ELSE holder[t]]
    /\ UNCHANGED <<working, keeping>>

(* p no longer keeps its leases up; it ends its work at once, or later. *)
Leave(p) ==
    /\ keeping' = keeping \ {p}
    /\ working' \in {working, [working EXCEPT ![p] = {}]}
    /\ UNCHANGED holder

Join(p) ==
    /\ working[p] = {}
    /\ keeping' = keeping \cup {p}
    /\ UNCHANGED <<holder, working>>

Next ==
    \/ \E p \in Participants, t \in Tasks : Acquire(p, t) \/ Finish(p, t)
    \/ \E S \in SUBSET Tasks : Expire(S)
    \/ \E p \in Participants : Leave(p) \/ Join(p)

Spec == Init /\ [][Next]_vars

-----------------------------------------------------------------------------
(* Two participants that keep their leases up never work on one task. *)
Exclusive ==
    \A p, q \in keeping : p # q => working[p] \cap working[q] = {}

(* Why: such a participant holds the lease of all it works on. *)
Inv ==
    /\ holder \in [Tasks -> Participants \cup {Nobody}]
    /\ working \in [Participants -> SUBSET Tasks]
    /\ keeping \subseteq Participants
    /\ \A p \in keeping : \A t \in working[p] : holder[t] = p

(* The lease excludes: proved for any sets of participants and tasks. *)
THEOREM LeaseExcludes ==
    ASSUME Nobody \notin Participants
    PROVE  Spec => []Exclusive
<1>1. Init => Inv
  BY DEF Init, Inv
<1>2. Inv /\ [Next]_vars => Inv'
  <2> SUFFICES ASSUME Inv, [Next]_vars PROVE Inv'
    OBVIOUS
  <2> USE DEF Inv
  <2>1. ASSUME NEW p \in Participants, NEW t \in Tasks, Acquire(p, t)
        PROVE  Inv'
    BY <2>1 DEF Acquire
  <2>2. ASSUME NEW p \in Participants, NEW t \in Tasks, Finish(p, t)
        PROVE  Inv'
    BY <2>2 DEF Finish
  <2>3. ASSUME NEW S \in SUBSET Tasks, Expire(S) PROVE Inv'
    BY <2>3 DEF Expire, Kept
  <2>4. ASSUME NEW p \in Participants, Leave(p) PROVE Inv'
    BY <2>4 DEF Leave
  <2>5. ASSUME NEW p \in Participants, Join(p) PROVE Inv'
    BY <2>5 DEF Join
  <2>6. CASE UNCHANGED vars
    BY <2>6 DEF vars
  <2>7. QED
    BY <2>1, <2>2, <2>3, <2>4, <2>5, <2>6 DEF Next
<1>3. Inv => Exclusive
  BY DEF Inv, Exclusive
<1>4. QED
  BY <1>1, <1>2, <1>3, PTL DEF Spec
=============================================================================
