------------------------- MODULE ServiceSessionsProofs -------------------------
(***************************************************************************)
(* What the operations of the connection registry preserve, for the proofs *)
(* of the modules that put claims and surfaces on top of it.               *)
(***************************************************************************)
EXTENDS ServiceSessions, TLAPS

(* The registry and its sessions agree.  The two properties need each      *)
(* other: a cleanup leaves a live session alone because the registration   *)
(* it finds belongs to somebody who is alive.                              *)
SessionsInv == SessionsTypeOK /\ LiveIsRegistered /\ RegisteredIsAlive

(* A session step or none, as the modules on top see it. *)
SessionsStep ==
    \/ \E n \in Ids : Register(n) \/ Finalize(n) \/ Unregister(n)
    \/ \E c \in Controllers : Restart(c) \/ \E s \in Services : ForceDisconnect(c, s)
    \/ UNCHANGED sessionVars

(* A connection id is a triple. *)
LEMMA IdParts ==
    ASSUME NEW n \in Ids
    PROVE  Svc(n) \in Services /\ Ctrl(n) \in Controllers /\ n # None
  BY SessionsAssumption DEF Ids, Svc, Ctrl

LEMMA SessionsInitially == SessionsInit => SessionsInv
  BY IdParts DEF SessionsInit, SessionsInv, SessionsTypeOK, Phases, LiveIsRegistered,
     RegisteredIsAlive

LEMMA RegisterPreserves ==
    ASSUME SessionsInv, NEW n \in Ids, Register(n)
    PROVE  SessionsInv'
  <1>1. /\ cancelled' = cancelled \cup ({Current(n)} \ {None})
        /\ phase' = [phase EXCEPT ![n] = "live"]
        /\ connections' = [connections EXCEPT ![Ctrl(n)] =
                              [connections[Ctrl(n)] EXCEPT ![Svc(n)] = n]]
    BY DEF Register, SetCurrent
  <1>2. /\ Svc(n) \in Services /\ Ctrl(n) \in Controllers /\ n # None
        /\ Current(n) \in Ids \cup {None}
    BY IdParts DEF SessionsInv, SessionsTypeOK, Current
  <1>3. SessionsTypeOK'
    BY <1>1, <1>2 DEF SessionsInv, SessionsTypeOK, Phases
  <1>4. LiveIsRegistered'
    <2> SUFFICES ASSUME NEW m \in Ids, phase'[m] = "live", m \notin cancelled'
                 PROVE  connections'[Ctrl(m)][Svc(m)] = m
      BY DEF LiveIsRegistered, Current
    <2>1. Svc(m) \in Services /\ Ctrl(m) \in Controllers /\ m # None
      BY IdParts
    <2>2. CASE m = n
      BY <1>1, <1>2, <2>2 DEF SessionsInv, SessionsTypeOK
    <2>3. CASE m # n
      <3>1. connections[Ctrl(m)][Svc(m)] = m
        BY <1>1, <2>3 DEF SessionsInv, SessionsTypeOK, LiveIsRegistered, Current
      <3>2. ~(Svc(m) = Svc(n) /\ Ctrl(m) = Ctrl(n))
        BY <1>1, <2>1, <3>1 DEF Current
      <3>. QED BY <1>1, <1>2, <2>1, <3>1, <3>2 DEF SessionsInv, SessionsTypeOK
    <2>. QED BY <2>2, <2>3
  <1>5. RegisteredIsAlive'
    BY <1>1, <1>2 DEF SessionsInv, SessionsTypeOK, RegisteredIsAlive
  <1>. QED BY <1>3, <1>4, <1>5 DEF SessionsInv

LEMMA ForceDisconnectPreserves ==
    ASSUME SessionsInv, NEW c \in Controllers, NEW s \in Services, ForceDisconnect(c, s)
    PROVE  SessionsInv'
  <1>1. /\ cancelled' = cancelled \cup {connections[c][s]}
        /\ connections' = [connections EXCEPT ![c] = [connections[c] EXCEPT ![s] = None]]
        /\ phase' = phase
        /\ connections[c][s] \in Ids
    BY DEF ForceDisconnect, SessionsInv, SessionsTypeOK
  <1>2. SessionsTypeOK'
    BY <1>1 DEF SessionsInv, SessionsTypeOK
  <1>3. LiveIsRegistered'
    BY <1>1, IdParts DEF SessionsInv, SessionsTypeOK, LiveIsRegistered, Current
  <1>4. RegisteredIsAlive'
    BY <1>1 DEF SessionsInv, SessionsTypeOK, RegisteredIsAlive
  <1>. QED BY <1>2, <1>3, <1>4 DEF SessionsInv

LEMMA FinalizePreserves ==
    ASSUME SessionsInv, NEW n \in Ids, Finalize(n)
    PROVE  SessionsInv'
  <1>1. /\ phase[n] = "live"
        /\ phase' = [phase EXCEPT ![n] = IF Replaced(n) THEN "gone" ELSE "cleanup"]
        /\ connections' = connections /\ cancelled' = cancelled
    BY DEF Finalize
  <1>2. SessionsTypeOK'
    BY <1>1 DEF SessionsInv, SessionsTypeOK, Phases
  <1>3. LiveIsRegistered'
    BY <1>1 DEF SessionsInv, SessionsTypeOK, LiveIsRegistered, Current
  <1>4. RegisteredIsAlive'
    <2> SUFFICES ASSUME NEW c \in Controllers, NEW s \in Services, connections[c][s] # None
                 PROVE  /\ Svc(connections[c][s]) = s /\ Ctrl(connections[c][s]) = c
                        /\ phase'[connections[c][s]] \in {"live", "cleanup"}
      BY <1>1 DEF RegisteredIsAlive
    <2>1. /\ connections[c][s] \in Ids
          /\ Svc(connections[c][s]) = s /\ Ctrl(connections[c][s]) = c
          /\ phase[connections[c][s]] \in {"live", "cleanup"}
      BY DEF SessionsInv, SessionsTypeOK, RegisteredIsAlive
    <2>2. CASE connections[c][s] = n
      BY <1>1, <2>1, <2>2 DEF SessionsInv, SessionsTypeOK, Replaced, Current
    <2>. QED BY <1>1, <2>1, <2>2 DEF SessionsInv, SessionsTypeOK
  <1>. QED BY <1>2, <1>3, <1>4 DEF SessionsInv

LEMMA UnregisterPreserves ==
    ASSUME SessionsInv, NEW n \in Ids, Unregister(n)
    PROVE  SessionsInv'
  <1>1. /\ phase[n] = "cleanup"
        /\ phase' = [phase EXCEPT ![n] = "gone"]
        /\ connections' = [connections EXCEPT ![Ctrl(n)] =
              [connections[Ctrl(n)] EXCEPT ![Svc(n)] =
                  IF Current(n) = n THEN None ELSE Current(n)]]
        /\ cancelled' = cancelled
    BY DEF Unregister, SetCurrent
  <1>2. /\ Svc(n) \in Services /\ Ctrl(n) \in Controllers /\ n # None
        /\ Current(n) \in Ids \cup {None}
    BY IdParts DEF SessionsInv, SessionsTypeOK, Current
  <1>3. SessionsTypeOK'
    BY <1>1, <1>2 DEF SessionsInv, SessionsTypeOK, Phases
  <1>4. LiveIsRegistered'
    <2> SUFFICES ASSUME NEW m \in Ids, phase'[m] = "live", m \notin cancelled
                 PROVE  connections'[Ctrl(m)][Svc(m)] = m
      BY <1>1 DEF LiveIsRegistered, Current
    <2>1. /\ Svc(m) \in Services /\ Ctrl(m) \in Controllers /\ m # n
          /\ connections[Ctrl(m)][Svc(m)] = m
      BY <1>1, IdParts DEF SessionsInv, SessionsTypeOK, LiveIsRegistered, Current
    <2>. QED BY <1>1, <1>2, <2>1 DEF SessionsInv, SessionsTypeOK, Current
  <1>5. RegisteredIsAlive'
    <2> SUFFICES ASSUME NEW c \in Controllers, NEW s \in Services,
                        connections'[c][s] # None
                 PROVE  /\ Svc(connections'[c][s]) = s /\ Ctrl(connections'[c][s]) = c
                        /\ phase'[connections'[c][s]] \in {"live", "cleanup"}
      BY DEF RegisteredIsAlive
    <2>1. connections'[c][s] = connections[c][s]
      BY <1>1, <1>2 DEF SessionsInv, SessionsTypeOK, Current
    <2>2. /\ Svc(connections[c][s]) = s /\ Ctrl(connections[c][s]) = c
          /\ phase[connections[c][s]] \in {"live", "cleanup"}
          /\ connections[c][s] \in Ids
      BY <2>1 DEF SessionsInv, SessionsTypeOK, RegisteredIsAlive
    <2>3. connections[c][s] # n
      BY <1>1, <1>2, <2>1, <2>2 DEF SessionsInv, SessionsTypeOK, Current
    <2>. QED BY <1>1, <2>1, <2>2, <2>3 DEF SessionsInv, SessionsTypeOK
  <1>. QED BY <1>3, <1>4, <1>5 DEF SessionsInv

LEMMA RestartPreserves ==
    ASSUME SessionsInv, NEW c \in Controllers, Restart(c)
    PROVE  SessionsInv'
  <1>1. /\ connections' = [connections EXCEPT ![c] = [s \in Services |-> None]]
        /\ phase' = [n \in Ids |-> IF Ctrl(n) = c /\ phase[n] \in {"live", "cleanup"}
                                   THEN "gone" ELSE phase[n]]
        /\ cancelled' = cancelled
    BY DEF Restart
  <1>2. SessionsTypeOK'
    BY <1>1 DEF SessionsInv, SessionsTypeOK, Phases
  <1>3. LiveIsRegistered'
    BY <1>1, IdParts DEF SessionsInv, SessionsTypeOK, LiveIsRegistered, Current
  <1>4. RegisteredIsAlive'
    <2> SUFFICES ASSUME NEW d \in Controllers, NEW s \in Services,
                        connections'[d][s] # None
                 PROVE  /\ Svc(connections'[d][s]) = s /\ Ctrl(connections'[d][s]) = d
                        /\ phase'[connections'[d][s]] \in {"live", "cleanup"}
      BY DEF RegisteredIsAlive
    <2>1. d # c /\ connections'[d][s] = connections[d][s]
      BY <1>1 DEF SessionsInv, SessionsTypeOK
    <2>. QED BY <1>1, <2>1 DEF SessionsInv, SessionsTypeOK, RegisteredIsAlive
  <1>. QED BY <1>2, <1>3, <1>4 DEF SessionsInv

(* Whatever a module does with the registry, if its steps are steps of the *)
(* sessions the two agree afterwards.                                      *)
THEOREM SessionsPreserved ==
    ASSUME SessionsInv, SessionsStep
    PROVE  SessionsInv'
  <1>1. CASE UNCHANGED sessionVars
    BY <1>1 DEF sessionVars, SessionsInv, SessionsTypeOK, LiveIsRegistered, RegisteredIsAlive,
       Current
  <1>. QED
    BY <1>1, RegisterPreserves, FinalizePreserves, UnregisterPreserves, RestartPreserves,
       ForceDisconnectPreserves DEF SessionsStep
=============================================================================
