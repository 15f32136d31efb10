---------------------------- MODULE ServiceSessions ----------------------------
(***************************************************************************)
(* The connections between services (agents, MQTT bridges) and the         *)
(* controllers: the ServiceConnectionRegistry of every controller          *)
(* (crates/ui/service-connections) and the life of the authenticated       *)
(* WebSocket sessions that register in it                                  *)
(* (routes/service_ws/handler/session_authenticated.rs).                   *)
(*                                                                         *)
(* A session ends in several steps with awaits between them: its loop      *)
(* exits, finalize_authenticated_session reads who owns the registration,  *)
(* the cleanup runs, and only then is the registration removed.  The       *)
(* service may have reconnected at any point in between.                   *)
(***************************************************************************)
EXTENDS Naturals

CONSTANTS
    Controllers,   \* controller processes
    Services,      \* service identities (service_id)
    MaxSessions,   \* bound: connections of one service to one controller
    None           \* no registration

ASSUME SessionsAssumption ==
    /\ MaxSessions \in Nat \ {0}
    /\ None \notin Services \X Controllers \X (1..MaxSessions)

(* A connection_id is fresh for every registration and only ever compared  *)
(* for equality: the i-th connection of a service to a controller.         *)
Ids == Services \X Controllers \X (1..MaxSessions)
Svc(n) == n[1]
Ctrl(n) == n[2]

VARIABLES
    connections,   \* connections[c][s]: the current connection_id, or None
    phase,         \* phase[n]: how far session n has come
    cancelled      \* connection ids whose cancel_token has been triggered

sessionVars == <<connections, phase, cancelled>>

Phases == {"unused", "live", "cleanup", "gone"}

SessionsTypeOK ==
    /\ connections \in [Controllers -> [Services -> Ids \cup {None}]]
    /\ phase \in [Ids -> Phases]
    /\ cancelled \in SUBSET Ids

SessionsInit ==
    /\ connections = [c \in Controllers |-> [s \in Services |-> None]]
    /\ phase = [n \in Ids |-> "unused"]
    /\ cancelled = {}

Current(n) == connections[Ctrl(n)][Svc(n)]

SetCurrent(n, id) ==
    connections' = [connections EXCEPT ![Ctrl(n)] =
                        [connections[Ctrl(n)] EXCEPT ![Svc(n)] = id]]

(* register: remove the old entry, cancel its token and insert the new one *)
(* under a single write guard.                                             *)
Register(n) ==
    /\ phase[n] = "unused"
    /\ \A i \in 1..(n[3] - 1) : phase[<<n[1], n[2], i>>] # "unused"
    /\ cancelled' = cancelled \cup ({Current(n)} \ {None})
    /\ SetCurrent(n, n)
    /\ phase' = [phase EXCEPT ![n] = "live"]

(* force_disconnect: the service was deactivated or its certificate        *)
(* revoked.  The session itself notices its token later.                   *)
ForceDisconnect(c, s) ==
    /\ connections[c][s] # None
    /\ cancelled' = cancelled \cup {connections[c][s]}
    /\ connections' = [connections EXCEPT ![c] =
                            [connections[c] EXCEPT ![s] = None]]
    /\ UNCHANGED phase

\* Mutant: any current registration counts as a replacement.
RegisteredAtAll(n) == Current(n) # None

(* authenticated_session_ownership, Replaced: another registration of the  *)
(* same service is current.                                                *)
Replaced(n) == Current(n) \notin {n, None}

(* The loop of session n has exited (socket closed, Disconnecting, token   *)
(* cancelled) and finalize_authenticated_session decides: a replaced       *)
(* session only stops its processor, any other one is cleaned up.          *)
Finalize(n) ==
    /\ phase[n] = "live"
    /\ phase' = [phase EXCEPT ![n] = IF Replaced(n) THEN "gone" ELSE "cleanup"]
    /\ UNCHANGED <<connections, cancelled>>

\* Mutant: unregister instead of unregister_current.
UnregisterAnyway(n) ==
    /\ phase[n] = "cleanup"
    /\ SetCurrent(n, None)
    /\ phase' = [phase EXCEPT ![n] = "gone"]
    /\ UNCHANGED cancelled

(* The end of cleanup_authenticated_session: unregister_current removes    *)
(* the registration only if it is still this session's own.                *)
Unregister(n) ==
    /\ phase[n] = "cleanup"
    /\ SetCurrent(n, IF Current(n) = n THEN None ELSE Current(n))
    /\ phase' = [phase EXCEPT ![n] = "gone"]
    /\ UNCHANGED cancelled

(* The controller process ends and starts again: registry and sessions     *)
(* were in memory.                                                         *)
Restart(c) ==
    /\ connections' = [connections EXCEPT ![c] = [s \in Services |-> None]]
    /\ phase' = [n \in Ids |->
                    IF Ctrl(n) = c /\ phase[n] \in {"live", "cleanup"}
                    THEN "gone" ELSE phase[n]]
    /\ UNCHANGED cancelled

-----------------------------------------------------------------------------
(* A session that is still running and was not told to stop is the one the *)
(* registry sends to: the cleanup of an older session of the same service, *)
(* however late it runs, never evicts the live replacement.                *)
LiveIsRegistered ==
    \A n \in Ids : phase[n] = "live" /\ n \notin cancelled => Current(n) = n

(* A registration belongs to a session that still exists and will remove   *)
(* it: the registry never keeps a connection nobody will clean up.         *)
RegisteredIsAlive ==
    \A c \in Controllers, s \in Services :
        connections[c][s] # None =>
            /\ Svc(connections[c][s]) = s /\ Ctrl(connections[c][s]) = c
            /\ phase[connections[c][s]] \in {"live", "cleanup"}
=============================================================================
