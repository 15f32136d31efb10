------------------------------- MODULE Enrollment -------------------------------
(***************************************************************************)
(* How a service (agent, MQTT bridge) comes to hold a client certificate.  *)
(* The service side is the enrollment of the service SDK                   *)
(* (crates/shared/service-sdk: ws.rs, lifecycle.rs, identity.rs): enroll   *)
(* anonymously, store id and secret, wait for the approval, request a      *)
(* certificate, store it, log in with it.  It may end and be started again *)
(* between any two writes, and comes back with the secret it stored.  The  *)
(* controller side is routes/service_ws (connection.rs, session_enrolled.rs*)
(* and cert.rs), routes/agents.rs and the decisions of the operator        *)
(* (approve, reject, deactivate, merge) in routes/services and             *)
(* web-api-queries/queries/services.rs; its handlers read the service row  *)
(* several times with awaits in between.                                   *)
(***************************************************************************)
EXTENDS Naturals, Sequences, FiniteSets

CONSTANTS
    Clients,     \* service processes, each with a state directory of its own
    Tokens,      \* the clients that may be started with an enrollment token
    Existing,    \* services enrolled before, of machines that lost their state
    Cluster,     \* whether an operator's request may reach another controller
    MaxRows,     \* bound: rows of the services table
    MaxLinks,    \* bound: handlers of one client, lost connections included
    MaxDecisions,\* bound: requests of operators
    MaxFaults,   \* bound: process ends, lost connections, failed queries, expiries
    None         \* no connection

ASSUME EnrollmentAssumption ==
    /\ Tokens \subseteq Clients
    /\ Existing \subseteq 1..MaxRows
    /\ Cluster \in BOOLEAN
    /\ {MaxRows, MaxLinks, MaxDecisions, MaxFaults} \subseteq Nat
    /\ None \notin Clients \X (1..MaxLinks)

Rows == 1..MaxRows       \* service ids, in the order of their creation
Slots == Clients \X (1..MaxLinks)  \* connections: the client's, and lost ones
Owner(k) == k[1]
NoCert == <<0, 0>>       \* a certificate is <<service id, serial>>

VARIABLES
    rows,        \* rows[r]: status, deactivated_at and whose secret's hash it has
    redirect,    \* redirect[r]: service_merge_redirect of r, or 0
    issued,      \* issued[r]: number of certificate rows of r
    revoked,     \* revoked[r]: its certificates up to this serial are revoked
    expired,     \* certificates past their not_after
    todo,        \* what follows the commit of an operator's decision
    checked,     \* merges whose target was seen not to be connected
    decisions,   \* number of requests of operators so far
    current,     \* current[r]: the connection registered for r, or None
    cancelled,   \* connections whose cancel_token has been triggered
    sess,        \* sess[k]: the controller's handler of connection k
    push,        \* push[k]: its push_rx
    request,     \* request[k]: the CN of an unread RequestCertificate, or 0
    down,        \* down[k]: messages on their way to the client
    disk,        \* disk[c]: service.json (id, secret) and service.crt
    pc,          \* pc[c]: where the process of c is
    link,        \* link[c]: its connection, or None
    faults       \* number of faults so far

tables == <<rows, redirect, issued, revoked, expired>>
admin == <<todo, checked, decisions>>
registry == <<current, cancelled>>
client == <<disk, pc, link>>
vars == <<tables, admin, registry, sess, push, request, down, client, faults>>

(* A handler's local state.  blind: its read of the status after the       *)
(* registration failed (only the properties look at it).                   *)
Idle == [stage |-> "unused", row |-> 0, approved |-> FALSE, blind |-> FALSE, serial |-> 0]

Stages == {"unused", "anonymous", "opened", "decided", "registered", "loop",
           "signing", "recorded", "admitted", "online"}

Places == {"down", "start", "enroll", "approval", "request", "saving", "login",
           "online", "clearing"}

Message == [type : {"enrolled", "approved", "rejected", "certificate", "error", "close"},
            row : 0..MaxRows, n : Nat]

TypeOK ==
    /\ rows \in [Rows -> [status : {"none", "pending", "approved", "rejected"},
                          active : BOOLEAN, secret : 0..MaxRows]]
    /\ redirect \in [Rows -> 0..MaxRows]
    /\ issued \in [Rows -> Nat]
    /\ revoked \in [Rows -> Nat]
    /\ expired \in SUBSET (Rows \X Nat)
    /\ todo \in SUBSET ({"approved", "rejected", "disconnect"} \X Rows)
    /\ checked \in SUBSET (Rows \X Rows)
    /\ decisions \in 0..MaxDecisions
    /\ current \in [0..MaxRows -> Slots \cup {None}]
    /\ cancelled \in SUBSET Slots
    /\ sess \in [Slots -> [stage : Stages, row : 0..MaxRows,
                           approved : BOOLEAN, blind : BOOLEAN, serial : Nat]]
    /\ push \in [Slots -> Seq({"approved", "rejected"})]
    /\ request \in [Slots -> 0..MaxRows]
    /\ down \in [Slots -> Seq(Message)]
    /\ disk \in [Clients -> [id : 0..MaxRows, secret : 0..MaxRows,
                             cert : (Rows \X Nat) \cup {NoCert}]]
    /\ pc \in [Clients -> Places]
    /\ link \in [Clients -> Slots \cup {None}]
    /\ faults \in 0..MaxFaults

Init ==
    /\ rows = [r \in Rows |-> [status |-> IF r \in Existing THEN "approved" ELSE "none",
                               active |-> r \in Existing, secret |-> 0]]
    /\ redirect = [r \in Rows |-> 0]
    /\ issued = [r \in Rows |-> IF r \in Existing THEN 1 ELSE 0]
    /\ revoked = [r \in Rows |-> 0]
    /\ expired = {}
    /\ todo = {}
    /\ checked = {}
    /\ decisions = 0
    /\ current = [r \in 0..MaxRows |-> None]
    /\ cancelled = {}
    /\ sess = [k \in Slots |-> Idle]
    /\ push = [k \in Slots |-> <<>>]
    /\ request = [k \in Slots |-> 0]
    /\ down = [k \in Slots |-> <<>>]
    /\ disk = [c \in Clients |-> [id |-> 0, secret |-> 0, cert |-> NoCert]]
    /\ pc = [c \in Clients |-> "down"]
    /\ link = [c \in Clients |-> None]
    /\ faults = 0

-----------------------------------------------------------------------------
(* Connections.                                                            *)

Linked(k) == link[Owner(k)] = k

Msg(type, r, n) == [type |-> type, row |-> r, n |-> n]
Close == Msg("close", 0, 0)

(* sink.send: what is sent on a lost connection is lost.                   *)
Send(k, msgs) ==
    down' = IF Linked(k) THEN [down EXCEPT ![k] = @ \o msgs] ELSE down

(* The client opens a connection: the slot's previous handler has ended.   *)
Open(c, k, handler) ==
    /\ Owner(k) = c
    /\ sess[k].stage = "unused"
    /\ \A i \in 1..(k[2] - 1) : sess[<<c, i>>].stage # "unused"
    /\ link[c] = None
    /\ link' = [link EXCEPT ![c] = k]
    /\ sess' = [sess EXCEPT ![k] = handler]
    /\ UNCHANGED <<push, request, down>>

(* The client lets go of its connection, if it has one.  A handler that    *)
(* still runs may yet read the request.                                    *)
Unlink(c) ==
    /\ link' = [link EXCEPT ![c] = None]
    /\ down' = [k \in Slots |-> IF k = link[c] THEN <<>> ELSE down[k]]
    /\ request' = [k \in Slots |-> IF k = link[c] /\ sess[k].stage = "unused"
                                   THEN 0 ELSE request[k]]

\* Mutant: cancels without looking whether there was an older connection.
RegisterBlindly(k) ==
    LET r == sess[k].row IN
    /\ cancelled' = (cancelled \cup {current[r]}) \ {k}
    /\ current' = [current EXCEPT ![r] = k]

(* service_connections.register: replaces and cancels an older connection. *)
Register(k) ==
    LET r == sess[k].row IN
    /\ cancelled' = (cancelled \cup {current[r]}) \ {k, None}
    /\ current' = [current EXCEPT ![r] = k]

(* The handler returns.  cleanup_enrolled_session: unregister_current      *)
(* removes the registration only if it is still this connection's.         *)
Leave(k) ==
    LET r == sess[k].row IN
    /\ current' = IF current[r] = k THEN [current EXCEPT ![r] = None] ELSE current
    /\ cancelled' = cancelled \ {k}
    /\ sess' = [sess EXCEPT ![k] = Idle]
    /\ push' = [push EXCEPT ![k] = <<>>]
    /\ request' = [request EXCEPT ![k] = 0]

-----------------------------------------------------------------------------
(* The service process.                                                    *)

IsCertified(c) == disk[c].id # 0 /\ disk[c].cert # NoCert
IsEnrolledOnly(c) == disk[c].id # 0 /\ disk[c].cert = NoCert

(* run_service_lifecycle: load the state directory and choose between the  *)
(* login and the enrollment.  The process is started by its supervisor.    *)
Start(c) ==
    /\ pc[c] = "down"
    /\ pc' = [pc EXCEPT ![c] = IF IsCertified(c) THEN "login" ELSE "start"]
    /\ UNCHANGED <<tables, admin, registry, sess, push, request, down, disk, link, faults>>

(* do_enrollment, run_enrollment: connect anonymously and send Enroll.     *)
Enroll(c, k) ==
    /\ pc[c] = "start"
    /\ ~IsEnrolledOnly(c)
    /\ \E r \in Rows : rows[r].status = "none"
    /\ Open(c, k, [Idle EXCEPT !.stage = "anonymous"])
    /\ pc' = [pc EXCEPT ![c] = "enroll"]
    /\ UNCHANGED <<tables, admin, registry, disk, faults>>

(* lookup_by_secret: the active row with this secret and id, or the active *)
(* row with this secret that the id was merged into.                       *)
Lookup(secret, hint) ==
    LET Holds(r) == r # 0 /\ rows[r].active /\ rows[r].secret = secret IN
    IF Holds(hint) THEN hint
    ELSE IF Holds(redirect[hint]) THEN redirect[hint]
    ELSE 0

(* resume_enrollment: connect with the stored secret.  When the controller *)
(* answers 401 the client waits and tries again.                           *)
Resume(c, k) ==
    LET r == Lookup(disk[c].secret, disk[c].id) IN
    /\ pc[c] = "start"
    /\ IsEnrolledOnly(c)
    /\ disk[c].secret # 0
    /\ r # 0
    /\ Open(c, k, [Idle EXCEPT !.stage = "opened", !.row = r])
    /\ pc' = [pc EXCEPT ![c] = "approval"]
    /\ UNCHANGED <<tables, admin, registry, disk, faults>>

(* The next message on the connection of c is of this type.                *)
Incoming(c, type) ==
    /\ link[c] # None
    /\ down[link[c]] # <<>>
    /\ Head(down[link[c]]).type = type

Received(c) == Head(down[link[c]])
Consume(c) == down' = [down EXCEPT ![link[c]] = Tail(@)]

(* send_enroll returns: save_enrollment, then wait for the approval unless *)
(* the token already brought it.                                           *)
ReceiveEnrolled(c) ==
    LET m == Received(c) IN
    /\ pc[c] = "enroll"
    /\ Incoming(c, "enrolled")
    /\ disk' = [disk EXCEPT ![c].id = m.row, ![c].secret = m.row]
    /\ pc' = [pc EXCEPT ![c] = IF m.n = 1 THEN "request" ELSE "approval"]
    /\ request' = IF m.n = 1 THEN [request EXCEPT ![link[c]] = m.row] ELSE request
    /\ Consume(c)
    /\ UNCHANGED <<tables, admin, registry, sess, push, link, faults>>

\* Mutant: the stored identity is not rebound to the approved id.
ReceiveApprovedUnbound(c) ==
    /\ pc[c] = "approval"
    /\ Incoming(c, "approved")
    /\ pc' = [pc EXCEPT ![c] = "request"]
    /\ request' = [request EXCEPT ![link[c]] = disk[c].id]
    /\ Consume(c)
    /\ UNCHANGED <<tables, admin, registry, sess, push, disk, link, faults>>

(* wait_for_approval returns: the identity is rebound if the controller    *)
(* approved another id (a merge), and a CSR for it is sent.                *)
ReceiveApproved(c) ==
    LET m == Received(c) IN
    /\ pc[c] = "approval"
    /\ Incoming(c, "approved")
    /\ disk' = [disk EXCEPT ![c].id = m.row]
    /\ pc' = [pc EXCEPT ![c] = "request"]
    /\ request' = [request EXCEPT ![link[c]] = m.row]
    /\ Consume(c)
    /\ UNCHANGED <<tables, admin, registry, sess, push, link, faults>>

(* request_certificate_ws ignores an Approved.                             *)
IgnoreApproved(c) ==
    /\ pc[c] = "request"
    /\ Incoming(c, "approved")
    /\ Consume(c)
    /\ UNCHANGED <<tables, admin, registry, sess, push, request, client, faults>>

\* Mutant: save_certificate drops the secret before it writes the certificate.
ReceiveCertificateSecretFirst(c) ==
    /\ pc[c] = "request"
    /\ Incoming(c, "certificate")
    /\ disk' = [disk EXCEPT ![c].secret = 0]
    /\ pc' = [pc EXCEPT ![c] = "saving"]
    /\ Unlink(c)
    /\ UNCHANGED <<tables, admin, registry, sess, push, faults>>

(* save_certificate, first write: service.crt.                             *)
ReceiveCertificate(c) ==
    /\ pc[c] = "request"
    /\ Incoming(c, "certificate")
    /\ disk' = [disk EXCEPT ![c].cert = <<Received(c).row, Received(c).n>>]
    /\ pc' = [pc EXCEPT ![c] = "saving"]
    /\ Unlink(c)
    /\ UNCHANGED <<tables, admin, registry, sess, push, faults>>

(* save_certificate, second write: service.json without the secret.        *)
FinishSaving(c) ==
    /\ pc[c] = "saving"
    /\ disk' = [disk EXCEPT ![c].secret = 0]
    /\ pc' = [pc EXCEPT ![c] = "login"]
    /\ UNCHANGED <<tables, admin, registry, sess, push, request, down, link, faults>>

(* Rejected and Error are fatal: run_service_lifecycle returns them.       *)
ReceiveRefusal(c) ==
    /\ pc[c] \in {"approval", "request"}
    /\ Incoming(c, "rejected") \/ Incoming(c, "error")
    /\ pc' = [pc EXCEPT ![c] = "down"]
    /\ Unlink(c)
    /\ UNCHANGED <<tables, admin, registry, sess, push, disk, faults>>

(* A closed connection is retried after a delay, from the stored state.    *)
Reconnect(c) ==
    /\ pc' = [pc EXCEPT ![c] = IF @ = "online" THEN "login" ELSE "start"]
    /\ Unlink(c)
    /\ UNCHANGED <<tables, admin, registry, sess, push, disk>>

ReceiveClose(c) ==
    /\ Incoming(c, "close")
    /\ Reconnect(c)
    /\ UNCHANGED faults

(* Nothing more will come on connection k but what an operator decides.    *)
Quiet(k) ==
    /\ sess[k].stage = "loop"
    /\ k \notin cancelled
    /\ down[k] = <<>> /\ push[k] = <<>>
    /\ sess[k].approved \/ rows[sess[k].row].status = "pending"

(* APPROVAL_TIMEOUT: 30 minutes, far longer than any message or poll takes.*)
(* ApprovalTimeout is not a transient error: the process ends.             *)
ApprovalTimeout(c) ==
    /\ pc[c] = "approval"
    /\ link[c] # None
    /\ Quiet(link[c])
    /\ pc' = [pc EXCEPT ![c] = "down"]
    /\ Unlink(c)
    /\ UNCHANGED <<tables, admin, registry, sess, push, disk, faults>>

(* run_authenticated_with_reconnect, and handle_authenticated up to the    *)
(* registration: the certificate is not revoked, the service approved and  *)
(* not deactivated.  A refused client tries again.                         *)
Login(c, k) ==
    LET r == disk[c].cert[1] IN
    /\ pc[c] = "login"
    /\ disk[c].cert \notin expired
    /\ disk[c].cert[2] > revoked[r]
    /\ rows[r].status = "approved" /\ rows[r].active
    /\ Open(c, k, [Idle EXCEPT !.stage = "admitted", !.row = r])
    /\ pc' = [pc EXCEPT ![c] = "online"]
    /\ UNCHANGED <<tables, admin, registry, disk, faults>>

(* clear_enrollment_state of an expired identity: service.json goes first. *)
ClearState(c) ==
    /\ pc[c] = "login"
    /\ disk[c].cert \in expired
    /\ disk' = [disk EXCEPT ![c].id = 0, ![c].secret = 0]
    /\ pc' = [pc EXCEPT ![c] = "clearing"]
    /\ UNCHANGED <<tables, admin, registry, sess, push, request, down, link, faults>>

(* clear_enrollment_state: then service.crt.                               *)
ClearCertificate(c) ==
    /\ pc[c] = "clearing"
    /\ disk' = [disk EXCEPT ![c].cert = NoCert]
    /\ pc' = [pc EXCEPT ![c] = "start"]
    /\ UNCHANGED <<tables, admin, registry, sess, push, request, down, link, faults>>

-----------------------------------------------------------------------------
(* The controller's handlers.                                              *)

Status(k) == rows[sess[k].row].status
Approved(k) == <<Msg("approved", sess[k].row, 0)>>
Rejected(k) == <<Msg("rejected", sess[k].row, 0), Close>>

(* A handler goes on after a send; if the connection is lost the send may  *)
(* already fail, and the handler returns.                                  *)
SentOn(k, handler) ==
    \/ sess' = [sess EXCEPT ![k] = handler]
    \/ ~Linked(k) /\ sess' = [sess EXCEPT ![k] = Idle]

(* handle_anonymous, enroll_service, do_enroll: insert a row with a new    *)
(* secret (approved if a token was presented), send Enrolled and, if       *)
(* approved, Approved.  The token is an argument of the process.           *)
EnrollService(k) ==
    LET r == CHOOSE x \in Rows : /\ rows[x].status = "none"
                                 /\ \A y \in 1..(x - 1) : rows[y].status # "none"
    IN
    /\ sess[k].stage = "anonymous"
    /\ \E x \in Rows : rows[x].status = "none"
    /\ \E auto \in {FALSE, Owner(k) \in Tokens} :
        /\ rows' = [rows EXCEPT ![r] = [status |-> IF auto THEN "approved" ELSE "pending",
                                        active |-> TRUE, secret |-> r]]
        /\ Send(k, IF auto THEN <<Msg("enrolled", r, 1), Msg("approved", r, 0)>>
                   ELSE <<Msg("enrolled", r, 0)>>)
    /\ SentOn(k, [sess[k] EXCEPT !.stage = "decided", !.row = r])
    /\ UNCHANGED <<redirect, issued, revoked, expired, admin, registry, push, request,
                   client, faults>>

\* Mutant: an already approved service is not told so.
DecideSilently(k) ==
    /\ sess[k].stage = "opened"
    /\ sess' = [sess EXCEPT ![k].stage = "decided"]
    /\ UNCHANGED <<tables, admin, registry, push, request, down, client, faults>>

(* handle_enrolled: read the status and send what is already decided.      *)
Decide(k) ==
    /\ sess[k].stage = "opened"
    /\ \/ /\ Status(k) = "approved"
          /\ Send(k, Approved(k))
          /\ SentOn(k, [sess[k] EXCEPT !.stage = "decided"])
       \/ /\ Status(k) = "rejected"
          /\ Send(k, Rejected(k))
          /\ sess' = [sess EXCEPT ![k] = Idle]
       \/ /\ Status(k) = "pending"
          /\ sess' = [sess EXCEPT ![k].stage = "decided"]
          /\ UNCHANGED down
    /\ UNCHANGED <<tables, admin, registry, push, request, client, faults>>

(* setup_enrolled_session and register_connection: register.               *)
Setup(k) ==
    /\ sess[k].stage \in {"decided", "admitted"}
    /\ Register(k)
    /\ sess' = [sess EXCEPT ![k].stage = IF @ = "decided" THEN "registered" ELSE "online"]
    /\ UNCHANGED <<tables, admin, push, request, down, client, faults>>

\* Mutant: the status is not read again after the registration.
RecheckSkipped(k) ==
    /\ sess[k].stage = "registered"
    /\ sess' = [sess EXCEPT ![k].stage = "loop"]
    /\ UNCHANGED <<tables, admin, registry, push, request, down, client, faults>>

(* setup_enrolled_session: read the status again, now that pushes arrive.  *)
Recheck(k) ==
    /\ sess[k].stage = "registered"
    /\ sess' = [sess EXCEPT ![k].stage = "loop", ![k].approved = (Status(k) = "approved")]
    /\ UNCHANGED <<tables, admin, registry, push, request, down, client, faults>>

(* handle_enrolled_loop, push_rx: forward; a rejection ends the loop.      *)
ForwardPush(k) ==
    /\ sess[k].stage = "loop"
    /\ push[k] # <<>>
    /\ \/ /\ Head(push[k]) = "approved"
          /\ Send(k, Approved(k))
          /\ sess' = [sess EXCEPT ![k].approved = TRUE]
          /\ push' = [push EXCEPT ![k] = Tail(@)]
          /\ UNCHANGED <<registry, request>>
       \/ /\ Head(push[k]) = "rejected"
          /\ Send(k, Rejected(k))
          /\ Leave(k)
    /\ UNCHANGED <<tables, admin, client, faults>>

(* handle_enrolled_loop, approval_poll: poll_approval_status.              *)
Poll(k) ==
    /\ sess[k].stage = "loop"
    /\ ~sess[k].approved
    /\ \/ /\ Status(k) = "approved"
          /\ Send(k, Approved(k))
          /\ sess' = [sess EXCEPT ![k].approved = TRUE]
          /\ UNCHANGED <<registry, push, request>>
       \/ /\ Status(k) = "rejected"
          /\ Send(k, Rejected(k))
          /\ Leave(k)
    /\ UNCHANGED <<tables, admin, client, faults>>

(* handle_enrolled_loop, RequestCertificate: refused while the session is  *)
(* not approved; do_sign_csr reads the row, and signs only for its id.     *)
RequestCertificate(k) ==
    /\ sess[k].stage = "loop"
    /\ request[k] # 0
    /\ IF ~sess[k].approved
       THEN /\ Send(k, <<Msg("error", 0, 0)>>)
            /\ request' = [request EXCEPT ![k] = 0]
            /\ UNCHANGED <<registry, sess, push>>
       ELSE IF Status(k) # "approved" \/ request[k] # sess[k].row
       THEN /\ Send(k, <<Msg("error", 0, 0), Close>>)
            /\ Leave(k)
       ELSE /\ sess' = [sess EXCEPT ![k].stage = "signing"]
            /\ UNCHANGED <<registry, push, request, down>>
    /\ UNCHANGED <<tables, admin, client, faults>>

(* do_sign_csr: the signed certificate is recorded.                        *)
RecordCertificate(k) ==
    LET r == sess[k].row IN
    /\ sess[k].stage = "signing"
    /\ issued' = [issued EXCEPT ![r] = @ + 1]
    /\ sess' = [sess EXCEPT ![k].stage = "recorded", ![k].serial = issued[r] + 1]
    /\ UNCHANGED <<rows, redirect, revoked, expired, admin, registry, push, request, down,
                   client, faults>>

(* do_sign_csr: the row's secret is invalidated, whatever it is by now;    *)
(* then the certificate is sent and the handler returns.                   *)
InvalidateSecret(k) ==
    LET r == sess[k].row IN
    /\ sess[k].stage = "recorded"
    /\ rows' = [rows EXCEPT ![r].secret = 0]
    /\ Send(k, <<Msg("certificate", r, sess[k].serial), Close>>)
    /\ Leave(k)
    /\ UNCHANGED <<redirect, issued, revoked, expired, admin, client, faults>>

(* cancel_token.cancelled(): close with Superseded.                        *)
Superseded(k) ==
    /\ sess[k].stage \in {"loop", "online"}
    /\ k \in cancelled
    /\ Send(k, <<Close>>)
    /\ Leave(k)
    /\ UNCHANGED <<tables, admin, client, faults>>

(* A handler that reads from a lost connection returns.                    *)
Hangup(k) ==
    /\ sess[k].stage \in {"anonymous", "loop", "admitted", "online"}
    /\ ~Linked(k)
    /\ Leave(k)
    /\ UNCHANGED <<tables, admin, down, client, faults>>

-----------------------------------------------------------------------------
(* The operator.                                                           *)

(* The guard is the bound: an operator asks for one more thing.            *)
Ask == decisions < MaxDecisions /\ decisions' = decisions + 1

Pending(r) == rows[r].status = "pending" /\ rows[r].active

(* approve_service: commit; the push follows.                              *)
ApproveService(r) ==
    /\ Ask
    /\ Pending(r)
    /\ rows' = [rows EXCEPT ![r].status = "approved"]
    /\ todo' = todo \cup {<<"approved", r>>}
    /\ UNCHANGED <<redirect, issued, revoked, expired, checked, registry, sess, push,
                   request, down, client, faults>>

(* reject_service: the row is deactivated too.                             *)
RejectService(r) ==
    /\ Ask
    /\ Pending(r)
    /\ rows' = [rows EXCEPT ![r].status = "rejected", ![r].active = FALSE]
    /\ todo' = todo \cup {<<"rejected", r>>}
    /\ UNCHANGED <<redirect, issued, revoked, expired, checked, registry, sess, push,
                   request, down, client, faults>>

(* deactivate_service: its certificates are revoked with it.               *)
DeactivateService(r) ==
    /\ Ask
    /\ rows[r].active
    /\ rows' = [rows EXCEPT ![r].active = FALSE]
    /\ revoked' = [revoked EXCEPT ![r] = issued[r]]
    /\ todo' = todo \cup {<<"disconnect", r>>}
    /\ UNCHANGED <<redirect, issued, expired, checked, registry, sess, push, request,
                   down, client, faults>>

Mergeable(s, t) ==
    /\ s # t
    /\ Pending(s)
    /\ rows[t].status = "approved" /\ rows[t].active

(* The merge route: the target must not be connected to this controller.   *)
CheckMerge(s, t) ==
    /\ Ask
    /\ Mergeable(s, t)
    /\ <<s, t>> \notin checked
    /\ current[t] = None \/ Cluster
    /\ checked' = checked \cup {<<s, t>>}
    /\ UNCHANGED <<tables, todo, registry, sess, push, request, down, client, faults>>

(* What merge_service writes: the target takes the source's secret, the    *)
(* source is deactivated, the certificates of both are revoked.            *)
Merge(s, t) ==
    /\ rows' = [rows EXCEPT ![s].active = FALSE, ![s].secret = 0,
                            ![t].secret = rows[s].secret]
    /\ revoked' = [revoked EXCEPT ![s] = issued[s], ![t] = issued[t]]
    /\ redirect' = [redirect EXCEPT ![s] = t]
    /\ todo' = todo \cup {<<"disconnect", s>>}

\* Mutant: the transaction trusts what the route saw before it began.
MergeServiceStale(s, t) ==
    /\ <<s, t>> \in checked
    /\ checked' = checked \ {<<s, t>>}
    /\ Merge(s, t)
    /\ UNCHANGED <<decisions, issued, expired, registry, sess, push, request, down, client, faults>>

(* merge_service: the transaction looks at both rows again.                *)
MergeService(s, t) ==
    /\ <<s, t>> \in checked
    /\ checked' = checked \ {<<s, t>>}
    /\ IF Mergeable(s, t) /\ \A r \in Rows : redirect[r] # s
       THEN Merge(s, t)
       ELSE UNCHANGED <<rows, revoked, redirect, todo>>
    /\ UNCHANGED <<issued, expired, decisions, registry, sess, push, request, down, client, faults>>

(* notification_service.send after the commit: to the registered enrolled  *)
(* session.  (A service that is online already ignores it.)  When the      *)
(* request reached another controller the push may get lost.               *)
PushDecision(r) ==
    LET k == current[r] IN
    \E d \in {"approved", "rejected"} :
        /\ <<d, r>> \in todo
        /\ todo' = (todo \ {<<d, r>>})
                   \cup (IF d = "rejected" THEN {<<"disconnect", r>>} ELSE {})
        /\ \/ push' = IF k # None /\ sess[k].stage # "online"
                      THEN [push EXCEPT ![k] = Append(@, d)] ELSE push
           \/ Cluster /\ UNCHANGED push
        /\ UNCHANGED <<tables, checked, decisions, registry, sess, request, down, client, faults>>

(* force_disconnect, in the registry of the controller that was asked.     *)
ForceDisconnect(r) ==
    /\ <<"disconnect", r>> \in todo
    /\ todo' = todo \ {<<"disconnect", r>>}
    /\ \/ /\ cancelled' = (cancelled \cup {current[r]}) \ {None}
          /\ current' = [current EXCEPT ![r] = None]
       \/ Cluster /\ UNCHANGED registry
    /\ UNCHANGED <<tables, checked, decisions, sess, push, request, down, client, faults>>

-----------------------------------------------------------------------------
(* Faults.                                                                 *)

Fault == faults < MaxFaults /\ faults' = faults + 1

(* The process of c ends: it is stopped or killed, or RESPONSE_TIMEOUT.    *)
Exit(c) ==
    /\ Fault
    /\ pc[c] # "down"
    /\ pc' = [pc EXCEPT ![c] = "down"]
    /\ Unlink(c)
    /\ UNCHANGED <<tables, admin, registry, sess, push, disk>>

(* The connection is lost, with what was on its way to the client.         *)
LoseConnection(c) ==
    /\ Fault
    /\ link[c] # None
    /\ Reconnect(c)

(* The certificate c holds reaches its not_after (it was not renewed).     *)
CertificateExpires(c) ==
    /\ Fault
    /\ disk[c].cert # NoCert
    /\ expired' = expired \cup {disk[c].cert}
    /\ UNCHANGED <<rows, redirect, issued, revoked, admin, registry, sess, push, request,
                   down, client>>

(* setup_enrolled_session: the second read of the status fails.  The       *)
(* session goes on as not approved, whatever the client has been told.     *)
RecheckFails(k) ==
    /\ Fault
    /\ sess[k].stage = "registered"
    /\ sess' = [sess EXCEPT ![k].stage = "loop", ![k].blind = TRUE]
    /\ UNCHANGED <<tables, admin, registry, push, request, down, client>>

(* do_sign_csr fails: the signing or the record of the certificate, or     *)
(* once it is recorded the write of the secret, which stays valid.  The    *)
(* client gets an Error and the handler returns.                           *)
SigningFails(k) ==
    /\ Fault
    /\ sess[k].stage \in {"signing", "recorded"}
    /\ Send(k, <<Msg("error", 0, 0), Close>>)
    /\ Leave(k)
    /\ UNCHANGED <<tables, admin, client>>

(* The controller ends and starts again: handlers, registry and what it    *)
(* had not yet done after a commit are gone.                               *)
ControllerRestart ==
    /\ Fault
    /\ todo' = {}
    /\ checked' = {}
    /\ UNCHANGED decisions
    /\ current' = [r \in 0..MaxRows |-> None]
    /\ cancelled' = {}
    /\ sess' = [k \in Slots |-> Idle]
    /\ push' = [k \in Slots |-> <<>>]
    /\ request' = [k \in Slots |-> 0]
    /\ down' = [k \in Slots |-> IF Linked(k) THEN <<Close>> ELSE <<>>]
    /\ UNCHANGED <<tables, client>>

-----------------------------------------------------------------------------
ClientStep(c) ==
    \/ Start(c)
    \/ \E k \in Slots : Enroll(c, k) \/ Resume(c, k) \/ Login(c, k)
    \/ ReceiveEnrolled(c) \/ ReceiveApproved(c) \/ IgnoreApproved(c)
    \/ ReceiveCertificate(c) \/ FinishSaving(c)
    \/ ReceiveRefusal(c) \/ ReceiveClose(c) \/ ApprovalTimeout(c)
    \/ ClearState(c) \/ ClearCertificate(c)

Handler(k) ==
    \/ EnrollService(k) \/ Decide(k) \/ Setup(k) \/ Recheck(k)
    \/ ForwardPush(k) \/ Poll(k)
    \/ RequestCertificate(k) \/ RecordCertificate(k) \/ InvalidateSecret(k)
    \/ Superseded(k) \/ Hangup(k)

AfterCommit(r) == PushDecision(r) \/ ForceDisconnect(r)

Operator ==
    \/ \E r \in Rows : ApproveService(r) \/ RejectService(r) \/ DeactivateService(r)
    \/ \E s, t \in Rows : CheckMerge(s, t) \/ MergeService(s, t)

Faults ==
    \/ \E c \in Clients : Exit(c) \/ LoseConnection(c) \/ CertificateExpires(c)
    \/ \E k \in Slots : RecheckFails(k) \/ SigningFails(k)
    \/ ControllerRestart

Next ==
    \/ \E c \in Clients : ClientStep(c)
    \/ \E k \in Slots : Handler(k)
    \/ \E r \in Rows : AfterCommit(r)
    \/ Operator
    \/ Faults

(* The processes and handlers run, and the supervisor starts a process     *)
(* again; operators and faults owe nothing.                                *)
Fairness ==
    /\ \A c \in Clients : WF_vars(ClientStep(c))
    /\ \A k \in Slots : WF_vars(Handler(k))
    /\ \A r \in Rows : WF_vars(AfterCommit(r))

Spec == Init /\ [][Next]_vars /\ Fairness

-----------------------------------------------------------------------------
(* A certificate request is refused in no race of approvals, pushes, polls *)
(* and reconnects: when it reaches a handler's loop, the session knows of  *)
(* the approval the client acted on.  The one exception is a session whose *)
(* read of the status failed after it had told the client of the approval: *)
(* it refuses the request, and the client takes the Error as fatal.        *)
RequestIsGranted ==
    \A k \in Slots : sess[k].stage = "loop" /\ request[k] # 0 =>
        sess[k].approved \/ sess[k].blind

(* The CSR names the service of the session it arrives on, also when the   *)
(* client was merged into another service since it stored its id.          *)
RequestNamesSession ==
    \A k \in Slots :
        sess[k].stage \in {"loop", "signing", "recorded"} /\ request[k] # 0 =>
            request[k] = sess[k].row

(* Whatever the process is stopped at, also between the two writes of     *)
(* save_certificate, a service that stored an id has something on disk to  *)
(* authenticate with: its secret or a certificate.  (Whether the           *)
(* controller still takes the secret is another matter: it may be used up.)*)
NeverStranded ==
    \A c \in Clients : disk[c].id # 0 => disk[c].secret # 0 \/ disk[c].cert # NoCert

(* However requests to merge interleave, a secret is at the service it was *)
(* issued to or at the one that service was last merged into, which is     *)
(* where lookup_by_secret looks for it: it follows one redirect.           *)
SecretFollowsMerge ==
    \A r \in Rows : rows[r].secret # 0 =>
        rows[r].secret = r \/ redirect[rows[r].secret] = r

Waiting(c) ==
    /\ IsEnrolledOnly(c)
    /\ disk[c].secret # 0
    /\ LET r == Lookup(disk[c].secret, disk[c].id) IN r # 0 /\ rows[r].status = "approved"

(* An approved service whose secret is accepted gets its certificate,      *)
(* unless the secret is used up or taken from it on the way.               *)
ApprovedGetsCertificate ==
    \A c \in Clients : Waiting(c) ~> ~Waiting(c)
=============================================================================
