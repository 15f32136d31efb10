---------------------------- MODULE EnrollmentProofs ----------------------------
(***************************************************************************)
(* The safety properties of the enrollment, proved for any number of       *)
(* clients, rows, connections and faults.                                  *)
(***************************************************************************)
EXTENDS Enrollment, WellFoundedInduction, TLAPS

(* A row that does not exist yet has nothing, and one that was merged into *)
(* another is deactivated: no row is merged twice.                         *)
RowsKept ==
    \A r \in Rows :
        /\ rows[r].status = "none" =>
               ~rows[r].active /\ rows[r].secret = 0 /\ redirect[r] = 0
        /\ redirect[r] # 0 => ~rows[r].active

(* The messages on their way to the client of connection k. *)
Letters(k) == {down[k][i] : i \in 1..Len(down[k])}

(* The messages that name the service, and those that make the client send *)
(* its certificate request.                                                *)
Names(m) == m.type \in {"enrolled", "approved"}
Grants(m) == m.type = "approved" \/ (m.type = "enrolled" /\ m.n = 1)

(* The client of connection k has been told of the approval. *)
Told(k) == request[k] # 0 \/ \E m \in Letters(k) : Grants(m)

(* Nothing outlives a connection: no message of a lost one, and no request *)
(* that nobody would read.                                                 *)
NothingLeftOver(k) ==
    /\ ~Linked(k) => down[k] = <<>>
    /\ ~Linked(k) /\ sess[k].stage = "unused" => request[k] = 0

(* The handler, the messages it sent and the request it got name one       *)
(* service; before it has read the row it has sent nothing.                *)
HandlerNamed(k) ==
    /\ sess[k].stage \notin {"unused", "anonymous"} => sess[k].row # 0
    /\ sess[k].stage # "unused" =>
           /\ request[k] \in {0, sess[k].row}
           /\ \A m \in Letters(k) : Names(m) => m.row = sess[k].row
    /\ sess[k].stage \in {"anonymous", "opened"} =>
           request[k] = 0 /\ \A m \in Letters(k) : ~Names(m)
    /\ \A m \in Letters(k) : Names(m) \/ m.type = "certificate" => m.row # 0

(* What the client was told, the handler knows or will read. *)
ApprovalKnown(k) ==
    /\ sess[k].stage \in {"decided", "registered"} /\ Told(k) => Status(k) = "approved"
    /\ sess[k].stage = "loop" /\ Told(k) => sess[k].approved \/ sess[k].blind

SlotKept(k) == NothingLeftOver(k) /\ HandlerNamed(k) /\ ApprovalKnown(k)
SlotsKept == \A k \in Slots : SlotKept(k)

(* The process and its state directory. *)
StateDirsKept ==
    \A c \in Clients :
        /\ link[c] # None => Owner(link[c]) = c
        /\ pc[c] \in {"approval", "request"} => disk[c].secret # 0
        /\ pc[c] \in {"saving", "login", "online"} => disk[c].cert # NoCert
        /\ pc[c] = "clearing" => disk[c].id = 0

(* The secrets: no two rows have the hash of the same one (the UNIQUE index *)
(* never refuses what merge_service writes), and SecretFollowsMerge.       *)
OneServicePerSecret ==
    \A r \in Rows : rows[r].secret # 0 =>
        /\ \A q \in Rows \ {r} : rows[q].secret # rows[r].secret
        /\ rows[r].secret = r \/ redirect[rows[r].secret] = r

EnrollmentInv ==
    /\ TypeOK
    /\ RowsKept /\ OneServicePerSecret
    /\ SlotsKept
    /\ StateDirsKept /\ NeverStranded

-----------------------------------------------------------------------------
LEMMA EnrollmentParts ==
    /\ MaxRows \in Nat /\ MaxLinks \in Nat /\ MaxDecisions \in Nat /\ MaxFaults \in Nat
    /\ None \notin Slots /\ Rows \subseteq Nat /\ Rows \subseteq 0..MaxRows
    /\ \A r \in 0..MaxRows : r # 0 => r \in Rows
    /\ 0 \notin Rows
    /\ \A k \in Slots : Owner(k) \in Clients
  <1>1. /\ MaxRows \in Nat /\ MaxLinks \in Nat /\ MaxDecisions \in Nat /\ MaxFaults \in Nat
        /\ None \notin Slots
    BY EnrollmentAssumption DEF Slots
  <1>2. \A k \in Slots : Owner(k) \in Clients
    BY DEF Slots, Owner
  <1>. QED BY <1>1, <1>2 DEF Rows

(* The first free row exists when a row is free. *)
LEMMA FirstFree ==
    ASSUME \E x \in Rows : rows[x].status = "none"
    PROVE  \E x \in Rows : /\ rows[x].status = "none"
                           /\ \A y \in 1..(x - 1) : rows[y].status # "none"
  <1> DEFINE T == {x \in Rows : rows[x].status = "none"}
  <1>1. T \subseteq Nat /\ T # {}
    BY EnrollmentParts
  <1>2. PICK x \in T : \A y \in T : ~(<<y, x>> \in OpToRel(<, Nat))
    <2> HIDE DEF T
    <2>. QED BY <1>1, WFMin, NatLessThanWellFounded, Zenon
  <1>3. \A y \in T : ~(y < x)
    BY <1>1, <1>2 DEF OpToRel
  <1>4. \A y \in 1..(x - 1) : y \in Rows /\ y < x
    BY EnrollmentParts DEF Rows
  <1>. QED BY <1>3, <1>4

-----------------------------------------------------------------------------
(* The services table.                                                     *)

RowsInv == RowsKept /\ OneServicePerSecret

RowTypes ==
    /\ rows \in [Rows -> [status : {"none", "pending", "approved", "rejected"},
                          active : BOOLEAN, secret : 0..MaxRows]]
    /\ redirect \in [Rows -> 0..MaxRows]

(* No decision is taken back. *)
ApprovalsStay == \A r \in Rows : rows[r].status = "approved" => rows'[r].status = "approved"

(* A new row takes a secret that no row has. *)
LEMMA InsertKeeps ==
    ASSUME RowsInv, RowTypes, NEW r \in Rows, rows[r].status = "none",
           NEW status \in {"approved", "pending"},
           rows' = [rows EXCEPT ![r] = [status |-> status, active |-> TRUE, secret |-> r]],
           UNCHANGED redirect
    PROVE  RowsInv' /\ RowTypes' /\ ApprovalsStay
  <1>1. /\ rows'[r] = [status |-> status, active |-> TRUE, secret |-> r]
        /\ \A q \in Rows \ {r} : rows'[q] = rows[q]
    BY DEF RowTypes
  <1>2. RowTypes'
    BY EnrollmentParts DEF RowTypes
  <1>3. redirect[r] = 0 /\ r # 0
    BY EnrollmentParts DEF RowsInv, RowsKept
  <1>4. RowsKept'
    BY <1>1, <1>3 DEF RowsInv, RowsKept
  <1>5. \A q \in Rows \ {r} : rows[q].secret # r
    BY <1>3, EnrollmentParts DEF RowsInv, OneServicePerSecret
  <1>6. OneServicePerSecret'
    BY <1>1, <1>5 DEF RowsInv, OneServicePerSecret
  <1>7. ApprovalsStay
    BY <1>1 DEF ApprovalsStay
  <1>. QED BY <1>2, <1>4, <1>6, <1>7 DEF RowsInv

(* One row changes: its status from pending, or it is deactivated, or its  *)
(* secret is used up.                                                      *)
LEMMA UpdateKeeps ==
    ASSUME RowsInv, RowTypes, NEW r \in Rows, NEW row, rows' = [rows EXCEPT ![r] = row],
           row \in [status : {"none", "pending", "approved", "rejected"},
                    active : BOOLEAN, secret : 0..MaxRows],
           row.active => rows[r].active,
           row.secret \in {0, rows[r].secret},
           row.status = "none" <=> rows[r].status = "none",
           rows[r].status = "approved" => row.status = "approved",
           UNCHANGED redirect
    PROVE  RowsInv' /\ RowTypes' /\ ApprovalsStay
  <1>1. rows'[r] = row /\ \A q \in Rows \ {r} : rows'[q] = rows[q]
    BY DEF RowTypes
  <1>2. RowTypes'
    BY DEF RowTypes
  <1>3. RowsKept'
    BY <1>1 DEF RowsInv, RowsKept
  <1>4. OneServicePerSecret'
    BY <1>1 DEF RowsInv, OneServicePerSecret
  <1>5. ApprovalsStay
    BY <1>1 DEF ApprovalsStay
  <1>. QED BY <1>2, <1>3, <1>4, <1>5 DEF RowsInv

(* merge_service: the source is active, so it was not merged before, and   *)
(* no row points to it, so that its secret is its own.                     *)
LEMMA MergeKeeps ==
    ASSUME RowsInv, RowTypes, NEW s \in Rows, NEW t \in Rows,
           Mergeable(s, t), \A r \in Rows : redirect[r] # s, Merge(s, t)
    PROVE  RowsInv' /\ RowTypes' /\ ApprovalsStay
  <1>1. /\ s # t /\ rows[s].status = "pending" /\ rows[s].active
        /\ rows[t].status = "approved" /\ rows[t].active
    BY DEF Mergeable, Pending
  <1>2. /\ rows' = [rows EXCEPT ![s].active = FALSE, ![s].secret = 0,
                                ![t].secret = rows[s].secret]
        /\ redirect' = [redirect EXCEPT ![s] = t]
    BY DEF Merge
  <1>3. /\ rows'[s] = [rows[s] EXCEPT !.active = FALSE, !.secret = 0]
        /\ rows'[t] = [rows[t] EXCEPT !.secret = rows[s].secret]
        /\ \A r \in Rows \ {s, t} : rows'[r] = rows[r]
        /\ \A r \in Rows : redirect'[r] = IF r = s THEN t ELSE redirect[r]
    BY <1>1, <1>2 DEF RowTypes
  <1>4. RowTypes'
    <2> DEFINE a == [rows[s] EXCEPT !.active = FALSE, !.secret = 0]
               b == [rows[t] EXCEPT !.secret = rows[s].secret]
               Row == [status : {"none", "pending", "approved", "rejected"},
                       active : BOOLEAN, secret : 0..MaxRows]
    <2>1. a \in Row /\ b \in Row
      <3>1. rows[s] \in Row /\ rows[t] \in Row /\ 0 \in 0..MaxRows
        BY EnrollmentParts DEF RowTypes
      <3>2. rows[s].secret \in 0..MaxRows
        BY <3>1
      <3>. QED BY <3>1, <3>2
    <2>2. rows' = [rows EXCEPT ![s] = a, ![t] = b]
      BY <1>1, <1>2 DEF RowTypes
    <2>3. rows \in [Rows -> Row] /\ redirect' \in [Rows -> 0..MaxRows]
      BY <1>2, EnrollmentParts DEF RowTypes
    <2> HIDE DEF a, b, Row
    <2>4. rows' \in [Rows -> Row]
      BY <2>1, <2>2, <2>3
    <2>. QED BY <2>3, <2>4 DEF RowTypes, Row
  <1>5. /\ rows'[s].status = rows[s].status /\ ~rows'[s].active /\ rows'[s].secret = 0
        /\ rows'[t].status = rows[t].status /\ rows'[t].active = rows[t].active
        /\ rows'[t].secret = rows[s].secret
    BY <1>3 DEF RowTypes
  <1>6. RowsKept'
    <2> SUFFICES ASSUME NEW r \in Rows
                 PROVE  /\ rows'[r].status = "none" =>
                               ~rows'[r].active /\ rows'[r].secret = 0 /\ redirect'[r] = 0
                        /\ redirect'[r] # 0 => ~rows'[r].active
      BY DEF RowsKept
    <2>1. CASE r = s
      BY <1>1, <1>5, <2>1
    <2>2. CASE r = t
      BY <1>1, <1>3, <1>5, <2>2 DEF RowsInv, RowsKept
    <2>3. CASE r \notin {s, t}
      BY <1>3, <2>3 DEF RowsInv, RowsKept
    <2>. QED BY <2>1, <2>2, <2>3
  <1>7. redirect[s] = 0
    BY <1>1 DEF RowsInv, RowsKept
  <1>8. rows[s].secret \in {0, s}
    BY EnrollmentParts DEF RowsInv, OneServicePerSecret, RowTypes
  <1>9. \A q \in Rows \ {s} : rows[q].secret # s
    BY <1>7, EnrollmentParts DEF RowsInv, OneServicePerSecret
  <1>10. OneServicePerSecret'
    <2> SUFFICES ASSUME NEW r \in Rows, rows'[r].secret # 0
                 PROVE  /\ \A q \in Rows \ {r} : rows'[q].secret # rows'[r].secret
                        /\ rows'[r].secret = r \/ redirect'[rows'[r].secret] = r
      BY DEF OneServicePerSecret
    <2>1. r # s
      BY <1>5
    <2>2. CASE r = t
      <3>1. rows'[r].secret = s /\ s # 0
        BY <1>5, <1>8, <2>2
      <3>2. \A q \in Rows \ {t} : rows'[q].secret # s
        <4> SUFFICES ASSUME NEW q \in Rows \ {t} PROVE rows'[q].secret # s
          OBVIOUS
        <4>1. CASE q = s
          BY <1>5, <3>1, <4>1
        <4>2. CASE q # s
          BY <1>3, <1>9, <4>2
        <4>. QED BY <4>1, <4>2
      <3>. QED BY <1>3, <2>2, <3>1, <3>2
    <2>3. CASE r # t
      <3>1. rows'[r] = rows[r] /\ rows[r].secret # s
        BY <1>3, <1>9, <2>1, <2>3
      <3>2. /\ \A q \in Rows \ {r} : rows[q].secret # rows[r].secret
            /\ rows[r].secret = r \/ redirect[rows[r].secret] = r
        BY <3>1 DEF RowsInv, OneServicePerSecret
      <3>3. \A q \in Rows : rows'[q].secret \in {0, rows[q].secret, s}
        BY <1>3, <1>5, <1>8
      <3>4. rows[r].secret \in Rows
        BY <3>1, EnrollmentParts DEF RowTypes
      <3>. QED BY <1>3, <3>1, <3>2, <3>3, <3>4
    <2>. QED BY <2>2, <2>3
  <1>11. ApprovalsStay
    BY <1>1, <1>3, <1>5 DEF ApprovalsStay
  <1>. QED BY <1>4, <1>6, <1>10, <1>11 DEF RowsInv

(* The steps that write a row. *)
LEMMA RowSteps ==
    ASSUME RowsInv, TypeOK, SlotsKept, Next
    PROVE  RowsInv' /\ RowTypes' /\ ApprovalsStay
  <1>1. RowTypes
    BY DEF TypeOK, RowTypes
  <1>2. CASE UNCHANGED <<rows, redirect>>
    <2>1. RowsInv'
      BY <1>2 DEF RowsInv, RowsKept, OneServicePerSecret
    <2>. QED BY <1>1, <1>2, <2>1 DEF RowTypes, ApprovalsStay
  <1>3. ASSUME NEW c \in Clients, ClientStep(c)
        PROVE  UNCHANGED <<rows, redirect>>
    BY <1>3 DEF ClientStep, Start, Enroll, Resume, Login, ReceiveEnrolled, ReceiveApproved,
       IgnoreApproved, ReceiveCertificate, FinishSaving, ReceiveRefusal, ReceiveClose,
       Reconnect, ApprovalTimeout, ClearState, ClearCertificate, tables
  <1>4. ASSUME NEW k \in Slots,
               \/ Decide(k) \/ Setup(k) \/ Recheck(k) \/ ForwardPush(k) \/ Poll(k)
               \/ RequestCertificate(k) \/ RecordCertificate(k) \/ Superseded(k) \/ Hangup(k)
        PROVE  UNCHANGED <<rows, redirect>>
    BY <1>4 DEF Decide, Setup, Recheck, ForwardPush, Poll, RequestCertificate,
       RecordCertificate, Superseded, Hangup, tables
  <1>5. ASSUME NEW k \in Slots, EnrollService(k)
        PROVE  RowsInv' /\ RowTypes' /\ ApprovalsStay
    <2> DEFINE r == CHOOSE x \in Rows : /\ rows[x].status = "none"
                                        /\ \A y \in 1..(x - 1) : rows[y].status # "none"
    <2>1. /\ \E x \in Rows : rows[x].status = "none"
          /\ \E status \in {"approved", "pending"} :
                 rows' = [rows EXCEPT ![r] = [status |-> status, active |-> TRUE, secret |-> r]]
          /\ UNCHANGED redirect
      BY <1>5 DEF EnrollService
    <2>2. r \in Rows /\ rows[r].status = "none"
      BY <2>1, FirstFree
    <2> HIDE DEF r
    <2>. QED BY <1>1, <2>1, <2>2, InsertKeeps
  <1>6. ASSUME NEW k \in Slots, InvalidateSecret(k)
        PROVE  RowsInv' /\ RowTypes' /\ ApprovalsStay
    <2> DEFINE r == sess[k].row
               row == [rows[r] EXCEPT !.secret = 0]
    <2>1. rows' = [rows EXCEPT ![r] = row] /\ UNCHANGED redirect
      BY <1>1, <1>6 DEF InvalidateSecret, RowTypes
    <2>2. r \in Rows
      BY <1>6, EnrollmentParts DEF InvalidateSecret, TypeOK, SlotsKept, SlotKept, HandlerNamed
    <2>3. 0 \in 0..MaxRows
      BY EnrollmentParts
    <2> HIDE DEF r
    <2>4. /\ row \in [status : {"none", "pending", "approved", "rejected"},
                      active : BOOLEAN, secret : 0..MaxRows]
          /\ row.active = rows[r].active /\ row.secret = 0 /\ row.status = rows[r].status
      BY <1>1, <2>2, <2>3 DEF RowTypes
    <2> HIDE DEF row
    <2>. QED BY <1>1, <2>1, <2>2, <2>4, UpdateKeeps
  <1>7. ASSUME NEW r \in Rows, ApproveService(r) \/ RejectService(r) \/ DeactivateService(r)
        PROVE  RowsInv' /\ RowTypes' /\ ApprovalsStay
    <2>1. PICK row \in {[rows[r] EXCEPT !.status = "approved"],
                        [rows[r] EXCEPT !.status = "rejected", !.active = FALSE],
                        [rows[r] EXCEPT !.active = FALSE]} :
              /\ rows' = [rows EXCEPT ![r] = row] /\ UNCHANGED redirect
              /\ rows[r].status = "pending" \/ row = [rows[r] EXCEPT !.active = FALSE]
      <3>1. CASE ApproveService(r)
        BY <1>1, <3>1 DEF ApproveService, Pending, RowTypes
      <3>2. CASE RejectService(r)
        BY <1>1, <3>2 DEF RejectService, Pending, RowTypes
      <3>3. CASE DeactivateService(r)
        BY <1>1, <3>3 DEF DeactivateService, RowTypes
      <3>. QED BY <1>7, <3>1, <3>2, <3>3
    <2>2. /\ row \in [status : {"none", "pending", "approved", "rejected"},
                      active : BOOLEAN, secret : 0..MaxRows]
          /\ row.secret = rows[r].secret
          /\ row.status = "none" <=> rows[r].status = "none"
          /\ rows[r].status = "approved" => row.status = "approved"
      BY <1>1, <2>1 DEF RowTypes
    <2>3. row.active => rows[r].active
      BY <1>1, <2>1 DEF RowTypes
    <2>. QED BY <1>1, <2>1, <2>2, <2>3, UpdateKeeps
  <1>8. ASSUME NEW s \in Rows, NEW t \in Rows, CheckMerge(s, t) \/ MergeService(s, t)
        PROVE  RowsInv' /\ RowTypes' /\ ApprovalsStay
    <2>1. \/ UNCHANGED <<rows, redirect>>
          \/ Mergeable(s, t) /\ (\A r \in Rows : redirect[r] # s) /\ Merge(s, t)
      BY <1>8 DEF CheckMerge, MergeService, tables
    <2>. QED BY <1>1, <1>2, <2>1, MergeKeeps
  <1>9. ASSUME NEW r \in Rows, AfterCommit(r)
        PROVE  UNCHANGED <<rows, redirect>>
    BY <1>9 DEF AfterCommit, PushDecision, ForceDisconnect, tables
  <1>10. Faults => UNCHANGED <<rows, redirect>>
    BY DEF Faults, Exit, LoseConnection, Reconnect, CertificateExpires, RecheckFails,
       SigningFails, ControllerRestart, tables
  <1>. QED
    BY <1>2, <1>3, <1>4, <1>5, <1>6, <1>7, <1>8, <1>9, <1>10 DEF Next, Handler, Operator

-----------------------------------------------------------------------------
(* Connections, their handlers and messages.                               *)

Session == [stage : Stages, row : 0..MaxRows, approved : BOOLEAN, blind : BOOLEAN,
            serial : Nat]
USE DEF Session

SlotTypes ==
    /\ sess \in [Slots -> Session]
    /\ request \in [Slots -> 0..MaxRows]
    /\ down \in [Slots -> Seq(Message)]
    /\ link \in [Clients -> Slots \cup {None}]

(* What is sent arrives on the connection of the handler, or nowhere. *)
LEMMA SendDelivers ==
    ASSUME SlotTypes, NEW k \in Slots, NEW msgs \in Seq(Message), Send(k, msgs)
    PROVE  /\ down' \in [Slots -> Seq(Message)]
           /\ \A j \in Slots \ {k} : down'[j] = down[j]
           /\ ~Linked(k) => down'[k] = down[k]
           /\ \A m \in Letters(k)' : m \in Letters(k) \/ \E i \in 1..Len(msgs) : m = msgs[i]
  <1>1. down \in [Slots -> Seq(Message)] /\ down[k] \in Seq(Message)
    BY DEF SlotTypes
  <1>2. CASE ~Linked(k)
    BY <1>1, <1>2 DEF Send, Letters
  <1>3. CASE Linked(k)
    <2> DEFINE d == down[k] \o msgs
    <2>1. down' = [down EXCEPT ![k] = d]
      BY <1>3 DEF Send
    <2>2. d \in Seq(Message) /\ Len(d) = Len(down[k]) + Len(msgs)
      BY <1>1
    <2>3. \A i \in 1..Len(d) : d[i] = IF i <= Len(down[k]) THEN down[k][i]
                                      ELSE msgs[i - Len(down[k])]
      BY <1>1
    <2> HIDE DEF d
    <2>4. /\ down' \in [Slots -> Seq(Message)] /\ down'[k] = d
          /\ \A j \in Slots \ {k} : down'[j] = down[j]
      BY <1>1, <2>1, <2>2
    <2>5. ASSUME NEW m \in Letters(k)'
          PROVE  m \in Letters(k) \/ \E i \in 1..Len(msgs) : m = msgs[i]
      <3>1. PICK i \in 1..Len(d) : m = d[i]
        BY <2>4 DEF Letters
      <3>2. Len(down[k]) \in Nat /\ Len(msgs) \in Nat
        BY <1>1
      <3>3. CASE i <= Len(down[k])
        BY <2>3, <3>1, <3>2, <3>3 DEF Letters
      <3>4. CASE ~(i <= Len(down[k]))
        <4>1. i - Len(down[k]) \in 1..Len(msgs) /\ m = msgs[i - Len(down[k])]
          BY <2>2, <2>3, <3>1, <3>2, <3>4
        <4>. QED BY <4>1
      <3>. QED BY <3>3, <3>4
    <2>. QED BY <1>3, <2>4, <2>5
  <1>. QED BY <1>2, <1>3

(* Nothing happens to connection k, and no approval is taken back. *)
LEMMA SlotStays ==
    ASSUME SlotTypes, ApprovalsStay, NEW k \in Slots, SlotKept(k),
           sess'[k] = sess[k], request'[k] = request[k], down'[k] = down[k],
           Linked(k)' <=> Linked(k)
    PROVE  SlotKept(k)'
  <1>1. Letters(k)' = Letters(k) /\ (Told(k)' <=> Told(k))
    BY DEF Letters, Told, Grants
  <1>2. NothingLeftOver(k)'
    BY DEF SlotKept, NothingLeftOver
  <1>3. HandlerNamed(k)'
    BY <1>1 DEF SlotKept, HandlerNamed, Names
  <1>4. sess[k].row \in 0..MaxRows
    BY DEF SlotTypes
  <1>5. sess[k].stage \in {"decided", "registered"} => sess[k].row \in Rows
    BY <1>4, EnrollmentParts DEF SlotKept, HandlerNamed
  <1>6. ApprovalKnown(k)'
    BY <1>1, <1>5 DEF SlotKept, ApprovalKnown, Status, ApprovalsStay
  <1>. QED BY <1>2, <1>3, <1>6 DEF SlotKept

(* Nothing is on the connection, and the handler begins. *)
LEMMA OpenParts ==
    ASSUME SlotTypes, SlotsKept, NEW c \in Clients, NEW k \in Slots, NEW h, Open(c, k, h)
    PROVE  /\ Owner(k) = c /\ ~Linked(k) /\ Linked(k)' /\ down'[k] = <<>> /\ request'[k] = 0
           /\ sess'[k] = h
           /\ \A j \in Slots \ {k} :
                  /\ sess'[j] = sess[j] /\ request'[j] = request[j] /\ down'[j] = down[j]
                  /\ Linked(j)' <=> Linked(j)
  <1>1. /\ Owner(k) = c /\ sess[k].stage = "unused" /\ link[c] = None
        /\ link' = [link EXCEPT ![c] = k] /\ sess' = [sess EXCEPT ![k] = h]
        /\ UNCHANGED <<request, down>>
    BY DEF Open
  <1>2. ~Linked(k)
    BY <1>1, EnrollmentParts DEF Linked
  <1>3. Linked(k)' /\ \A j \in Slots \ {k} : Linked(j)' <=> Linked(j)
    <2>1. \A j \in Slots : Owner(j) \in Clients /\ j # None
      BY EnrollmentParts
    <2>. QED BY <1>1, <2>1 DEF Linked, SlotTypes
  <1>4. down[k] = <<>> /\ request[k] = 0
    BY <1>1, <1>2 DEF SlotsKept, SlotKept, NothingLeftOver
  <1>. QED BY <1>1, <1>2, <1>3, <1>4 DEF SlotTypes

(* The client lets go of its connection. *)
LEMMA UnlinkParts ==
    ASSUME SlotTypes, NEW c \in Clients, Unlink(c), UNCHANGED sess,
           link[c] # None => Owner(link[c]) = c
    PROVE  /\ \A j \in Slots : j # link[c] =>
                  /\ request'[j] = request[j] /\ down'[j] = down[j]
                  /\ Linked(j)' <=> Linked(j)
           /\ \A j \in Slots : j = link[c] =>
                  /\ ~Linked(j)' /\ down'[j] = <<>>
                  /\ request'[j] = IF sess[j].stage = "unused" THEN 0 ELSE request[j]
  <1>1. /\ link' = [link EXCEPT ![c] = None]
        /\ down' = [j \in Slots |-> IF j = link[c] THEN <<>> ELSE down[j]]
        /\ request' = [j \in Slots |-> IF j = link[c] /\ sess[j].stage = "unused"
                                       THEN 0 ELSE request[j]]
    BY DEF Unlink
  <1>2. \A j \in Slots : Owner(j) \in Clients /\ j # None
    BY EnrollmentParts
  <1>3. \A j \in Slots : j # link[c] => (Linked(j)' <=> Linked(j))
    BY <1>1, <1>2 DEF Linked, SlotTypes
  <1>4. \A j \in Slots : j = link[c] => ~Linked(j)'
    BY <1>1, <1>2 DEF Linked, SlotTypes
  <1>. QED BY <1>1, <1>3, <1>4

LEMMA UnlinkKeeps ==
    ASSUME SlotTypes, SlotsKept, ApprovalsStay, NEW c \in Clients, Unlink(c), UNCHANGED sess,
           link[c] # None => Owner(link[c]) = c
    PROVE  SlotsKept'
  <1> SUFFICES ASSUME NEW k \in Slots PROVE SlotKept(k)'
    BY DEF SlotsKept
  <1>1. SlotKept(k)
    BY DEF SlotsKept
  <1>2. CASE k # link[c]
    BY <1>1, <1>2, SlotStays, UnlinkParts
  <1>3. CASE k = link[c]
    <2>1. /\ ~Linked(k)' /\ down'[k] = <<>>
          /\ request'[k] = IF sess[k].stage = "unused" THEN 0 ELSE request[k]
      BY <1>3, UnlinkParts
    <2>2. Letters(k)' = {}
      BY <2>1 DEF Letters
    <2>3. Told(k)' => request[k] # 0
      BY <2>1, <2>2 DEF Told
    <2>4. NothingLeftOver(k)'
      BY <2>1 DEF NothingLeftOver
    <2>5. HandlerNamed(k)'
      BY <1>1, <2>1, <2>2 DEF SlotKept, HandlerNamed
    <2>6. sess[k].stage \in {"decided", "registered"} => sess[k].row \in Rows
      BY <1>1, EnrollmentParts DEF SlotKept, HandlerNamed, SlotTypes
    <2>7. ApprovalKnown(k)'
      BY <1>1, <2>3, <2>6 DEF SlotKept, ApprovalKnown, Status, ApprovalsStay, Told
    <2>. QED BY <2>4, <2>5, <2>7 DEF SlotKept
  <1>. QED BY <1>2, <1>3

LEMMA SendOne ==
    ASSUME SlotTypes, NEW k \in Slots, NEW a \in Message, Send(k, <<a>>)
    PROVE  /\ down' \in [Slots -> Seq(Message)]
           /\ \A j \in Slots \ {k} : down'[j] = down[j]
           /\ Linked(k) \/ down'[k] = down[k]
           /\ \A m \in Letters(k)' : m \in Letters(k) \/ m = a
  <1> DEFINE msgs == <<a>>
  <1>1. msgs \in Seq(Message) /\ \A i \in 1..Len(msgs) : msgs[i] = a
    OBVIOUS
  <1>2. Send(k, msgs)
    OBVIOUS
  <1> HIDE DEF msgs
  <1>. QED BY <1>1, <1>2, SendDelivers

LEMMA SendTwo ==
    ASSUME SlotTypes, NEW k \in Slots, NEW a \in Message, NEW b \in Message, Send(k, <<a, b>>)
    PROVE  /\ down' \in [Slots -> Seq(Message)]
           /\ \A j \in Slots \ {k} : down'[j] = down[j]
           /\ Linked(k) \/ down'[k] = down[k]
           /\ \A m \in Letters(k)' : m \in Letters(k) \/ m = a \/ m = b
  <1> DEFINE msgs == <<a, b>>
  <1>1. msgs \in Seq(Message) /\ \A i \in 1..Len(msgs) : msgs[i] \in {a, b}
    OBVIOUS
  <1>2. Send(k, msgs)
    OBVIOUS
  <1> HIDE DEF msgs
  <1>. QED BY <1>1, <1>2, SendDelivers

(* The messages the handlers send. *)
LEMMA MsgParts ==
    ASSUME NEW type \in {"enrolled", "approved", "rejected", "certificate", "error", "close"},
           NEW r \in 0..MaxRows, NEW n \in Nat
    PROVE  /\ Msg(type, r, n) \in Message
           /\ Msg(type, r, n).type = type /\ Msg(type, r, n).row = r /\ Msg(type, r, n).n = n
  BY DEF Msg, Message

LEMMA CloseParts == Close \in Message /\ Close.type = "close"
  BY MsgParts, EnrollmentParts DEF Close

(* Only connection k is touched. *)
Apart(k) ==
    \A j \in Slots \ {k} :
        sess'[j] = sess[j] /\ request'[j] = request[j] /\ down'[j] = down[j]

(* The last words of a handler that returns name no service. *)
LastWords(k) ==
    /\ Linked(k) \/ down'[k] = down[k]
    /\ \A m \in Letters(k)' :
           m \in Letters(k) \/ (~Names(m) /\ (m.type = "certificate" => m.row # 0))

LEMMA OneSlot ==
    ASSUME SlotTypes, SlotsKept, ApprovalsStay, NEW k \in Slots, UNCHANGED link,
           Apart(k), SlotKept(k)'
    PROVE  SlotsKept'
  <1>1. \A j \in Slots : Linked(j)' <=> Linked(j)
    BY DEF Linked
  <1>2. ASSUME NEW j \in Slots, j # k PROVE SlotKept(j)'
    BY <1>1, <1>2, SlotStays DEF SlotsKept, Apart
  <1>. QED BY <1>2 DEF SlotsKept

LEMMA NoSlot ==
    ASSUME SlotTypes, SlotsKept, ApprovalsStay, UNCHANGED <<sess, request, down, link>>
    PROVE  SlotsKept'
  <1>1. \A j \in Slots : Linked(j)' <=> Linked(j)
    BY DEF Linked
  <1>. QED BY <1>1, SlotStays DEF SlotsKept

(* The handler returns. *)
LEMMA SlotLeft ==
    ASSUME NEW k \in Slots, SlotKept(k), UNCHANGED link,
           sess'[k] = Idle, request'[k] = 0, LastWords(k)
    PROVE  SlotKept(k)'
  <1>1. sess'[k].stage = "unused"
    BY DEF Idle
  <1>2. NothingLeftOver(k)'
    BY DEF SlotKept, NothingLeftOver, Linked, LastWords
  <1>3. HandlerNamed(k)'
    BY <1>1 DEF SlotKept, HandlerNamed, Names, LastWords
  <1>4. ApprovalKnown(k)'
    BY <1>1 DEF ApprovalKnown
  <1>. QED BY <1>2, <1>3, <1>4 DEF SlotKept

(* A handler returns, perhaps with a last message. *)
LEMMA LeaveKeeps ==
    ASSUME SlotTypes, SlotsKept, ApprovalsStay, NEW k \in Slots, UNCHANGED link, Leave(k),
           \A j \in Slots \ {k} : down'[j] = down[j], LastWords(k)
    PROVE  SlotsKept'
  <1>1. /\ sess'[k] = Idle /\ request'[k] = 0
        /\ \A j \in Slots \ {k} : sess'[j] = sess[j] /\ request'[j] = request[j]
    BY DEF Leave, SlotTypes
  <1>2. SlotKept(k)'
    BY <1>1, SlotLeft DEF SlotsKept
  <1>. QED BY <1>1, <1>2, OneSlot DEF Apart

(* The client opens a connection. *)
LEMMA OpenKeeps ==
    ASSUME SlotTypes, SlotsKept, ApprovalsStay, NEW c \in Clients, NEW k \in Slots, NEW h,
           Open(c, k, h), h.stage \in {"anonymous", "opened", "admitted"},
           h.stage # "anonymous" => h.row # 0
    PROVE  SlotsKept'
  <1>1. /\ Linked(k)' /\ down'[k] = <<>> /\ request'[k] = 0 /\ sess'[k] = h
        /\ \A j \in Slots \ {k} :
               /\ sess'[j] = sess[j] /\ request'[j] = request[j] /\ down'[j] = down[j]
               /\ Linked(j)' <=> Linked(j)
    BY OpenParts
  <1>2. ASSUME NEW j \in Slots, j # k PROVE SlotKept(j)'
    BY <1>1, <1>2, SlotStays DEF SlotsKept
  <1>3. SlotKept(k)'
    <2>1. Letters(k)' = {}
      BY <1>1 DEF Letters
    <2>2. NothingLeftOver(k)'
      BY <1>1 DEF NothingLeftOver
    <2>3. HandlerNamed(k)'
      BY <1>1, <2>1 DEF HandlerNamed
    <2>4. ApprovalKnown(k)'
      BY <1>1 DEF ApprovalKnown
    <2>. QED BY <2>2, <2>3, <2>4 DEF SlotKept
  <1>. QED BY <1>2, <1>3 DEF SlotsKept

(* The client reads the next message. *)
LEMMA ReadParts ==
    ASSUME SlotTypes, StateDirsKept, NEW c \in Clients, NEW type, Incoming(c, type)
    PROVE  /\ link[c] \in Slots /\ Linked(link[c])
           /\ Received(c) \in Message /\ Received(c).type = type
           /\ Received(c) \in Letters(link[c])
           /\ Consume(c) =>
                  /\ down' \in [Slots -> Seq(Message)]
                  /\ \A j \in Slots \ {link[c]} : down'[j] = down[j]
                  /\ \A j \in Slots : Letters(j)' \subseteq Letters(j)
  <1>1. /\ link[c] \in Slots /\ link[c] # None /\ down[link[c]] # <<>>
        /\ Received(c).type = type
    BY DEF SlotTypes, Incoming, Received
  <1>2. Linked(link[c])
    BY <1>1 DEF Linked, StateDirsKept
  <1> DEFINE d == down[link[c]]
  <1>3. d \in Seq(Message) /\ d # <<>> /\ down \in [Slots -> Seq(Message)]
    BY <1>1 DEF SlotTypes
  <1>4. Received(c) = Head(d)
    BY DEF Received
  <1> HIDE DEF d
  <1>5. /\ Head(d) \in Message /\ Head(d) = d[1] /\ 1 \in 1..Len(d)
        /\ Tail(d) \in Seq(Message) /\ Len(Tail(d)) = Len(d) - 1 /\ Len(d) \in Nat
        /\ \A i \in 1..(Len(d) - 1) : Tail(d)[i] = d[i + 1]
    BY <1>3
  <1>6. Received(c) \in Letters(link[c])
    BY <1>4, <1>5 DEF Letters, d
  <1>7. ASSUME Consume(c)
        PROVE  /\ down' \in [Slots -> Seq(Message)]
               /\ \A j \in Slots \ {link[c]} : down'[j] = down[j]
               /\ \A j \in Slots : Letters(j)' \subseteq Letters(j)
    <2>1. down' = [down EXCEPT ![link[c]] = Tail(d)]
      BY <1>7 DEF Consume, d
    <2>2. /\ down' \in [Slots -> Seq(Message)] /\ down'[link[c]] = Tail(d)
          /\ \A j \in Slots \ {link[c]} : down'[j] = down[j]
      BY <1>1, <1>3, <1>5, <2>1
    <2>3. ASSUME NEW j \in Slots, NEW m \in Letters(j)' PROVE m \in Letters(j)
      <3>1. CASE j # link[c]
        BY <2>2, <2>3, <3>1 DEF Letters
      <3>2. CASE j = link[c]
        <4>1. PICK i \in 1..(Len(d) - 1) : m = Tail(d)[i]
          BY <1>5, <2>2, <2>3, <3>2 DEF Letters
        <4>2. i + 1 \in 1..Len(d) /\ m = d[i + 1]
          BY <1>5, <4>1
        <4>. QED BY <3>2, <4>2 DEF Letters, d
      <3>. QED BY <3>1, <3>2
    <2>. QED BY <2>2, <2>3
  <1>. QED BY <1>1, <1>2, <1>4, <1>5, <1>6, <1>7

(* A client that was granted a certificate requests it. *)
LEMMA RequestKeeps ==
    ASSUME SlotTypes, SlotsKept, StateDirsKept, ApprovalsStay, NEW c \in Clients,
           NEW type, Incoming(c, type), Consume(c), UNCHANGED <<sess, link>>,
           Names(Received(c)),
           \/ UNCHANGED request
           \/ /\ Grants(Received(c))
              /\ request' = [request EXCEPT ![link[c]] = Received(c).row]
    PROVE  SlotsKept'
  <1>1. PICK k \in Slots : k = link[c]
    BY ReadParts
  <1> DEFINE m == Received(c)
  <1>2. /\ Linked(k) /\ m \in Letters(k)
        /\ \A j \in Slots \ {k} : down'[j] = down[j]
        /\ Letters(k)' \subseteq Letters(k)
    BY <1>1, ReadParts
  <1>3. /\ \A j \in Slots \ {k} : request'[j] = request[j]
        /\ request'[k] = request[k] \/ (Grants(m) /\ request'[k] = m.row)
    BY <1>1 DEF SlotTypes
  <1> HIDE DEF m
  <1>4. SlotKept(k) /\ Names(m)
    BY DEF SlotsKept, m
  <1>5. Linked(k)'
    BY <1>2 DEF Linked
  <1>6. NothingLeftOver(k)'
    BY <1>5 DEF NothingLeftOver
  <1>7. HandlerNamed(k)'
    BY <1>2, <1>3, <1>4 DEF SlotKept, HandlerNamed, Names
  <1>8. Told(k)' => Told(k)
    BY <1>2, <1>3 DEF Told, Grants
  <1>9. sess[k].stage \in {"decided", "registered"} => sess[k].row \in Rows
    BY <1>4, EnrollmentParts DEF SlotKept, HandlerNamed, SlotTypes
  <1>10. ApprovalKnown(k)'
    BY <1>4, <1>8, <1>9 DEF SlotKept, ApprovalKnown, Status, ApprovalsStay
  <1>. QED BY <1>2, <1>3, <1>6, <1>7, <1>10, OneSlot DEF SlotKept, Apart

(* The client's steps. *)
LEMMA ClientKeepsSlots ==
    ASSUME TypeOK, SlotTypes, SlotsKept, StateDirsKept, ApprovalsStay,
           NEW c \in Clients, ClientStep(c)
    PROVE  SlotsKept'
  <1>1. link[c] # None => Owner(link[c]) = c
    BY DEF StateDirsKept
  <1>2. CASE Start(c) \/ FinishSaving(c) \/ ClearState(c) \/ ClearCertificate(c)
    <2>1. UNCHANGED <<sess, request, down, link>>
      BY <1>2 DEF Start, FinishSaving, ClearState, ClearCertificate
    <2>. QED BY <2>1, NoSlot
  <1>3. ASSUME NEW k \in Slots, Enroll(c, k) PROVE SlotsKept'
    <2> DEFINE h == [Idle EXCEPT !.stage = "anonymous"]
    <2>1. h.stage = "anonymous" /\ Open(c, k, h)
      BY <1>3 DEF Idle, Enroll
    <2> HIDE DEF h
    <2>. QED BY <2>1, OpenKeeps
  <1>4. ASSUME NEW k \in Slots, Resume(c, k) PROVE SlotsKept'
    <2> DEFINE r == Lookup(disk[c].secret, disk[c].id)
               h == [Idle EXCEPT !.stage = "opened", !.row = r]
    <2>1. r # 0 /\ h.stage = "opened" /\ h.row = r /\ Open(c, k, h)
      BY <1>4 DEF Idle, Resume
    <2> HIDE DEF h
    <2>. QED BY <2>1, OpenKeeps
  <1>5. ASSUME NEW k \in Slots, Login(c, k) PROVE SlotsKept'
    <2> DEFINE r == disk[c].cert[1]
               h == [Idle EXCEPT !.stage = "admitted", !.row = r]
    <2>1. h.stage = "admitted" /\ h.row = r /\ Open(c, k, h) /\ pc[c] = "login"
      BY <1>5 DEF Idle, Login
    <2>2. disk[c].cert \in Rows \X Nat
      BY <2>1 DEF TypeOK, StateDirsKept
    <2>3. r # 0
      BY <2>2, EnrollmentParts
    <2> HIDE DEF h
    <2>. QED BY <2>1, <2>3, OpenKeeps
  <1>6. CASE ReceiveEnrolled(c)
    <2>1. /\ Incoming(c, "enrolled") /\ Consume(c) /\ UNCHANGED <<sess, link>>
          /\ \/ UNCHANGED request
             \/ /\ Received(c).n = 1
                /\ request' = [request EXCEPT ![link[c]] = Received(c).row]
      BY <1>6 DEF ReceiveEnrolled
    <2>2. Received(c).type = "enrolled"
      BY <2>1, ReadParts
    <2>. QED BY <2>1, <2>2, RequestKeeps DEF Names, Grants
  <1>7. CASE ReceiveApproved(c) \/ IgnoreApproved(c)
    <2>1. /\ Incoming(c, "approved") /\ Consume(c) /\ UNCHANGED <<sess, link>>
          /\ \/ UNCHANGED request
             \/ request' = [request EXCEPT ![link[c]] = Received(c).row]
      BY <1>7 DEF ReceiveApproved, IgnoreApproved, client
    <2>2. Received(c).type = "approved"
      BY <2>1, ReadParts
    <2>. QED BY <2>1, <2>2, RequestKeeps DEF Names, Grants
  <1>8. CASE ReceiveCertificate(c) \/ ReceiveRefusal(c) \/ ReceiveClose(c) \/ ApprovalTimeout(c)
    <2>1. Unlink(c) /\ UNCHANGED sess
      BY <1>8 DEF ReceiveCertificate, ReceiveRefusal, ReceiveClose, Reconnect, ApprovalTimeout
    <2>. QED BY <1>1, <2>1, UnlinkKeeps
  <1>. QED BY <1>2, <1>3, <1>4, <1>5, <1>6, <1>7, <1>8 DEF ClientStep

(* A message a handler sends while it goes on; it tells of an approval     *)
(* only if the row is approved or it remembers it.                         *)
Tells(k) ==
    /\ Linked(k) \/ down'[k] = down[k]
    /\ \A m \in Letters(k)' :
           \/ m \in Letters(k)
           \/ m.type \in {"rejected", "error", "close"}
           \/ /\ m.type = "approved" /\ m.row = sess[k].row
              /\ sess'[k].stage \in {"decided", "registered"} => Status(k) = "approved"

(* What the loop does not remember was not told. *)
Remembers(k) ==
    sess'[k].stage = "loop" =>
        \/ sess'[k].approved \/ sess'[k].blind
        \/ /\ sess[k].stage = "registered" /\ Status(k) # "approved"
           /\ Letters(k)' \subseteq Letters(k)
        \/ /\ sess[k].stage = "loop" /\ ~sess[k].approved /\ ~sess[k].blind
           /\ \A m \in Letters(k)' : m \in Letters(k) \/ ~Grants(m)

(* A handler goes on: it names the same service, and what it tells the     *)
(* client of an approval it knows or has just read.                        *)
LEMMA HandlerMoves ==
    ASSUME SlotTypes, SlotsKept, ApprovalsStay, NEW k \in Slots, UNCHANGED link, Apart(k),
           sess[k].stage \notin {"unused", "anonymous"}, sess'[k].row = sess[k].row,
           sess'[k].stage \notin {"unused", "anonymous", "opened"},
           sess'[k].stage \in {"decided", "registered"} =>
               sess[k].stage \in {"opened", "decided", "registered"},
           request'[k] \in {0, request[k]}, Tells(k), Remembers(k)
    PROVE  SlotsKept'
  <1>1. SlotKept(k)
    BY DEF SlotsKept
  <1>2. Linked(k)' <=> Linked(k)
    BY DEF Linked
  <1>3. NothingLeftOver(k)'
    BY <1>1, <1>2 DEF SlotKept, NothingLeftOver, Tells
  <1>4. sess[k].row # 0 /\ sess[k].row \in Rows
    BY <1>1, EnrollmentParts DEF SlotKept, HandlerNamed, SlotTypes
  <1>5. HandlerNamed(k)'
    <2>1. \A m \in Letters(k)' : Names(m) => m.row = sess[k].row
      BY <1>1 DEF SlotKept, HandlerNamed, Names, Tells
    <2>2. \A m \in Letters(k)' : Names(m) \/ m.type = "certificate" => m.row # 0
      BY <1>1, <1>4 DEF SlotKept, HandlerNamed, Names, Tells
    <2>3. request'[k] \in {0, sess[k].row}
      BY <1>1 DEF SlotKept, HandlerNamed
    <2>. QED BY <1>4, <2>1, <2>2, <2>3 DEF HandlerNamed, Names
  <1>6. sess'[k].stage \in {"decided", "registered"} /\ Told(k)' => Status(k)' = "approved"
    <2> SUFFICES ASSUME sess'[k].stage \in {"decided", "registered"}, Told(k)'
                 PROVE  Status(k) = "approved"
      BY <1>4 DEF Status, ApprovalsStay
    <2>1. CASE Told(k)
      <3>1. sess[k].stage # "opened"
        BY <1>1, <2>1 DEF SlotKept, HandlerNamed, Told, Grants, Names
      <3>. QED BY <1>1, <2>1, <3>1 DEF SlotKept, ApprovalKnown
    <2>2. CASE ~Told(k)
      BY <2>2 DEF Told, Grants, Tells
    <2>. QED BY <2>1, <2>2
  <1>7. sess'[k].stage = "loop" /\ Told(k)' => sess'[k].approved \/ sess'[k].blind
    <2> SUFFICES ASSUME sess'[k].stage = "loop", Told(k)', ~sess'[k].approved,
                        ~sess'[k].blind
                 PROVE  FALSE
      OBVIOUS
    <2>1. Told(k)
      BY DEF Told, Grants, Remembers
    <2>. QED BY <1>1, <2>1 DEF SlotKept, ApprovalKnown, Remembers
  <1>8. ApprovalKnown(k)'
    BY <1>6, <1>7 DEF ApprovalKnown
  <1>. QED BY <1>3, <1>5, <1>8, OneSlot DEF SlotKept

(* do_enroll: the first message names the new row, and grants a            *)
(* certificate only if the row was inserted as approved.                   *)
LEMMA EnrollServiceKeeps ==
    ASSUME SlotTypes, SlotsKept, ApprovalsStay, RowTypes, NEW k \in Slots, EnrollService(k)
    PROVE  SlotsKept'
  <1> DEFINE r == CHOOSE x \in Rows : /\ rows[x].status = "none"
                                      /\ \A y \in 1..(x - 1) : rows[y].status # "none"
             h == [sess[k] EXCEPT !.stage = "decided", !.row = r]
             a == Msg("approved", r, 0)
             e0 == Msg("enrolled", r, 0)
             e1 == Msg("enrolled", r, 1)
             N(s) == [status |-> s, active |-> TRUE, secret |-> r]
  <1>1. /\ sess[k].stage = "anonymous" /\ UNCHANGED <<link, request>> /\ SentOn(k, h)
        /\ \E x \in Rows : rows[x].status = "none"
        /\ \/ Send(k, <<e1, a>>) /\ rows' = [rows EXCEPT ![r] = N("approved")]
           \/ Send(k, <<e0>>) /\ rows' = [rows EXCEPT ![r] = N("pending")]
    BY DEF EnrollService, client
  <1>2. r \in Rows /\ r # 0 /\ r \in 0..MaxRows
    BY <1>1, FirstFree, EnrollmentParts
  <1>3. /\ sess[k] \in Session
    BY DEF SlotTypes
  <1> HIDE DEF r
  <1>4. /\ h.stage = "decided" /\ h.row = r
        /\ rows' = [rows EXCEPT ![r] = N("approved")] => rows'[r].status = "approved"
    BY <1>2, <1>3 DEF RowTypes
  <1>5. /\ a \in Message /\ a.type = "approved" /\ a.row = r
        /\ e1 \in Message /\ e1.type = "enrolled" /\ e1.row = r
        /\ e0 \in Message /\ e0.type = "enrolled" /\ e0.row = r /\ e0.n = 0
    BY <1>2, MsgParts
  <1> HIDE DEF h, a, e0, e1, N
  <1>6. /\ \A j \in Slots \ {k} : down'[j] = down[j]
        /\ Linked(k) \/ down'[k] = down[k]
        /\ \A m \in Letters(k)' :
               m \in Letters(k) \/ (m.row = r /\ m.type \in {"approved", "enrolled"})
        /\ rows'[r].status = "approved" \/ \A m \in Letters(k)' : m \in Letters(k) \/ ~Grants(m)
    <2>1. CASE Send(k, <<e1, a>>) /\ rows' = [rows EXCEPT ![r] = N("approved")]
      <3>1. /\ \A j \in Slots \ {k} : down'[j] = down[j]
            /\ Linked(k) \/ down'[k] = down[k]
            /\ \A m \in Letters(k)' : m \in Letters(k) \/ m = e1 \/ m = a
        BY <1>5, <2>1, SendTwo
      <3>. QED BY <1>4, <1>5, <2>1, <3>1
    <2>2. CASE Send(k, <<e0>>)
      <3>1. /\ \A j \in Slots \ {k} : down'[j] = down[j]
            /\ Linked(k) \/ down'[k] = down[k]
            /\ \A m \in Letters(k)' : m \in Letters(k) \/ m = e0
        BY <1>5, <2>2, SendOne
      <3>. QED BY <1>5, <3>1 DEF Grants
    <2>. QED BY <1>1, <2>1, <2>2
  <1>7. SlotKept(k) /\ request[k] = 0 /\ \A m \in Letters(k) : ~Names(m)
    BY <1>1 DEF SlotsKept, SlotKept, HandlerNamed
  <1>8. CASE sess' = [sess EXCEPT ![k] = h]
    <2>1. sess'[k] = h /\ \A j \in Slots \ {k} : sess'[j] = sess[j]
      BY <1>8 DEF SlotTypes
    <2>2. NothingLeftOver(k)'
      BY <1>1, <1>6, <1>7 DEF SlotKept, NothingLeftOver, Linked
    <2>3. HandlerNamed(k)'
      BY <1>1, <1>2, <1>4, <1>6, <1>7, <2>1 DEF SlotKept, HandlerNamed, Names
    <2>4. Told(k)' => rows'[r].status = "approved"
      BY <1>1, <1>6, <1>7 DEF Told, Grants, Names
    <2>5. ApprovalKnown(k)'
      BY <1>4, <2>1, <2>4 DEF ApprovalKnown, Status
    <2>. QED BY <1>1, <1>6, <2>1, <2>2, <2>3, <2>5, OneSlot DEF SlotKept, Apart
  <1>9. CASE ~Linked(k) /\ sess' = [sess EXCEPT ![k] = Idle]
    <2>1. /\ sess'[k] = Idle /\ \A j \in Slots \ {k} : sess'[j] = sess[j]
          /\ down'[k] = down[k]
      BY <1>6, <1>9 DEF SlotTypes
    <2>2. Letters(k)' = Letters(k)
      BY <2>1 DEF Letters
    <2>3. SlotKept(k)'
      BY <1>1, <1>7, <2>1, <2>2, SlotLeft DEF LastWords
    <2>. QED BY <1>1, <1>6, <2>1, <2>3, OneSlot DEF Apart
  <1>. QED BY <1>1, <1>8, <1>9 DEF SentOn

LEMMA DecideKeeps ==
    ASSUME SlotTypes, SlotsKept, ApprovalsStay, NEW k \in Slots, Decide(k)
    PROVE  SlotsKept'
  <1>1. /\ sess[k].stage = "opened" /\ UNCHANGED <<link, request>>
        /\ sess \in [Slots -> Session]
    BY DEF Decide, client, SlotTypes
  <1>2. SlotKept(k) /\ request[k] = 0 /\ sess[k].row \in 0..MaxRows
    BY <1>1 DEF SlotsKept, SlotKept, HandlerNamed
  <1> DEFINE h == [sess[k] EXCEPT !.stage = "decided"]
             a == Msg("approved", sess[k].row, 0)
             b == Msg("rejected", sess[k].row, 0)
  <1>3. h.stage = "decided" /\ h.row = sess[k].row
    BY <1>1
  <1>4. /\ a \in Message /\ a.type = "approved" /\ a.row = sess[k].row
        /\ b \in Message /\ b.type = "rejected"
    BY <1>2, MsgParts
  <1>5. \/ Status(k) = "approved" /\ Send(k, <<a>>) /\ SentOn(k, h)
        \/ Send(k, <<b, Close>>) /\ sess' = [sess EXCEPT ![k] = Idle]
        \/ sess' = [sess EXCEPT ![k] = h] /\ UNCHANGED down
    <2>1. [sess EXCEPT ![k].stage = "decided"] = [sess EXCEPT ![k] = h]
      BY <1>1
    <2>. QED BY <2>1 DEF Decide, Approved, Rejected
  <1> HIDE DEF h, a, b
  <1>6. CASE Status(k) = "approved" /\ Send(k, <<a>>) /\ SentOn(k, h)
    <2>1. /\ \A j \in Slots \ {k} : down'[j] = down[j]
          /\ Linked(k) \/ down'[k] = down[k]
          /\ \A m \in Letters(k)' : m \in Letters(k) \/ m = a
      BY <1>4, <1>6, SendOne
    <2>2. CASE sess' = [sess EXCEPT ![k] = h]
      <3>1. sess'[k] = h /\ \A j \in Slots \ {k} : sess'[j] = sess[j]
        BY <1>1, <2>2
      <3>2. Apart(k) /\ Tells(k) /\ Remembers(k)
        BY <1>1, <1>3, <1>4, <1>6, <2>1, <3>1 DEF Apart, Tells, Remembers
      <3>. QED BY <1>1, <1>3, <1>4, <1>6, <2>1, <3>1, <3>2, HandlerMoves
    <2>3. CASE ~Linked(k) /\ sess' = [sess EXCEPT ![k] = Idle]
      <3>1. /\ sess'[k] = Idle /\ \A j \in Slots \ {k} : sess'[j] = sess[j]
            /\ down'[k] = down[k] /\ Letters(k)' = Letters(k)
        BY <1>1, <2>1, <2>3 DEF Letters
      <3>2. SlotKept(k)'
        BY <1>1, <1>2, <3>1, SlotLeft DEF LastWords
      <3>. QED BY <1>1, <2>1, <3>1, <3>2, OneSlot DEF Apart
    <2>. QED BY <1>6, <2>2, <2>3 DEF SentOn
  <1>7. CASE Send(k, <<b, Close>>) /\ sess' = [sess EXCEPT ![k] = Idle]
    <2>1. /\ \A j \in Slots \ {k} : down'[j] = down[j]
          /\ Linked(k) \/ down'[k] = down[k]
          /\ \A m \in Letters(k)' : m \in Letters(k) \/ m = b \/ m = Close
      BY <1>4, <1>7, CloseParts, SendTwo
    <2>2. sess'[k] = Idle /\ \A j \in Slots \ {k} : sess'[j] = sess[j]
      BY <1>1, <1>7
    <2>3. LastWords(k)
      BY <1>4, <2>1, CloseParts DEF LastWords, Names
    <2>4. SlotKept(k)'
      BY <1>1, <1>2, <2>2, <2>3, SlotLeft
    <2>. QED BY <1>1, <2>1, <2>2, <2>4, OneSlot DEF Apart
  <1>8. CASE sess' = [sess EXCEPT ![k] = h] /\ UNCHANGED down
    <2>1. /\ sess'[k] = h /\ \A j \in Slots \ {k} : sess'[j] = sess[j]
          /\ down'[k] = down[k] /\ Letters(k)' = Letters(k)
      BY <1>1, <1>8 DEF Letters
    <2>2. Apart(k) /\ Tells(k) /\ Remembers(k)
      BY <1>1, <1>3, <1>8, <2>1 DEF Apart, Tells, Remembers
    <2>. QED BY <1>1, <1>3, <1>8, <2>1, <2>2, HandlerMoves
  <1>. QED BY <1>5, <1>6, <1>7, <1>8

LEMMA SetupKeeps ==
    ASSUME SlotTypes, SlotsKept, ApprovalsStay, NEW k \in Slots,
           Setup(k) \/ Recheck(k) \/ RecheckFails(k) \/ RecordCertificate(k)
    PROVE  SlotsKept'
  <1>1. /\ UNCHANGED <<link, request, down>> /\ Letters(k)' = Letters(k)
        /\ sess \in [Slots -> Session]
    BY DEF Setup, Recheck, RecheckFails, RecordCertificate, client, SlotTypes, Letters
  <1>2. CASE Setup(k)
    <2>1. /\ sess'[k].row = sess[k].row /\ \A j \in Slots \ {k} : sess'[j] = sess[j]
          /\ \/ sess[k].stage = "decided" /\ sess'[k].stage = "registered"
             \/ sess[k].stage = "admitted" /\ sess'[k].stage = "online"
      BY <1>1, <1>2 DEF Setup
    <2>2. Apart(k) /\ Tells(k) /\ Remembers(k)
      BY <1>1, <2>1 DEF Apart, Tells, Remembers
    <2>. QED BY <1>1, <2>1, <2>2, HandlerMoves
  <1>3. CASE Recheck(k)
    <2>1. /\ sess'[k].row = sess[k].row /\ \A j \in Slots \ {k} : sess'[j] = sess[j]
          /\ sess[k].stage = "registered" /\ sess'[k].stage = "loop"
      BY <1>1, <1>3 DEF Recheck
    <2>2. sess'[k].approved = (Status(k) = "approved")
      BY <1>1, <1>3 DEF Recheck
    <2>3. sess'[k].approved \/ Status(k) # "approved"
      BY <2>2
    <2>4. Apart(k) /\ Tells(k) /\ Remembers(k)
      BY <1>1, <2>1, <2>3 DEF Apart, Tells, Remembers
    <2>. QED BY <1>1, <2>1, <2>3, <2>4, HandlerMoves
  <1>4. CASE RecheckFails(k)
    <2>1. /\ sess'[k].row = sess[k].row /\ \A j \in Slots \ {k} : sess'[j] = sess[j]
          /\ sess[k].stage = "registered" /\ sess'[k].stage = "loop"
      BY <1>1, <1>4 DEF RecheckFails
    <2>2. sess'[k].blind
      BY <1>1, <1>4 DEF RecheckFails
    <2>3. Apart(k) /\ Tells(k) /\ Remembers(k)
      BY <1>1, <2>1, <2>2 DEF Apart, Tells, Remembers
    <2>. QED BY <1>1, <2>1, <2>3, HandlerMoves
  <1>5. CASE RecordCertificate(k)
    <2>1. /\ sess'[k].row = sess[k].row /\ \A j \in Slots \ {k} : sess'[j] = sess[j]
          /\ sess[k].stage = "signing" /\ sess'[k].stage = "recorded"
      BY <1>1, <1>5 DEF RecordCertificate
    <2>2. Apart(k) /\ Tells(k) /\ Remembers(k)
      BY <1>1, <2>1 DEF Apart, Tells, Remembers
    <2>. QED BY <1>1, <2>1, <2>2, HandlerMoves
  <1>. QED BY <1>2, <1>3, <1>5, <1>4

(* handle_enrolled_loop. *)
LEMMA LoopKeeps ==
    ASSUME SlotTypes, SlotsKept, ApprovalsStay, NEW k \in Slots,
           ForwardPush(k) \/ Poll(k) \/ RequestCertificate(k)
    PROVE  SlotsKept'
  <1>1. /\ UNCHANGED link /\ sess[k].stage = "loop"
        /\ sess \in [Slots -> Session]
        /\ request \in [Slots -> 0..MaxRows]
        /\ sess[k].row \in 0..MaxRows
    BY DEF ForwardPush, Poll, RequestCertificate, client, SlotTypes
  <1> DEFINE a == Msg("approved", sess[k].row, 0)
             b == Msg("rejected", sess[k].row, 0)
             e == Msg("error", 0, 0)
  <1>2. /\ a \in Message /\ a.type = "approved" /\ a.row = sess[k].row
        /\ b \in Message /\ b.type = "rejected"
        /\ e \in Message /\ e.type = "error"
    BY <1>1, MsgParts, EnrollmentParts
  <1>3. \/ /\ Send(k, <<a>>) /\ sess' = [sess EXCEPT ![k].approved = TRUE]
           /\ UNCHANGED request
        \/ Leave(k) /\ (Send(k, <<b, Close>>) \/ Send(k, <<e, Close>>))
        \/ /\ ~sess[k].approved /\ Send(k, <<e>>)
           /\ request' = [request EXCEPT ![k] = 0] /\ UNCHANGED sess
        \/ sess' = [sess EXCEPT ![k].stage = "signing"] /\ UNCHANGED <<request, down>>
    BY DEF ForwardPush, Poll, RequestCertificate, Approved, Rejected
  <1> HIDE DEF a, b, e
  <1>4. CASE /\ Send(k, <<a>>) /\ sess' = [sess EXCEPT ![k].approved = TRUE]
             /\ UNCHANGED request
    <2>1. /\ \A j \in Slots \ {k} : down'[j] = down[j]
          /\ Linked(k) \/ down'[k] = down[k]
          /\ \A m \in Letters(k)' : m \in Letters(k) \/ m = a
      BY <1>2, <1>4, SendOne
    <2>2. /\ sess'[k].row = sess[k].row /\ sess'[k].stage = "loop"
          /\ \A j \in Slots \ {k} : sess'[j] = sess[j]
      BY <1>1, <1>4
    <2>3. sess'[k].approved
      BY <1>1, <1>4
    <2>4. Apart(k) /\ Tells(k) /\ Remembers(k)
      BY <1>1, <1>2, <1>4, <2>1, <2>2, <2>3 DEF Apart, Tells, Remembers
    <2>. QED BY <1>1, <1>2, <1>4, <2>1, <2>2, <2>3, <2>4, HandlerMoves
  <1>5. CASE Leave(k) /\ (Send(k, <<b, Close>>) \/ Send(k, <<e, Close>>))
    <2>1. /\ \A j \in Slots \ {k} : down'[j] = down[j]
          /\ Linked(k) \/ down'[k] = down[k]
          /\ \A m \in Letters(k)' : m \in Letters(k) \/ m = b \/ m = e \/ m = Close
      BY <1>2, <1>5, CloseParts, SendTwo
    <2>2. LastWords(k)
      BY <1>1, <1>2, <1>5, <2>1, CloseParts DEF LastWords, Names
    <2>. QED BY <1>1, <1>2, <1>5, <2>1, CloseParts, <2>2, LeaveKeeps
  <1>6. CASE /\ ~sess[k].approved /\ Send(k, <<e>>)
             /\ request' = [request EXCEPT ![k] = 0] /\ UNCHANGED sess
    <2>1. /\ \A j \in Slots \ {k} : down'[j] = down[j]
          /\ Linked(k) \/ down'[k] = down[k]
          /\ \A m \in Letters(k)' : m \in Letters(k) \/ m = e
      BY <1>2, <1>6, SendOne
    <2>2. request'[k] = 0 /\ \A j \in Slots \ {k} : request'[j] = request[j]
      BY <1>1, <1>6
    <2>3. Apart(k) /\ Tells(k)
      BY <1>1, <1>2, <1>6, <2>1, <2>2 DEF Apart, Tells
    <2>4. Remembers(k)
      BY <1>1, <1>2, <1>6, <2>1 DEF Remembers, Grants
    <2>. QED BY <1>1, <1>2, <1>6, <2>1, <2>2, <2>3, <2>4, HandlerMoves
  <1>7. CASE sess' = [sess EXCEPT ![k].stage = "signing"] /\ UNCHANGED <<request, down>>
    <2>1. /\ sess'[k].row = sess[k].row /\ sess'[k].stage = "signing"
          /\ \A j \in Slots \ {k} : sess'[j] = sess[j]
          /\ Letters(k)' = Letters(k)
      BY <1>1, <1>7 DEF Letters
    <2>2. Apart(k) /\ Tells(k) /\ Remembers(k)
      BY <1>1, <1>7, <2>1 DEF Apart, Tells, Remembers
    <2>. QED BY <1>1, <1>7, <2>1, <2>2, HandlerMoves
  <1>. QED BY <1>3, <1>4, <1>5, <1>6, <1>7

LEMMA EndingKeeps ==
    ASSUME SlotTypes, SlotsKept, ApprovalsStay, NEW k \in Slots,
           InvalidateSecret(k) \/ SigningFails(k) \/ Superseded(k) \/ Hangup(k)
    PROVE  SlotsKept'
  <1>1. UNCHANGED link /\ Leave(k)
    BY DEF InvalidateSecret, SigningFails, Superseded, Hangup, client
  <1>2. CASE InvalidateSecret(k)
    <2> DEFINE z == Msg("certificate", sess[k].row, sess[k].serial)
    <2>1. Send(k, <<z, Close>>) /\ sess[k].stage = "recorded"
      BY <1>2 DEF InvalidateSecret
    <2>2. sess[k].row # 0 /\ sess[k].row \in 0..MaxRows /\ sess[k].serial \in Nat
      BY <2>1 DEF SlotsKept, SlotKept, HandlerNamed, SlotTypes
    <2>3. z \in Message /\ z.type = "certificate" /\ z.row # 0
      BY <2>2, MsgParts
    <2> HIDE DEF z
    <2>4. /\ \A j \in Slots \ {k} : down'[j] = down[j]
          /\ Linked(k) \/ down'[k] = down[k]
          /\ \A m \in Letters(k)' : m \in Letters(k) \/ m = z \/ m = Close
      BY <2>1, <2>3, CloseParts, SendTwo
    <2>5. LastWords(k)
      BY <1>1, <2>3, <2>4, CloseParts DEF LastWords, Names
    <2>. QED BY <1>1, <2>3, <2>4, CloseParts, <2>5, LeaveKeeps
  <1>3. CASE Superseded(k)
    <2>1. /\ \A j \in Slots \ {k} : down'[j] = down[j]
          /\ Linked(k) \/ down'[k] = down[k]
          /\ \A m \in Letters(k)' : m \in Letters(k) \/ m = Close
      BY <1>3, CloseParts, SendOne DEF Superseded
    <2>2. LastWords(k)
      BY <1>1, <2>1, CloseParts DEF LastWords, Names
    <2>. QED BY <1>1, <2>1, CloseParts, <2>2, LeaveKeeps
  <1>4. CASE SigningFails(k)
    <2> DEFINE e == Msg("error", 0, 0)
    <2>1. Send(k, <<e, Close>>)
      BY <1>4 DEF SigningFails
    <2>2. e \in Message /\ e.type = "error"
      BY MsgParts, EnrollmentParts
    <2> HIDE DEF e
    <2>3. /\ \A j \in Slots \ {k} : down'[j] = down[j]
          /\ Linked(k) \/ down'[k] = down[k]
          /\ \A m \in Letters(k)' : m \in Letters(k) \/ m = e \/ m = Close
      BY <2>1, <2>2, CloseParts, SendTwo
    <2>4. LastWords(k)
      BY <1>1, <2>2, <2>3, CloseParts DEF LastWords, Names
    <2>. QED BY <1>1, <2>3, <2>4, LeaveKeeps
  <1>5. CASE Hangup(k)
    <2>1. UNCHANGED down
      BY <1>5 DEF Hangup
    <2>2. Letters(k)' = Letters(k)
      BY <2>1 DEF Letters
    <2>3. LastWords(k)
      BY <1>1, <2>1, <2>2 DEF LastWords
    <2>. QED BY <1>1, <2>1, <2>2, <2>3, LeaveKeeps
  <1>. QED BY <1>2, <1>3, <1>5, <1>4

LEMMA SlotSteps ==
    ASSUME TypeOK, SlotsKept, StateDirsKept, ApprovalsStay, Next
    PROVE  SlotsKept'
  <1>1. SlotTypes /\ RowTypes
    BY DEF TypeOK, SlotTypes, RowTypes
  <1>2. ASSUME NEW k \in Slots, Handler(k) \/ RecheckFails(k) \/ SigningFails(k)
        PROVE  SlotsKept'
    BY <1>1, <1>2, EnrollServiceKeeps, DecideKeeps, SetupKeeps, LoopKeeps, EndingKeeps
    DEF Handler
  <1>3. ASSUME NEW r \in Rows, AfterCommit(r) PROVE UNCHANGED <<sess, request, down, link>>
    BY <1>3 DEF AfterCommit, PushDecision, ForceDisconnect, client
  <1>4. Operator => UNCHANGED <<sess, request, down, link>>
    BY DEF Operator, ApproveService, RejectService, DeactivateService, CheckMerge, MergeService,
       client
  <1>5. ASSUME NEW c \in Clients, Exit(c) \/ LoseConnection(c) PROVE SlotsKept'
    <2>1. Unlink(c) /\ UNCHANGED sess
      BY <1>5 DEF Exit, LoseConnection, Reconnect
    <2>. QED BY <1>1, <2>1, UnlinkKeeps DEF StateDirsKept
  <1>6. ASSUME NEW c \in Clients, CertificateExpires(c)
        PROVE  UNCHANGED <<sess, request, down, link>>
    BY <1>6 DEF CertificateExpires, client
  <1>7. CASE ControllerRestart
    <2> SUFFICES ASSUME NEW k \in Slots PROVE SlotKept(k)'
      BY DEF SlotsKept
    <2>1. /\ sess'[k] = Idle /\ request'[k] = 0 /\ UNCHANGED link
          /\ down'[k] = IF Linked(k) THEN <<Close>> ELSE <<>>
      BY <1>7 DEF ControllerRestart, client
    <2>2. \A m \in Letters(k)' : m = Close
      <3>1. CASE Linked(k)
        BY <2>1, <3>1 DEF Letters
      <3>2. CASE ~Linked(k)
        BY <2>1, <3>2 DEF Letters
      <3>. QED BY <3>1, <3>2
    <2>3. sess'[k].stage = "unused"
      BY <2>1 DEF Idle
    <2>4. NothingLeftOver(k)'
      BY <2>1 DEF NothingLeftOver, Linked
    <2>5. HandlerNamed(k)' /\ ApprovalKnown(k)'
      BY <2>2, <2>3, CloseParts DEF HandlerNamed, ApprovalKnown, Names
    <2>. QED BY <2>4, <2>5 DEF SlotKept
  <1>. QED
    BY <1>1, <1>2, <1>3, <1>4, <1>5, <1>6, <1>7, ClientKeepsSlots, NoSlot DEF Next, Faults

-----------------------------------------------------------------------------
(* The processes and their state directories.                              *)

Dir == [id : 0..MaxRows, secret : 0..MaxRows, cert : (Rows \X Nat) \cup {NoCert}]

DirTypes ==
    /\ disk \in [Clients -> Dir]
    /\ pc \in [Clients -> Places]
    /\ link \in [Clients -> Slots \cup {None}]

(* A process of c at p with connection l finds in its state directory e    *)
(* what it needs there, and what it needs to go on after a restart.        *)
Fits(c, e, p, l) ==
    /\ l # None => Owner(l) = c
    /\ p \in {"approval", "request"} => e.secret # 0
    /\ p \in {"saving", "login", "online"} => e.cert # NoCert
    /\ p = "clearing" => e.id = 0
    /\ e.id # 0 => e.secret # 0 \/ e.cert # NoCert

DirsFit == \A c \in Clients : Fits(c, disk[c], pc[c], link[c])

LEMMA DirsFitParts == DirsFit <=> StateDirsKept /\ NeverStranded
  BY DEF DirsFit, Fits, StateDirsKept, NeverStranded

LEMMA OneDir ==
    ASSUME DirTypes, DirsFit, NEW c \in Clients,
           NEW e \in Dir, NEW p \in Places, NEW l \in Slots \cup {None}, Fits(c, e, p, l),
           disk' = [disk EXCEPT ![c] = e], pc' = [pc EXCEPT ![c] = p],
           link' = [link EXCEPT ![c] = l]
    PROVE  DirTypes' /\ DirsFit'
  <1>1. DirTypes'
    BY DEF DirTypes
  <1>2. /\ disk'[c] = e /\ pc'[c] = p /\ link'[c] = l
        /\ \A d \in Clients \ {c} : disk'[d] = disk[d] /\ pc'[d] = pc[d] /\ link'[d] = link[d]
    BY DEF DirTypes
  <1>3. ASSUME NEW d \in Clients PROVE Fits(d, disk'[d], pc'[d], link'[d])
    <2>1. CASE d = c
      BY <1>2, <2>1
    <2>2. CASE d # c
      BY <1>2, <2>2 DEF DirsFit
    <2>. QED BY <2>1, <2>2
  <1>. QED BY <1>1, <1>3 DEF DirsFit

(* The process begins to talk to the controller. *)
LEMMA OpenFits ==
    ASSUME DirTypes, DirsFit, NEW c \in Clients, NEW k \in Slots, NEW h, Open(c, k, h),
           NEW p \in Places, pc' = [pc EXCEPT ![c] = p], UNCHANGED disk,
           p \in {"approval", "request"} => disk[c].secret # 0,
           p \in {"saving", "login", "online"} => disk[c].cert # NoCert,
           p # "clearing"
    PROVE  DirTypes' /\ DirsFit'
  <1>1. link' = [link EXCEPT ![c] = k] /\ Owner(k) = c
    BY DEF Open
  <1>2. disk[c] \in Dir /\ disk' = [disk EXCEPT ![c] = disk[c]]
    BY DEF DirTypes
  <1>3. Fits(c, disk[c], p, k)
    BY <1>1 DEF DirsFit, Fits
  <1>. QED BY <1>1, <1>2, <1>3, OneDir

(* The process lets go of its connection. *)
LEMMA UnlinkFits ==
    ASSUME DirTypes, DirsFit, NEW c \in Clients, Unlink(c),
           NEW p \in Places, pc' = [pc EXCEPT ![c] = p], UNCHANGED disk,
           p \in {"down", "start"} \/ (p = "login" /\ pc[c] = "online")
    PROVE  DirTypes' /\ DirsFit'
  <1>1. link' = [link EXCEPT ![c] = None]
    BY DEF Unlink
  <1>2. disk[c] \in Dir /\ disk' = [disk EXCEPT ![c] = disk[c]]
    BY DEF DirTypes
  <1>3. Fits(c, disk[c], p, None)
    BY DEF DirsFit, Fits
  <1>. QED BY <1>1, <1>2, <1>3, OneDir

(* The process writes its state directory. *)
LEMMA WriteFits ==
    ASSUME DirTypes, DirsFit, NEW c \in Clients, NEW e \in Dir, NEW p \in Places,
           disk' = [disk EXCEPT ![c] = e], pc' = [pc EXCEPT ![c] = p], UNCHANGED link,
           Fits(c, e, p, None)
    PROVE  DirTypes' /\ DirsFit'
  <1>1. link' = [link EXCEPT ![c] = link[c]] /\ link[c] \in Slots \cup {None}
    BY DEF DirTypes
  <1>2. Fits(c, e, p, link[c])
    BY DEF DirsFit, Fits
  <1>. QED BY <1>1, <1>2, OneDir

LEMMA ClientKeepsDirs ==
    ASSUME TypeOK, DirTypes, SlotTypes, SlotsKept, StateDirsKept, DirsFit,
           NEW c \in Clients, ClientStep(c)
    PROVE  DirTypes' /\ DirsFit'
  <1>1. /\ disk[c] \in Dir /\ Fits(c, disk[c], pc[c], link[c])
        /\ disk \in [Clients -> Dir] /\ pc \in [Clients -> Places]
    BY DEF DirTypes, DirsFit
  <1>2. 0 \in 0..MaxRows /\ NoCert \in (Rows \X Nat) \cup {NoCert}
    BY EnrollmentParts
  <1>3. CASE Start(c)
    <2> DEFINE p == IF IsCertified(c) THEN "login" ELSE "start"
    <2>1. p \in Places /\ pc' = [pc EXCEPT ![c] = p] /\ UNCHANGED <<disk, link>>
      BY <1>3 DEF Start, Places
    <2>2. Fits(c, disk[c], p, None) /\ disk' = [disk EXCEPT ![c] = disk[c]]
      BY <1>1, <2>1 DEF Fits, IsCertified
    <2> HIDE DEF p
    <2>. QED BY <1>1, <2>1, <2>2, WriteFits
  <1>4. ASSUME NEW k \in Slots, Enroll(c, k) \/ Resume(c, k) \/ Login(c, k)
        PROVE  DirTypes' /\ DirsFit'
    <2>1. CASE Enroll(c, k)
      BY <2>1, OpenFits DEF Enroll, Places
    <2>2. CASE Resume(c, k)
      BY <2>2, OpenFits DEF Resume, Places
    <2>3. CASE Login(c, k)
      BY <1>1, <2>3, OpenFits DEF Login, Places, Fits
    <2>. QED BY <1>4, <2>1, <2>2, <2>3
  <1>5. CASE ReceiveEnrolled(c)
    <2> DEFINE m == Received(c)
               e == [disk[c] EXCEPT !.id = m.row, !.secret = m.row]
               p == IF m.n = 1 THEN "request" ELSE "approval"
    <2>1. /\ Incoming(c, "enrolled") /\ pc' = [pc EXCEPT ![c] = p] /\ UNCHANGED link
          /\ disk' = [disk EXCEPT ![c].id = m.row, ![c].secret = m.row]
      BY <1>5 DEF ReceiveEnrolled
    <2>2. m \in Message /\ m.type = "enrolled" /\ link[c] \in Slots /\ m \in Letters(link[c])
      BY <2>1, ReadParts
    <2>3. m.row # 0
      BY <2>2 DEF SlotsKept, SlotKept, HandlerNamed, Names
    <2>4. m.row \in 0..MaxRows
      BY <2>2 DEF Message
    <2> HIDE DEF m
    <2>5. e \in Dir /\ e.secret = m.row /\ disk' = [disk EXCEPT ![c] = e]
      BY <1>1, <2>1, <2>4 DEF Dir
    <2>6. p \in Places /\ p \in {"request", "approval"}
      BY DEF Places
    <2> HIDE DEF e, p
    <2>7. Fits(c, e, p, None)
      BY <2>3, <2>5, <2>6 DEF Fits
    <2>. QED BY <2>1, <2>5, <2>6, <2>7, WriteFits
  <1>6. CASE ReceiveApproved(c)
    <2> DEFINE m == Received(c)
               e == [disk[c] EXCEPT !.id = m.row]
    <2>1. /\ Incoming(c, "approved") /\ pc' = [pc EXCEPT ![c] = "request"] /\ UNCHANGED link
          /\ disk' = [disk EXCEPT ![c].id = m.row] /\ pc[c] = "approval"
      BY <1>6 DEF ReceiveApproved
    <2>2. m.row \in 0..MaxRows
      BY <2>1, ReadParts DEF Message
    <2> HIDE DEF m
    <2>3. e \in Dir /\ e.secret = disk[c].secret /\ disk' = [disk EXCEPT ![c] = e]
      BY <1>1, <2>1, <2>2 DEF Dir
    <2> HIDE DEF e
    <2>4. Fits(c, e, "request", None) /\ "request" \in Places
      BY <1>1, <2>1, <2>3 DEF Fits, Places
    <2>. QED BY <2>1, <2>3, <2>4, WriteFits
  <1>7. CASE IgnoreApproved(c)
    BY <1>7 DEF IgnoreApproved, client, DirTypes, DirsFit
  <1>8. CASE ReceiveCertificate(c)
    <2> DEFINE m == Received(c)
               e == [disk[c] EXCEPT !.cert = <<m.row, m.n>>]
    <2>1. /\ Incoming(c, "certificate") /\ pc' = [pc EXCEPT ![c] = "saving"] /\ Unlink(c)
          /\ disk' = [disk EXCEPT ![c].cert = <<m.row, m.n>>]
      BY <1>8 DEF ReceiveCertificate
    <2>2. m \in Message /\ m.type = "certificate" /\ link[c] \in Slots /\ m \in Letters(link[c])
      BY <2>1, ReadParts
    <2>3. m.row # 0
      BY <2>2 DEF SlotsKept, SlotKept, HandlerNamed
    <2>4. m.row \in Rows /\ m.n \in Nat
      BY <2>2, <2>3, EnrollmentParts DEF Message
    <2> HIDE DEF m
    <2>5. <<m.row, m.n>> \in (Rows \X Nat) \cup {NoCert} /\ <<m.row, m.n>> # NoCert
      BY <2>3, <2>4 DEF NoCert
    <2>6. e \in Dir /\ e.cert = <<m.row, m.n>> /\ disk' = [disk EXCEPT ![c] = e]
      BY <1>1, <2>1, <2>5 DEF Dir
    <2> HIDE DEF e
    <2>7. Fits(c, e, "saving", None) /\ "saving" \in Places
      BY <2>5, <2>6 DEF Fits, Places
    <2>8. link' = [link EXCEPT ![c] = None]
      BY <2>1 DEF Unlink
    <2>. QED BY <2>1, <2>6, <2>7, <2>8, OneDir
  <1>9. CASE FinishSaving(c)
    <2> DEFINE e == [disk[c] EXCEPT !.secret = 0]
    <2>1. /\ pc[c] = "saving" /\ pc' = [pc EXCEPT ![c] = "login"] /\ UNCHANGED link
          /\ disk' = [disk EXCEPT ![c].secret = 0]
      BY <1>9 DEF FinishSaving
    <2>2. e \in Dir /\ e.cert = disk[c].cert /\ disk' = [disk EXCEPT ![c] = e]
      BY <1>1, <1>2, <2>1 DEF Dir
    <2> HIDE DEF e
    <2>3. Fits(c, e, "login", None) /\ "login" \in Places
      BY <1>1, <2>1, <2>2 DEF Fits, Places
    <2>. QED BY <2>1, <2>2, <2>3, WriteFits
  <1>10. CASE ReceiveRefusal(c) \/ ApprovalTimeout(c)
    BY <1>10, UnlinkFits DEF ReceiveRefusal, ApprovalTimeout, Places
  <1>11. CASE ReceiveClose(c)
    <2> DEFINE p == IF pc[c] = "online" THEN "login" ELSE "start"
    <2>1. p \in Places /\ pc' = [pc EXCEPT ![c] = p] /\ Unlink(c) /\ UNCHANGED disk
      BY <1>11 DEF ReceiveClose, Reconnect, Places
    <2>2. p \in {"down", "start"} \/ (p = "login" /\ pc[c] = "online")
      OBVIOUS
    <2> HIDE DEF p
    <2>. QED BY <2>1, <2>2, UnlinkFits
  <1>12. CASE ClearState(c)
    <2> DEFINE e == [disk[c] EXCEPT !.id = 0, !.secret = 0]
    <2>1. /\ pc' = [pc EXCEPT ![c] = "clearing"] /\ UNCHANGED link
          /\ disk' = [disk EXCEPT ![c].id = 0, ![c].secret = 0]
      BY <1>12 DEF ClearState
    <2>2. e \in Dir /\ e.id = 0 /\ disk' = [disk EXCEPT ![c] = e]
      BY <1>1, <1>2, <2>1 DEF Dir
    <2> HIDE DEF e
    <2>3. Fits(c, e, "clearing", None) /\ "clearing" \in Places
      BY <2>2 DEF Fits, Places
    <2>. QED BY <2>1, <2>2, <2>3, WriteFits
  <1>13. CASE ClearCertificate(c)
    <2> DEFINE e == [disk[c] EXCEPT !.cert = NoCert]
    <2>1. /\ pc[c] = "clearing" /\ pc' = [pc EXCEPT ![c] = "start"] /\ UNCHANGED link
          /\ disk' = [disk EXCEPT ![c].cert = NoCert]
      BY <1>13 DEF ClearCertificate
    <2>2. e \in Dir /\ e.id = disk[c].id /\ disk' = [disk EXCEPT ![c] = e]
      BY <1>1, <1>2, <2>1 DEF Dir
    <2> HIDE DEF e
    <2>3. Fits(c, e, "start", None) /\ "start" \in Places
      BY <1>1, <2>1, <2>2 DEF Fits, Places
    <2>. QED BY <2>1, <2>2, <2>3, WriteFits
  <1>. QED
    BY <1>3, <1>4, <1>5, <1>6, <1>7, <1>8, <1>9, <1>10, <1>11, <1>12, <1>13 DEF ClientStep

LEMMA DirSteps ==
    ASSUME TypeOK, SlotsKept, StateDirsKept, NeverStranded, Next
    PROVE  DirTypes' /\ StateDirsKept' /\ NeverStranded'
  <1>1. DirTypes /\ SlotTypes /\ DirsFit
    BY DirsFitParts DEF TypeOK, DirTypes, Dir, SlotTypes
  <1>2. CASE UNCHANGED client
    BY <1>1, <1>2 DEF client, DirTypes, StateDirsKept, NeverStranded
  <1>3. ASSUME NEW k \in Slots, Handler(k) \/ RecheckFails(k) \/ SigningFails(k)
        PROVE  UNCHANGED client
    BY <1>3 DEF Handler, EnrollService, Decide, Setup, Recheck, ForwardPush, Poll,
       RequestCertificate, RecordCertificate, InvalidateSecret, Superseded, Hangup,
       RecheckFails, SigningFails
  <1>4. ASSUME NEW r \in Rows, AfterCommit(r) PROVE UNCHANGED client
    BY <1>4 DEF AfterCommit, PushDecision, ForceDisconnect
  <1>5. Operator => UNCHANGED client
    BY DEF Operator, ApproveService, RejectService, DeactivateService, CheckMerge, MergeService
  <1>6. ControllerRestart \/ (\E c \in Clients : CertificateExpires(c)) => UNCHANGED client
    BY DEF ControllerRestart, CertificateExpires
  <1>7. ASSUME NEW c \in Clients, Exit(c) \/ LoseConnection(c) PROVE DirTypes' /\ DirsFit'
    <2>1. CASE Exit(c)
      BY <1>1, <2>1, UnlinkFits DEF Exit, Places
    <2>2. CASE LoseConnection(c)
      <3> DEFINE p == IF pc[c] = "online" THEN "login" ELSE "start"
      <3>1. p \in Places /\ pc' = [pc EXCEPT ![c] = p] /\ Unlink(c) /\ UNCHANGED disk
        BY <2>2 DEF LoseConnection, Reconnect, Places
      <3>2. p \in {"down", "start"} \/ (p = "login" /\ pc[c] = "online")
        OBVIOUS
      <3> HIDE DEF p
      <3>. QED BY <1>1, <3>1, <3>2, UnlinkFits
    <2>. QED BY <1>7, <2>1, <2>2
  <1>8. ASSUME NEW c \in Clients, ClientStep(c) PROVE DirTypes' /\ DirsFit'
    BY <1>1, <1>8, ClientKeepsDirs
  <1>9. DirsFit' => StateDirsKept' /\ NeverStranded'
    BY DirsFitParts DEF DirsFit, Fits, StateDirsKept, NeverStranded
  <1>. QED BY <1>2, <1>3, <1>4, <1>5, <1>6, <1>7, <1>8, <1>9 DEF Next, Faults

-----------------------------------------------------------------------------
(* The types of the other variables.                                       *)

HIDE DEF Session

CertTypes ==
    /\ issued \in [Rows -> Nat] /\ revoked \in [Rows -> Nat]
    /\ expired \in SUBSET (Rows \X Nat)
AdminTypes ==
    /\ todo \in SUBSET ({"approved", "rejected", "disconnect"} \X Rows)
    /\ checked \in SUBSET (Rows \X Rows)
    /\ decisions \in 0..MaxDecisions
RegistryTypes ==
    /\ current \in [0..MaxRows -> Slots \cup {None}]
    /\ cancelled \in SUBSET Slots
HandlerTypes == sess \in [Slots -> Session] /\ push \in [Slots -> Seq({"approved", "rejected"})]
MailTypes == request \in [Slots -> 0..MaxRows] /\ down \in [Slots -> Seq(Message)]

LEMMA TypeParts ==
    TypeOK <=> /\ RowTypes /\ CertTypes /\ AdminTypes /\ RegistryTypes
               /\ HandlerTypes /\ MailTypes /\ DirTypes /\ faults \in 0..MaxFaults
  BY DEF TypeOK, RowTypes, CertTypes, AdminTypes, RegistryTypes, HandlerTypes, Session,
     MailTypes, DirTypes, Dir

(* What none of the actions of a client, of the handlers and so on write. *)
LEMMA ClientLeaves ==
    ASSUME NEW c \in Clients, ClientStep(c)
    PROVE  UNCHANGED <<tables, admin, registry, push, faults>>
  BY DEF ClientStep, Start, Enroll, Resume, Login, Open, ReceiveEnrolled, ReceiveApproved,
     IgnoreApproved, ReceiveCertificate, FinishSaving, ReceiveRefusal, ReceiveClose,
     Reconnect, ApprovalTimeout, ClearState, ClearCertificate

LEMMA HandlerLeaves ==
    ASSUME NEW k \in Slots, Handler(k)
    PROVE  UNCHANGED <<revoked, expired, admin, faults>>
  BY DEF Handler, EnrollService, Decide, Setup, Recheck, ForwardPush, Poll,
     RequestCertificate, RecordCertificate, InvalidateSecret, Superseded, Hangup, tables

LEMMA CommitLeaves ==
    ASSUME NEW r \in Rows, AfterCommit(r)
    PROVE  UNCHANGED <<tables, checked, decisions, sess, request, down, client, faults>>
  BY DEF AfterCommit, PushDecision, ForceDisconnect

LEMMA OperatorLeaves ==
    ASSUME Operator
    PROVE  UNCHANGED <<issued, expired, registry, sess, push, request, down, client, faults>>
  BY DEF Operator, ApproveService, RejectService, DeactivateService, CheckMerge, MergeService,
     tables

LEMMA FaultLeaves ==
    ASSUME NEW c \in Clients, Exit(c) \/ LoseConnection(c) \/ CertificateExpires(c)
    PROVE  UNCHANGED <<issued, revoked, admin, registry, sess, push>>
  BY DEF Exit, LoseConnection, Reconnect, CertificateExpires, tables

LEMMA HandlerFaultLeaves ==
    ASSUME NEW k \in Slots, RecheckFails(k) \/ SigningFails(k)
    PROVE  UNCHANGED <<issued, revoked, expired, admin>>
  BY DEF RecheckFails, SigningFails, tables

LEMMA CertTypeSteps ==
    ASSUME TypeOK, SlotsKept, Next
    PROVE  CertTypes'
  <1>1. CertTypes
    BY TypeParts
  <1>2. CASE UNCHANGED <<issued, revoked, expired>>
    BY <1>1, <1>2 DEF CertTypes
  <1>3. ASSUME NEW k \in Slots, Handler(k) PROVE CertTypes'
    <2>1. CASE RecordCertificate(k)
      <3> DEFINE r == sess[k].row
      <3>1. issued' = [issued EXCEPT ![r] = issued[r] + 1] /\ UNCHANGED <<revoked, expired>>
        BY <2>1 DEF RecordCertificate
      <3>2. r \in Rows
        BY <2>1, TypeParts, EnrollmentParts DEF RecordCertificate, HandlerTypes, Session,
           SlotsKept, SlotKept, HandlerNamed
      <3> HIDE DEF r
      <3>3. issued[r] + 1 \in Nat
        BY <1>1, <3>2 DEF CertTypes
      <3>. QED BY <1>1, <3>1, <3>3 DEF CertTypes
    <2>2. CASE ~RecordCertificate(k)
      BY <1>2, <1>3, <2>2 DEF Handler, EnrollService, Decide, Setup, Recheck, ForwardPush,
         Poll, RequestCertificate, InvalidateSecret, Superseded, Hangup, tables
    <2>. QED BY <2>1, <2>2
  <1>4. ASSUME Operator PROVE CertTypes'
    <2>1. /\ UNCHANGED <<issued, expired>>
          /\ \/ UNCHANGED revoked
             \/ \E r \in Rows : revoked' = [revoked EXCEPT ![r] = issued[r]]
             \/ \E s, t \in Rows : revoked' = [revoked EXCEPT ![s] = issued[s], ![t] = issued[t]]
      BY <1>4, OperatorLeaves DEF Operator, ApproveService, RejectService, DeactivateService,
         CheckMerge, MergeService, Merge, tables
    <2>. QED BY <1>1, <2>1 DEF CertTypes
  <1>5. ASSUME NEW c \in Clients, Exit(c) \/ LoseConnection(c) \/ CertificateExpires(c)
        PROVE  CertTypes'
    <2>1. /\ UNCHANGED <<issued, revoked>>
          /\ \/ UNCHANGED expired
             \/ disk[c].cert # NoCert /\ expired' = expired \cup {disk[c].cert}
      BY <1>5, FaultLeaves DEF Exit, LoseConnection, Reconnect, CertificateExpires, tables
    <2>2. disk[c].cert \in (Rows \X Nat) \cup {NoCert}
      BY TypeParts DEF DirTypes, Dir
    <2>. QED BY <1>1, <2>1, <2>2 DEF CertTypes
  <1>6. ControllerRestart => UNCHANGED <<issued, revoked, expired>>
    BY DEF ControllerRestart, tables
  <1>. QED
    BY <1>2, <1>3, <1>4, <1>5, <1>6, ClientLeaves, CommitLeaves, HandlerFaultLeaves
    DEF Next, Faults, tables

LEMMA AdminTypeSteps ==
    ASSUME TypeOK, Next
    PROVE  AdminTypes'
  <1>1. AdminTypes
    BY TypeParts
  <1>2. Ask => decisions' \in 0..MaxDecisions
    BY <1>1, EnrollmentParts DEF Ask, AdminTypes
  <1>3. CASE UNCHANGED admin
    BY <1>1, <1>3 DEF AdminTypes, admin
  <1>4. ASSUME NEW r \in Rows, AfterCommit(r) PROVE AdminTypes'
    BY <1>1, <1>4 DEF AfterCommit, PushDecision, ForceDisconnect, AdminTypes
  <1>5. ASSUME NEW r \in Rows, ApproveService(r) \/ RejectService(r) \/ DeactivateService(r)
        PROVE  AdminTypes'
    BY <1>1, <1>5, <1>2 DEF ApproveService, RejectService, DeactivateService, AdminTypes
  <1>6. ASSUME NEW s \in Rows, NEW t \in Rows, CheckMerge(s, t) \/ MergeService(s, t)
        PROVE  AdminTypes'
    BY <1>1, <1>6, <1>2 DEF CheckMerge, MergeService, Merge, AdminTypes
  <1>7. ControllerRestart => AdminTypes'
    BY <1>1 DEF ControllerRestart, AdminTypes
  <1>. QED
    BY <1>3, <1>4, <1>5, <1>6, <1>7, ClientLeaves, HandlerLeaves, FaultLeaves,
       HandlerFaultLeaves
    DEF Next, Operator, Faults

(* A connection is registered, or leaves the registry. *)
LEMMA RegistryTypeSteps ==
    ASSUME TypeOK, Next
    PROVE  RegistryTypes'
  <1>1. RegistryTypes /\ HandlerTypes
    BY TypeParts
  <1>2. CASE UNCHANGED registry
    BY <1>1, <1>2 DEF RegistryTypes, registry
  <1>3. ASSUME NEW k \in Slots, Handler(k) \/ RecheckFails(k) \/ SigningFails(k)
        PROVE  RegistryTypes'
    <2>1. sess[k].row \in 0..MaxRows
      BY <1>1 DEF HandlerTypes, Session
    <2>2. UNCHANGED registry \/ Register(k) \/ Leave(k)
      BY <1>3 DEF Handler, EnrollService, Decide, Setup, Recheck, ForwardPush, Poll,
         RequestCertificate, RecordCertificate, InvalidateSecret, Superseded, Hangup,
         RecheckFails, SigningFails, registry
    <2>3. CASE Register(k)
      <3>1. current[sess[k].row] \in Slots \cup {None}
        BY <1>1, <2>1 DEF RegistryTypes
      <3>. QED BY <1>1, <2>3, <3>1 DEF Register, RegistryTypes
    <2>4. CASE Leave(k)
      BY <1>1, <2>4 DEF Leave, RegistryTypes
    <2>. QED BY <1>2, <2>2, <2>3, <2>4
  <1>4. ASSUME NEW r \in Rows, AfterCommit(r) PROVE RegistryTypes'
    <2>1. current[r] \in Slots \cup {None}
      BY <1>1, EnrollmentParts DEF RegistryTypes
    <2>2. \/ UNCHANGED registry
          \/ /\ cancelled' = (cancelled \cup {current[r]}) \ {None}
             /\ current' = [current EXCEPT ![r] = None]
      BY <1>4 DEF AfterCommit, PushDecision, ForceDisconnect
    <2>. QED BY <1>1, <1>2, <2>1, <2>2 DEF RegistryTypes
  <1>5. ControllerRestart => RegistryTypes'
    BY DEF ControllerRestart, RegistryTypes
  <1>. QED
    BY <1>2, <1>3, <1>4, <1>5, ClientLeaves, OperatorLeaves, FaultLeaves DEF Next, Faults

LEMMA FaultTypeSteps ==
    ASSUME TypeOK, Next
    PROVE  faults' \in 0..MaxFaults
  <1>1. faults \in 0..MaxFaults /\ MaxFaults \in Nat
    BY EnrollmentParts DEF TypeOK
  <1>2. Faults => Fault
    BY DEF Faults, Exit, LoseConnection, CertificateExpires, RecheckFails, SigningFails,
       ControllerRestart
  <1>3. Fault => faults' \in 0..MaxFaults
    BY <1>1 DEF Fault
  <1>. QED
    BY <1>1, <1>2, <1>3, ClientLeaves, HandlerLeaves, CommitLeaves, OperatorLeaves DEF Next

(* sess and push: a handler begins, goes on or returns. *)
LEMMA SessionTypes ==
    ASSUME HandlerTypes, NEW k \in Slots, NEW h \in Session, sess' = [sess EXCEPT ![k] = h]
    PROVE  sess' \in [Slots -> Session]
  BY DEF HandlerTypes

LEMMA IdleType == Idle \in Session
  BY EnrollmentParts DEF Idle, Session, Stages

LEMMA LeaveTypes ==
    ASSUME HandlerTypes, MailTypes, NEW k \in Slots, Leave(k)
    PROVE  HandlerTypes' /\ request' \in [Slots -> 0..MaxRows]
  <1>1. <<>> \in Seq({"approved", "rejected"}) /\ 0 \in 0..MaxRows
    BY EnrollmentParts
  <1>2. /\ sess' = [sess EXCEPT ![k] = Idle] /\ push' = [push EXCEPT ![k] = <<>>]
        /\ request' = [request EXCEPT ![k] = 0]
    BY DEF Leave
  <1>3. sess' \in [Slots -> Session]
    BY <1>2, IdleType, SessionTypes
  <1>. QED BY <1>1, <1>2, <1>3 DEF HandlerTypes, MailTypes

(* lookup_by_secret returns a service id, or 0. *)
LEMMA LookupType ==
    ASSUME RowTypes, NEW secret, NEW hint \in Rows
    PROVE  Lookup(secret, hint) \in 0..MaxRows
  <1>1. redirect[hint] \in 0..MaxRows /\ hint \in 0..MaxRows /\ 0 \in 0..MaxRows
    BY EnrollmentParts DEF RowTypes
  <1>. QED BY <1>1 DEF Lookup

LEMMA OpenTypes ==
    ASSUME TypeOK, StateDirsKept, NEW c \in Clients, NEW k \in Slots,
           Enroll(c, k) \/ Resume(c, k) \/ Login(c, k)
    PROVE  HandlerTypes' /\ MailTypes'
  <1>1. HandlerTypes /\ MailTypes /\ RowTypes /\ disk[c] \in Dir
    BY TypeParts DEF DirTypes
  <1>2. PICK h \in Session : Open(c, k, h)
    <2>1. CASE Enroll(c, k)
      <3>1. [Idle EXCEPT !.stage = "anonymous"] \in Session
        BY IdleType DEF Session, Stages
      <3>. QED BY <2>1, <3>1 DEF Enroll
    <2>2. CASE Resume(c, k)
      <3> DEFINE r == Lookup(disk[c].secret, disk[c].id)
                 h == [Idle EXCEPT !.stage = "opened", !.row = r]
      <3>1. disk[c].id \in Rows
        BY <1>1, <2>2, EnrollmentParts DEF Resume, IsEnrolledOnly, Dir
      <3>2. r \in 0..MaxRows /\ Open(c, k, h)
        BY <1>1, <2>2, <3>1, LookupType DEF Resume
      <3> HIDE DEF r
      <3>3. h \in Session
        BY <3>2, IdleType DEF Session, Stages
      <3>. QED BY <3>2, <3>3
    <2>3. CASE Login(c, k)
      <3> DEFINE r == disk[c].cert[1]
                 h == [Idle EXCEPT !.stage = "admitted", !.row = r]
      <3>1. disk[c].cert \in Rows \X Nat
        BY <1>1, <2>3 DEF Login, StateDirsKept, Dir
      <3>2. r \in 0..MaxRows /\ Open(c, k, h)
        BY <2>3, <3>1, EnrollmentParts DEF Login
      <3> HIDE DEF r
      <3>3. h \in Session
        BY <3>2, IdleType DEF Session, Stages
      <3>. QED BY <3>2, <3>3
    <2>. QED BY <2>1, <2>2, <2>3
  <1>3. sess' = [sess EXCEPT ![k] = h] /\ UNCHANGED <<push, request, down>>
    BY <1>2 DEF Open
  <1>4. sess' \in [Slots -> Session]
    BY <1>1, <1>3, SessionTypes
  <1>. QED BY <1>1, <1>3, <1>4 DEF HandlerTypes, MailTypes

LEMMA UnlinkTypes ==
    ASSUME MailTypes, NEW c \in Clients, Unlink(c)
    PROVE  MailTypes'
  <1>1. <<>> \in Seq(Message) /\ 0 \in 0..MaxRows
    BY EnrollmentParts
  <1>. QED BY <1>1 DEF Unlink, MailTypes

LEMMA ClientTypes ==
    ASSUME TypeOK, SlotsKept, StateDirsKept, NEW c \in Clients, ClientStep(c)
    PROVE  HandlerTypes' /\ MailTypes'
  <1>1. HandlerTypes /\ MailTypes /\ SlotTypes
    BY TypeParts DEF TypeOK, SlotTypes, Session
  <1>2. CASE Start(c) \/ FinishSaving(c) \/ ClearState(c) \/ ClearCertificate(c)
    <2>1. UNCHANGED <<sess, push, request, down>>
      BY <1>2 DEF Start, FinishSaving, ClearState, ClearCertificate
    <2>. QED BY <1>1, <2>1 DEF HandlerTypes, MailTypes
  <1>3. CASE ReceiveCertificate(c) \/ ReceiveRefusal(c) \/ ReceiveClose(c) \/ ApprovalTimeout(c)
    <2>1. Unlink(c) /\ UNCHANGED <<sess, push>>
      BY <1>3 DEF ReceiveCertificate, ReceiveRefusal, ReceiveClose, Reconnect, ApprovalTimeout
    <2>. QED BY <1>1, <2>1, UnlinkTypes DEF HandlerTypes
  <1>4. CASE ReceiveEnrolled(c) \/ ReceiveApproved(c) \/ IgnoreApproved(c)
    <2>1. /\ Incoming(c, "enrolled") \/ Incoming(c, "approved")
          /\ Consume(c) /\ UNCHANGED <<sess, push>>
          /\ \/ UNCHANGED request
             \/ request' = [request EXCEPT ![link[c]] = Received(c).row]
      BY <1>4 DEF ReceiveEnrolled, ReceiveApproved, IgnoreApproved
    <2>2. Received(c) \in Message /\ down' \in [Slots -> Seq(Message)]
      BY <1>1, <2>1, ReadParts
    <2>3. Received(c).row \in 0..MaxRows
      BY <2>2 DEF Message
    <2>. QED BY <1>1, <2>1, <2>2, <2>3 DEF HandlerTypes, MailTypes
  <1>. QED BY <1>2, <1>3, <1>4, OpenTypes DEF ClientStep

(* What the handlers send are messages. *)
LEMMA SendTypes ==
    ASSUME SlotTypes, NEW k \in Slots, NEW a \in Message, NEW b \in Message,
           Send(k, <<a>>) \/ Send(k, <<a, b>>)
    PROVE  down' \in [Slots -> Seq(Message)]
  BY SendOne, SendTwo

LEMMA HandlerTypeSteps ==
    ASSUME TypeOK, SlotsKept, NEW k \in Slots, Handler(k) \/ RecheckFails(k) \/ SigningFails(k)
    PROVE  HandlerTypes' /\ MailTypes'
  <1>1. HandlerTypes /\ MailTypes /\ SlotTypes /\ CertTypes
    BY TypeParts DEF TypeOK, SlotTypes, Session
  <1>2. sess[k] \in Session /\ sess[k].row \in 0..MaxRows /\ sess[k].serial \in Nat
    BY <1>1 DEF HandlerTypes, Session
  <1> DEFINE r == sess[k].row
             a == Msg("approved", r, 0)
             b == Msg("rejected", r, 0)
             e == Msg("error", 0, 0)
             z == Msg("certificate", r, sess[k].serial)
  <1>3. /\ a \in Message /\ b \in Message /\ e \in Message /\ z \in Message
        /\ Close \in Message
    BY <1>2, MsgParts, CloseParts, EnrollmentParts
  <1>4. \A st \in Stages : [sess[k] EXCEPT !.stage = st] \in Session
    BY <1>2 DEF Session
  <1>5. [sess[k] EXCEPT !.approved = TRUE] \in Session
    BY <1>2 DEF Session
  <1>6. CASE EnrollService(k)
    <2> DEFINE n == CHOOSE x \in Rows : /\ rows[x].status = "none"
                                        /\ \A y \in 1..(x - 1) : rows[y].status # "none"
               h == [sess[k] EXCEPT !.stage = "decided", !.row = n]
               m == Msg("approved", n, 0)
               e0 == Msg("enrolled", n, 0)
               e1 == Msg("enrolled", n, 1)
    <2>1. /\ \E x \in Rows : rows[x].status = "none"
          /\ Send(k, <<e1, m>>) \/ Send(k, <<e0>>)
          /\ SentOn(k, h) /\ UNCHANGED <<push, request>>
      BY <1>6 DEF EnrollService
    <2>2. n \in 0..MaxRows
      BY <2>1, FirstFree, EnrollmentParts
    <2> HIDE DEF n
    <2>3. h \in Session
      BY <1>2, <2>2 DEF Session, Stages
    <2>4. m \in Message /\ e0 \in Message /\ e1 \in Message
      BY <2>2, MsgParts
    <2> HIDE DEF h, m, e0, e1
    <2>5. down' \in [Slots -> Seq(Message)]
      BY <1>1, <2>1, <2>4, SendTypes
    <2>6. sess' \in [Slots -> Session]
      BY <1>1, <2>1, <2>3, IdleType, SessionTypes DEF SentOn
    <2>. QED BY <1>1, <2>1, <2>5, <2>6 DEF HandlerTypes, MailTypes
  <1>7. CASE Decide(k)
    <2> DEFINE h == [sess[k] EXCEPT !.stage = "decided"]
    <2>1. [sess EXCEPT ![k].stage = "decided"] = [sess EXCEPT ![k] = h]
      BY <1>1 DEF HandlerTypes
    <2>2. /\ Send(k, <<a>>) \/ Send(k, <<b, Close>>) \/ UNCHANGED down
          /\ SentOn(k, h) \/ sess' = [sess EXCEPT ![k] = Idle]
          /\ UNCHANGED <<push, request>>
      BY <1>7, <2>1 DEF Decide, Approved, Rejected, SentOn
    <2>3. h \in Session
      BY <1>4 DEF Stages
    <2> HIDE DEF a, b, h
    <2>4. down' \in [Slots -> Seq(Message)]
      BY <1>1, <1>3, <2>2, SendTypes DEF MailTypes
    <2>5. sess' \in [Slots -> Session]
      BY <1>1, <2>2, <2>3, IdleType, SessionTypes DEF SentOn
    <2>. QED BY <1>1, <2>2, <2>4, <2>5 DEF HandlerTypes, MailTypes
  <1>8. CASE Setup(k)
    <2>1. PICK st \in {"registered", "online"} :
              /\ sess' = [sess EXCEPT ![k].stage = st] /\ UNCHANGED <<push, request, down>>
      <3> DEFINE st == IF sess[k].stage = "decided" THEN "registered" ELSE "online"
      <3>1. st \in {"registered", "online"} /\ UNCHANGED <<push, request, down>>
        BY <1>8 DEF Setup
      <3>2. sess' = [sess EXCEPT ![k].stage = st]
        BY <1>1, <1>8 DEF Setup, HandlerTypes
      <3>. QED BY <3>1, <3>2
    <2>2. sess' = [sess EXCEPT ![k] = [sess[k] EXCEPT !.stage = st]]
      BY <1>1, <2>1 DEF HandlerTypes
    <2>3. sess' \in [Slots -> Session]
      BY <1>1, <1>4, <2>2, SessionTypes DEF Stages
    <2>. QED BY <1>1, <2>1, <2>3 DEF HandlerTypes, MailTypes
  <1>9. CASE Recheck(k)
    <2> DEFINE v == Status(k) = "approved"
               h == [sess[k] EXCEPT !.stage = "loop", !.approved = v]
    <2>1. sess' = [sess EXCEPT ![k] = h] /\ UNCHANGED <<push, request, down>>
      BY <1>1, <1>9 DEF Recheck, HandlerTypes
    <2>2. v \in BOOLEAN
      OBVIOUS
    <2> HIDE DEF v
    <2>3. h \in Session
      BY <1>2, <2>2 DEF Session, Stages
    <2> HIDE DEF h
    <2>4. sess' \in [Slots -> Session]
      BY <1>1, <2>1, <2>3, SessionTypes
    <2>. QED BY <1>1, <2>1, <2>4 DEF HandlerTypes, MailTypes
  <1>10. CASE RecordCertificate(k)
    <2> DEFINE n == issued[r] + 1
               h == [sess[k] EXCEPT !.stage = "recorded", !.serial = n]
    <2>1. /\ sess' = [sess EXCEPT ![k] = h] /\ UNCHANGED <<push, request, down>>
          /\ sess[k].stage = "signing"
      BY <1>1, <1>10 DEF RecordCertificate, HandlerTypes
    <2>2. r \in Rows
      BY <1>2, <2>1, EnrollmentParts DEF SlotsKept, SlotKept, HandlerNamed
    <2>3. n \in Nat
      BY <1>1, <2>2 DEF CertTypes
    <2> HIDE DEF n
    <2>4. h \in Session
      BY <1>2, <2>3 DEF Session, Stages
    <2> HIDE DEF h
    <2>5. sess' \in [Slots -> Session]
      BY <1>1, <2>1, <2>4, SessionTypes
    <2>. QED BY <1>1, <2>1, <2>5 DEF HandlerTypes, MailTypes
  <1>11. CASE ForwardPush(k) \/ Poll(k)
    <2>1. \/ /\ Send(k, <<a>>) /\ sess' = [sess EXCEPT ![k].approved = TRUE]
             /\ UNCHANGED request
             /\ UNCHANGED push \/ (push[k] # <<>> /\ push' = [push EXCEPT ![k] = Tail(@)])
          \/ Send(k, <<b, Close>>) /\ Leave(k)
      BY <1>11 DEF ForwardPush, Poll, Approved, Rejected
    <2>2. sess' = [sess EXCEPT ![k].approved = TRUE] =>
              sess' = [sess EXCEPT ![k] = [sess[k] EXCEPT !.approved = TRUE]]
      BY <1>1 DEF HandlerTypes
    <2>3. push[k] # <<>> => Tail(push[k]) \in Seq({"approved", "rejected"})
      BY <1>1 DEF HandlerTypes
    <2> HIDE DEF a, b
    <2>4. down' \in [Slots -> Seq(Message)]
      BY <1>1, <1>3, <2>1, SendTypes
    <2>5. CASE Leave(k)
      BY <1>1, <2>4, <2>5, LeaveTypes DEF MailTypes
    <2>6. CASE ~Leave(k)
      <3>1. sess' \in [Slots -> Session]
        BY <1>1, <1>5, <2>1, <2>2, <2>6, SessionTypes
      <3>2. push' \in [Slots -> Seq({"approved", "rejected"})]
        BY <1>1, <2>1, <2>3, <2>6 DEF HandlerTypes
      <3>. QED BY <1>1, <2>1, <2>4, <2>6, <3>1, <3>2 DEF HandlerTypes, MailTypes
    <2>. QED BY <2>5, <2>6
  <1>12. CASE RequestCertificate(k)
    <2>1. \/ Send(k, <<e>>) /\ request' = [request EXCEPT ![k] = 0] /\ UNCHANGED <<sess, push>>
          \/ Send(k, <<e, Close>>) /\ Leave(k)
          \/ sess' = [sess EXCEPT ![k].stage = "signing"] /\ UNCHANGED <<push, request, down>>
      BY <1>12 DEF RequestCertificate
    <2> HIDE DEF e
    <2>2. CASE Send(k, <<e>>) /\ request' = [request EXCEPT ![k] = 0] /\ UNCHANGED <<sess, push>>
      <3>1. down' \in [Slots -> Seq(Message)]
        BY <1>1, <1>3, <2>2, SendOne
      <3>2. 0 \in 0..MaxRows
        BY EnrollmentParts
      <3>. QED BY <1>1, <2>2, <3>1, <3>2 DEF HandlerTypes, MailTypes
    <2>3. CASE Send(k, <<e, Close>>) /\ Leave(k)
      BY <1>1, <1>3, <2>3, SendTypes, LeaveTypes DEF MailTypes
    <2>4. CASE sess' = [sess EXCEPT ![k].stage = "signing"] /\ UNCHANGED <<push, request, down>>
      <3>1. sess' = [sess EXCEPT ![k] = [sess[k] EXCEPT !.stage = "signing"]]
        BY <1>1, <2>4 DEF HandlerTypes
      <3>2. sess' \in [Slots -> Session]
        BY <1>1, <1>4, <3>1, SessionTypes DEF Stages
      <3>. QED BY <1>1, <2>4, <3>2 DEF HandlerTypes, MailTypes
    <2>. QED BY <2>1, <2>2, <2>3, <2>4
  <1>13. CASE InvalidateSecret(k) \/ SigningFails(k) \/ Superseded(k) \/ Hangup(k)
    <2>1. /\ Leave(k)
          /\ \/ Send(k, <<z, Close>>) \/ Send(k, <<e, Close>>) \/ Send(k, <<Close>>)
             \/ UNCHANGED down
      BY <1>13 DEF InvalidateSecret, SigningFails, Superseded, Hangup
    <2> HIDE DEF z, e
    <2>2. down' \in [Slots -> Seq(Message)]
      BY <1>1, <1>3, <2>1, SendTypes DEF MailTypes
    <2>. QED BY <1>1, <2>1, <2>2, LeaveTypes DEF MailTypes
  <1>14. CASE RecheckFails(k)
    <2> DEFINE h == [sess[k] EXCEPT !.stage = "loop", !.blind = TRUE]
    <2>1. sess' = [sess EXCEPT ![k] = h] /\ UNCHANGED <<push, request, down>>
      BY <1>1, <1>14 DEF RecheckFails, HandlerTypes
    <2>2. h \in Session
      BY <1>2 DEF Session, Stages
    <2> HIDE DEF h
    <2>3. sess' \in [Slots -> Session]
      BY <1>1, <2>1, <2>2, SessionTypes
    <2>. QED BY <1>1, <2>1, <2>3 DEF HandlerTypes, MailTypes
  <1>. QED
    BY <1>6, <1>7, <1>8, <1>9, <1>10, <1>11, <1>12, <1>13, <1>14 DEF Handler

LEMMA MailTypeSteps ==
    ASSUME TypeOK, SlotsKept, StateDirsKept, Next
    PROVE  HandlerTypes' /\ MailTypes'
  <1>1. HandlerTypes /\ MailTypes /\ RegistryTypes
    BY TypeParts
  <1>2. CASE UNCHANGED <<sess, push, request, down>>
    BY <1>1, <1>2 DEF HandlerTypes, MailTypes
  <1>3. ASSUME NEW r \in Rows, AfterCommit(r) PROVE HandlerTypes' /\ MailTypes'
    <2> DEFINE k == current[r]
    <2>1. k \in Slots \cup {None}
      BY <1>1, EnrollmentParts DEF RegistryTypes
    <2>2. /\ UNCHANGED <<sess, request, down>>
          /\ \/ UNCHANGED push
             \/ k # None /\ \E d \in {"approved", "rejected"} :
                                push' = [push EXCEPT ![k] = Append(@, d)]
      BY <1>3 DEF AfterCommit, PushDecision, ForceDisconnect
    <2> HIDE DEF k
    <2>3. k # None => \A d \in {"approved", "rejected"} :
                          Append(push[k], d) \in Seq({"approved", "rejected"})
      BY <1>1, <2>1 DEF HandlerTypes
    <2>. QED BY <1>1, <2>2, <2>3 DEF HandlerTypes, MailTypes
  <1>4. ASSUME NEW c \in Clients, Exit(c) \/ LoseConnection(c) \/ CertificateExpires(c)
        PROVE  HandlerTypes' /\ MailTypes'
    <2>1. Unlink(c) \/ UNCHANGED <<request, down>>
      BY <1>4 DEF Exit, LoseConnection, Reconnect, CertificateExpires
    <2>. QED BY <1>1, <1>4, <2>1, UnlinkTypes, FaultLeaves DEF HandlerTypes, MailTypes
  <1>5. CASE ControllerRestart
    <2>1. /\ <<>> \in Seq(Message) /\ <<Close>> \in Seq(Message) /\ 0 \in 0..MaxRows
          /\ <<>> \in Seq({"approved", "rejected"})
      BY CloseParts, EnrollmentParts
    <2>. QED BY <1>5, <2>1, IdleType DEF ControllerRestart, HandlerTypes, MailTypes
  <1>. QED
    BY <1>2, <1>3, <1>4, <1>5, ClientTypes, HandlerTypeSteps, OperatorLeaves DEF Next, Faults

-----------------------------------------------------------------------------
LEMMA EnrollmentInit == Init => EnrollmentInv
  <1> SUFFICES ASSUME Init PROVE EnrollmentInv
    OBVIOUS
  <1>1. /\ 0 \in 0..MaxRows /\ 0 \in 0..MaxFaults /\ 0 \in 0..MaxDecisions
        /\ NoCert \in (Rows \X Nat) \cup {NoCert}
    BY EnrollmentParts
  <1>2. RowTypes /\ CertTypes /\ AdminTypes /\ RegistryTypes /\ faults \in 0..MaxFaults
    BY <1>1 DEF Init, RowTypes, CertTypes, AdminTypes, RegistryTypes
  <1>3. HandlerTypes /\ MailTypes
    BY <1>1, IdleType DEF Init, HandlerTypes, MailTypes
  <1>4. DirTypes
    BY <1>1 DEF Init, DirTypes, Dir, Places
  <1>5. TypeOK
    BY <1>2, <1>3, <1>4, TypeParts
  <1>6. RowsKept /\ OneServicePerSecret
    BY DEF Init, RowsKept, OneServicePerSecret
  <1>7. SlotsKept
    <2> SUFFICES ASSUME NEW k \in Slots PROVE SlotKept(k)
      BY DEF SlotsKept
    <2>1. sess[k].stage = "unused" /\ request[k] = 0 /\ down[k] = <<>>
      BY DEF Init, Idle
    <2>2. Letters(k) = {}
      BY <2>1 DEF Letters
    <2>. QED BY <2>1, <2>2 DEF SlotKept, NothingLeftOver, HandlerNamed, ApprovalKnown
  <1>8. StateDirsKept /\ NeverStranded
    BY DEF Init, StateDirsKept, NeverStranded
  <1>. QED BY <1>5, <1>6, <1>7, <1>8 DEF EnrollmentInv

LEMMA EnrollmentStep == EnrollmentInv /\ [Next]_vars => EnrollmentInv'
  <1> SUFFICES ASSUME EnrollmentInv, [Next]_vars PROVE EnrollmentInv'
    OBVIOUS
  <1>1. CASE Next
    <2>1. /\ TypeOK /\ RowsInv /\ SlotsKept /\ StateDirsKept /\ NeverStranded
      BY DEF EnrollmentInv, RowsInv
    <2>2. RowsInv' /\ RowTypes' /\ ApprovalsStay
      BY <1>1, <2>1, RowSteps
    <2>3. SlotsKept'
      BY <1>1, <2>1, <2>2, SlotSteps
    <2>4. DirTypes' /\ StateDirsKept' /\ NeverStranded'
      BY <1>1, <2>1, DirSteps
    <2>5. CertTypes' /\ AdminTypes' /\ RegistryTypes' /\ faults' \in 0..MaxFaults
      BY <1>1, <2>1, CertTypeSteps, AdminTypeSteps, RegistryTypeSteps, FaultTypeSteps
    <2>6. HandlerTypes' /\ MailTypes'
      BY <1>1, <2>1, MailTypeSteps
    <2>7. TypeOK'
      BY <2>2, <2>4, <2>5, <2>6 DEF TypeOK, RowTypes, CertTypes, AdminTypes, RegistryTypes,
         HandlerTypes, Session, MailTypes, DirTypes, Dir
    <2>. QED BY <2>2, <2>3, <2>4, <2>7 DEF EnrollmentInv, RowsInv
  <1>2. CASE UNCHANGED vars
    <2>1. UNCHANGED <<rows, redirect, issued, revoked, expired, todo, checked, decisions, current,
                      cancelled, sess, push, request, down, disk, pc, link, faults>>
      BY <1>2 DEF vars, tables, admin, registry, client
    <2>2. TypeOK' /\ RowsKept' /\ OneServicePerSecret' /\ StateDirsKept' /\ NeverStranded'
      BY <2>1 DEF EnrollmentInv, TypeOK, RowsKept, OneServicePerSecret, StateDirsKept,
         NeverStranded
    <2>3. SlotTypes /\ SlotsKept /\ ApprovalsStay
      BY <2>1 DEF EnrollmentInv, TypeOK, SlotTypes, Session, ApprovalsStay
    <2>. QED BY <2>1, <2>2, <2>3, NoSlot DEF EnrollmentInv
  <1>. QED BY <1>1, <1>2

(* The inductive invariant: the rows of the services table, the messages   *)
(* and handlers of every connection, and the state directories fit         *)
(* together, whatever ends, is lost or is decided between any two steps.   *)
THEOREM EnrollmentInvariant == Spec => []EnrollmentInv
  <1>1. Init => EnrollmentInv
    BY EnrollmentInit
  <1>2. EnrollmentInv /\ [Next]_vars => EnrollmentInv'
    BY EnrollmentStep
  <1>. QED BY <1>1, <1>2, PTL DEF Spec

(* Every variable keeps its type: in particular a handler that signs a     *)
(* certificate or invalidates a secret (cert.rs) has an existing row.      *)
THEOREM EnrollmentTypeCorrect == Spec => []TypeOK
  <1>1. EnrollmentInv => TypeOK
    BY DEF EnrollmentInv
  <1>. QED BY <1>1, EnrollmentInvariant, PTL

(* A secret is with the row it was issued for, or with the one that row    *)
(* was merged into, through any interleaving of enrollments, certificates  *)
(* and merges that were checked before another one was committed           *)
(* (queries/services.rs, merge_service looks at both rows again).          *)
THEOREM SecretsFollowMerges == Spec => []SecretFollowsMerge
  <1>1. EnrollmentInv => SecretFollowsMerge
    BY DEF EnrollmentInv, OneServicePerSecret, SecretFollowsMerge
  <1>. QED BY <1>1, EnrollmentInvariant, PTL

(* Wherever the process is stopped (between the two writes of              *)
(* save_certificate, or of clear_enrollment_state, identity.rs), it comes  *)
(* back with an id and a secret or a certificate, or without an id.        *)
THEOREM NobodyIsStranded == Spec => []NeverStranded
  <1>1. EnrollmentInv => NeverStranded
    BY DEF EnrollmentInv
  <1>. QED BY <1>1, EnrollmentInvariant, PTL

(* The id in a certificate request is the one of the session that reads it *)
(* (do_sign_csr compares them), also after the client was merged.          *)
THEOREM RequestsNameSession == Spec => []RequestNamesSession
  <1>1. EnrollmentInv => RequestNamesSession
    BY DEF EnrollmentInv, SlotsKept, SlotKept, HandlerNamed, RequestNamesSession
  <1>. QED BY <1>1, EnrollmentInvariant, PTL

(* A session that gets a certificate request knows of the approval: the    *)
(* status was read again after the registration (setup_enrolled_session),  *)
(* or the push or the poll that told the client has told the session.      *)
(* Only a session whose read after the registration failed may not know.   *)
THEOREM RequestsAreGranted == Spec => []RequestIsGranted
  <1>1. EnrollmentInv => RequestIsGranted
    BY DEF EnrollmentInv, SlotsKept, SlotKept, ApprovalKnown, Told, RequestIsGranted
  <1>. QED BY <1>1, EnrollmentInvariant, PTL
=============================================================================
