------------------------ MODULE UpdateLifecycleProofs ------------------------
(***************************************************************************)
(* Proofs about UpdateLifecycle, for any rows, batches and bounds.         *)
(***************************************************************************)
EXTENDS UpdateLifecycle, TLAPS

USE DEF table, agent, net, history, Tasks

JobType == [op : Ops, u : Updates \cup {None}, b : Batches \cup {None}]

\* A job that protects a row knows which one.
ProtectedRowsExist ==
    \A w \in Workers : work[w].op \in {"load", "protect", "create"} => work[w].u \in Updates

TypeInv == TypeOK /\ ProtectedRowsExist

\* Who has a job.
LEMMA WorkersAre ==
    /\ {"api", "processor", "recovery", "reaper", "restart", "startup"} \subseteq Workers
    /\ Recoveries \subseteq Workers /\ OldProcessors \subseteq Workers
    /\ "recovery" \in Recoveries
BY DEF Workers, Recoveries

\* Job builds jobs.
LEMMA JobIsTyped ==
    ASSUME NEW op \in Ops, NEW u \in Updates \cup {None}, NEW b \in Batches \cup {None}
    PROVE  Job(op, u, b) \in JobType
BY DEF Job, JobType

\* Idle is a job.
LEMMA IdleIsTyped == Idle \in JobType /\ Idle.op = "idle"
BY DEF Idle, Job, JobType, Ops

\* What follows a dispatching is a job that protects nothing.
LEMMA AfterIsTyped ==
    ASSUME NEW w \in Workers
    PROVE  After(w) \in JobType /\ After(w).op \notin {"load", "protect", "create"}
BY DEF After, Idle, Job, JobType, Ops

\* So is the successor job of a row.
LEMMA SuccessorIsTyped ==
    ASSUME NEW w \in Workers, NEW u \in Updates
    PROVE  Successor(w, u) \in JobType /\ Successor(w, u).op \notin {"load", "protect", "create"}
BY SetsAssumption DEF Successor, Job, JobType, Ops

\* Moving a worker to a job keeps the type of work and its rows.
LEMMA GotoIsTyped ==
    ASSUME TypeInv, NEW w \in Workers, NEW job \in JobType, Goto(w, job),
           job.op \in {"load", "protect", "create"} => job.u \in Updates
    PROVE  work' \in [Workers -> JobType] /\ ProtectedRowsExist'
BY DEF TypeInv, TypeOK, ProtectedRowsExist, Goto, JobType

\* Settling a batch keeps the type of batch.
LEMMA SettlingIsTyped ==
    ASSUME TypeInv, NEW b \in Batches \cup {None}, NEW st
    PROVE  maybe_complete_batch(b, st) \in
              [Batches -> {"none", "in_progress", "completed", "partially_completed"}]
BY DEF TypeInv, TypeOK, maybe_complete_batch

\* A replayed message is written ahead of the queued ones.
LEMMA PrependIsTyped ==
    ASSUME NEW q \in Seq(Updates), NEW u \in Updates
    PROVE  <<u>> \o q \in Seq(Updates)
OBVIOUS

\* Sending keeps the type of the channel.
LEMMA SendIsTyped ==
    ASSUME TypeInv, NEW u \in Updates, Send(u)
    PROVE  toAgent' \in Seq(Updates)
BY DEF TypeInv, TypeOK, Send

\* The statuses a row can have.
LEMMA StatusNames ==
    {"none", "queued", "pending", "in_progress", "awaiting_restart", "completed", "failed",
     "interrupted"} = Unfinished \cup Terminal \cup {"none"}
BY DEF Unfinished, HostBlocking, Terminal

\* Counting a fault keeps the type of the counters.
LEMMA FaultIsTyped ==
    ASSUME TypeInv, NEW f \in Faults, NEW max, Fault(f, max)
    PROVE  faults' \in [Faults -> Nat]
BY DEF TypeInv, TypeOK, Fault

\* A counted error in particular.
LEMMA ErrorIsTyped ==
    ASSUME TypeInv, Error
    PROVE  faults' \in [Faults -> Nat]
<1>1. "errors" \in Faults
  BY DEF Faults
<1>2. QED
  BY <1>1, FaultIsTyped DEF Error

\* Answering keeps the type of the other channel.
LEMMA TellIsTyped ==
    ASSUME TypeInv, NEW kind \in Kinds, NEW u \in Updates, Tell(kind, u)
    PROVE  toCtl' \in Seq([kind : Kinds, u : Updates])
BY DEF TypeInv, TypeOK, Tell

\* A statement that writes a status by id.
LEMMA StatusIsTyped ==
    ASSUME TypeInv, NEW u \in Updates,
           NEW s \in {"pending", "in_progress", "awaiting_restart", "completed", "failed",
                      "interrupted"},
           status' = [status EXCEPT ![u] = s]
    PROVE  status' \in [Updates -> Unfinished \cup Terminal \cup {"none"}]
<1>1. status \in [Updates -> Unfinished \cup Terminal \cup {"none"}]
  BY DEF TypeInv, TypeOK
<1>2. QED
  BY <1>1, StatusNames

\* What remains of the types when a job writes a status and goes on.
LEMMA JobIsTypedStep ==
    ASSUME TypeInv,
           status' \in [Updates -> Unfinished \cup Terminal \cup {"none"}],
           spawned' \in [Updates -> Nat],
           batch' \in [Batches -> {"none", "in_progress", "completed", "partially_completed"}],
           work' \in [Workers -> JobType], ProtectedRowsExist',
           faults' \in [Faults -> Nat],
           UNCHANGED <<owner, prot, req, orch, inst, net, agent, history>>
    PROVE  TypeInv'
BY DEF TypeInv, TypeOK, JobType

\* The types that a job leaves alone.
LEMMA TypesOfJobs ==
    ASSUME TypeInv
    PROVE  /\ status \in [Updates -> Unfinished \cup Terminal \cup {"none"}]
           /\ spawned \in [Updates -> Nat]
           /\ batch \in [Batches -> {"none", "in_progress", "completed", "partially_completed"}]
           /\ work \in [Workers -> JobType] /\ ProtectedRowsExist
           /\ faults \in [Faults -> Nat]
BY DEF TypeInv, TypeOK, JobType

\* An orchestrator takes a row.
LEMMA TakenIsTyped ==
    ASSUME TypeOK, NEW u \in Updates,
           status' = [status EXCEPT ![u] = "in_progress"],
           owner' = [owner EXCEPT ![u] = None],
           prot' = [prot EXCEPT ![u] = TRUE],
           orch' = orch \cup {u}
    PROVE  /\ status' \in [Updates -> Unfinished \cup Terminal \cup {"none"}]
           /\ owner' \in [Updates -> Nat \cup {None}]
           /\ prot' \in [Updates -> BOOLEAN]
           /\ orch' \in SUBSET Updates
<1>1. /\ status \in [Updates -> Unfinished \cup Terminal \cup {"none"}]
      /\ owner \in [Updates -> Nat \cup {None}]
      /\ prot \in [Updates -> BOOLEAN]
      /\ orch \in SUBSET Updates
  BY DEF TypeOK
<1>2. status' \in [Updates -> Unfinished \cup Terminal \cup {"none"}]
  BY <1>1, StatusNames
<1>3. owner' \in [Updates -> Nat \cup {None}]
  BY <1>1
<1>4. prot' \in [Updates -> BOOLEAN]
  BY <1>1
<1>5. QED
  BY <1>1, <1>2, <1>3, <1>4

\* A step of the API or of an orchestrator keeps the types.
LEMMA TypeRowStep ==
    ASSUME TypeInv, NEW u \in Updates, RowStep(u)
    PROVE  TypeInv'
<1> USE SetsAssumption, StatusNames DEF TypeInv, TypeOK
<1>1. CASE TriggerUpdate(u)
  BY <1>1 DEF TriggerUpdate, ProtectedRowsExist
<1>2. CASE InsertUpdate(u)
  <2>1. status' \in [Updates -> Unfinished \cup Terminal \cup {"none"}]
    BY <1>2 DEF InsertUpdate
  <2>2. spawned' \in [Updates -> Nat]
    BY <1>2 DEF InsertUpdate
  <2>3. req' \in [Updates -> {"none", "busy", "free"}]
    BY <1>2 DEF InsertUpdate
  <2>4. QED
    BY <1>2, <2>1, <2>2, <2>3 DEF InsertUpdate, ProtectedRowsExist
<1>3. CASE OrchestratorBegin(u)
  <2>1. spawned' \in [Updates -> Nat]
    BY <1>3 DEF OrchestratorBegin
  <2>2. /\ status' \in [Updates -> Unfinished \cup Terminal \cup {"none"}]
        /\ owner' \in [Updates -> Nat \cup {None}]
        /\ prot' \in [Updates -> BOOLEAN]
        /\ orch' \in SUBSET Updates
    <3>1. CASE ~TakesRow(u)
      BY <1>3, <3>1 DEF OrchestratorBegin
    <3>2. CASE TakesRow(u)
      <4>1. /\ status' = [status EXCEPT ![u] = "in_progress"]
            /\ owner' = [owner EXCEPT ![u] = None]
            /\ prot' = [prot EXCEPT ![u] = TRUE]
            /\ orch' = orch \cup {u}
        BY <1>3, <3>2 DEF OrchestratorBegin
      <4>2. QED
        BY <4>1, TakenIsTyped
    <3>3. QED
      BY <3>1, <3>2
  <2>3. QED
    BY <1>3, <2>1, <2>2 DEF OrchestratorBegin, ProtectedRowsExist
<1>4. CASE OrchestratorProceed(u)
  BY <1>4, SendIsTyped DEF OrchestratorProceed, ProtectedRowsExist
<1>5. CASE OrchestratorFail(u)
  BY <1>5, ErrorIsTyped DEF OrchestratorFail, ProtectedRowsExist
<1>6. ASSUME NEW w \in Recoveries, FailUnreplayable(w, u) PROVE TypeInv'
  <2>1. work' \in [Workers -> JobType] /\ ProtectedRowsExist'
    BY <1>6, SuccessorIsTyped, GotoIsTyped, WorkersAre DEF FailUnreplayable
  <2>2. status' \in [Updates -> Unfinished \cup Terminal \cup {"none"}]
    BY <1>6, StatusIsTyped DEF FailUnreplayable
  <2>3. Error /\ UNCHANGED <<owner, prot, batch, req, spawned, orch, inst, net, agent, history>>
    BY <1>6 DEF FailUnreplayable
  <2>4. QED
    BY <2>1, <2>2, <2>3, ErrorIsTyped, TypesOfJobs, JobIsTypedStep
<1>7. CASE HandleStarted(u)
  <2>1. toCtl' \in Seq([kind : Kinds, u : Updates])
    BY <1>7 DEF HandleStarted, Receive
  <2>2. status' \in [Updates -> Unfinished \cup Terminal \cup {"none"}]
    BY <1>7 DEF HandleStarted
  <2>3. owner' \in [Updates -> Nat \cup {None}]
    BY <1>7 DEF HandleStarted
  <2>4. QED
    BY <1>7, <2>1, <2>2, <2>3 DEF HandleStarted, ProtectedRowsExist
<1>8. CASE HandleResult(u)
  <2>1. FinalStatus(Head(toCtl).kind) \in Terminal
    BY DEF FinalStatus, Terminal
  <2>2. work' \in [Workers -> JobType] /\ ProtectedRowsExist'
    BY <1>8, SuccessorIsTyped, GotoIsTyped
    DEF HandleResult, Workers, ProtectedRowsExist, JobType
  <2>3. status' \in [Updates -> Unfinished \cup Terminal \cup {"none"}]
    BY <1>8, <2>1 DEF HandleResult
  <2>4. toCtl' \in Seq([kind : Kinds, u : Updates])
    BY <1>8 DEF HandleResult, Receive
  <2>5. QED
    BY <1>8, <2>2, <2>3, <2>4 DEF HandleResult, JobType
<1>9. CASE HandleVersionCheck(u)
  <2>1. Job("direct", None, BatchOf[u]) \in JobType
    BY JobIsTyped DEF Ops
  <2>2. work' \in [Workers -> JobType] /\ ProtectedRowsExist'
    BY <1>9, <2>1, GotoIsTyped DEF HandleVersionCheck, Workers, Job
  <2>3. status' \in [Updates -> Unfinished \cup Terminal \cup {"none"}]
    BY <1>9, StatusIsTyped DEF HandleVersionCheck
  <2>4. UNCHANGED <<owner, prot, batch, req, spawned, orch, inst, net, agent, history, faults>>
    BY <1>9 DEF HandleVersionCheck
  <2>5. QED
    BY <2>2, <2>3, <2>4, TypesOfJobs, JobIsTypedStep
<1>10. CASE RestartTimeout(u)
  <2>1. Job("direct", None, None) \in JobType
    BY JobIsTyped DEF Ops
  <2>2. work' \in [Workers -> JobType] /\ ProtectedRowsExist'
    BY <1>10, <2>1, GotoIsTyped DEF RestartTimeout, Workers, Job
  <2>3. status' \in [Updates -> Unfinished \cup Terminal \cup {"none"}]
    BY <1>10, StatusIsTyped DEF RestartTimeout
  <2>4. UNCHANGED <<owner, prot, batch, req, spawned, orch, inst, net, agent, history, faults>>
    BY <1>10 DEF RestartTimeout
  <2>5. QED
    BY <2>2, <2>3, <2>4, TypesOfJobs, JobIsTypedStep
<1>11. CASE ReapOverdue(u) \/ ReapPending(u)
  <2>1. Job("direct", None, BatchOf[u]) \in JobType
    BY JobIsTyped DEF Ops
  <2>2. \E job \in JobType : Goto("reaper", job) /\ job.op \in {"idle", "direct"}
    BY <1>11, <2>1, IdleIsTyped DEF ReapOverdue, ReapPending, AfterReap, Job
  <2>3. work' \in [Workers -> JobType] /\ ProtectedRowsExist'
    BY <2>2, GotoIsTyped DEF Workers
  <2>4. /\ status' = [status EXCEPT ![u] = "interrupted"]
        /\ UNCHANGED <<owner, prot, batch, req, spawned, orch, inst, net, agent, history, faults>>
    BY <1>11 DEF ReapOverdue, ReapPending
  <2>5. status' \in [Updates -> Unfinished \cup Terminal \cup {"none"}]
    BY <2>4, StatusIsTyped
  <2>6. QED
    BY <2>3, <2>4, <2>5, TypesOfJobs, JobIsTypedStep
<1>12. QED
  BY <1>1, <1>2, <1>3, <1>4, <1>5, <1>6, <1>7, <1>8, <1>9, <1>10, <1>11 DEF RowStep

\* A step of create_batch keeps the types.
LEMMA TypeBatchStep ==
    ASSUME TypeInv, NEW b \in Batches, CreateBatch(b) \/ InsertBatch(b)
    PROVE  TypeInv'
<1> USE SetsAssumption, StatusNames DEF TypeInv, TypeOK
<1>1. CASE CreateBatch(b)
  <2> DEFINE job == Job(IF HostFree THEN "free" ELSE "busy", None, b)
  <2>1. job \in JobType /\ job.op \in {"free", "busy"}
    BY JobIsTyped DEF Ops, Job
  <2>2. work' \in [Workers -> JobType] /\ ProtectedRowsExist'
    BY <1>1, <2>1, GotoIsTyped DEF CreateBatch, Workers
  <2>3. QED
    BY <1>1, <2>2 DEF CreateBatch, JobType
<1>2. CASE InsertBatch(b)
  <2>1. \/ Goto("api", Idle)
        \/ \E u \in RowsOf(b) : Goto("api", Job("create", u, b))
    BY <1>2 DEF InsertBatch
  <2>2. work' \in [Workers -> JobType] /\ ProtectedRowsExist'
    <3>1. CASE Goto("api", Idle)
      BY <3>1, IdleIsTyped, GotoIsTyped DEF Workers
    <3>2. ASSUME NEW u \in RowsOf(b), Goto("api", Job("create", u, b))
          PROVE  work' \in [Workers -> JobType] /\ ProtectedRowsExist'
      <4>1. u \in Updates
        BY DEF RowsOf
      <4>2. Job("create", u, b) \in JobType /\ Job("create", u, b).u = u
        BY <4>1, JobIsTyped DEF Ops, Job
      <4>3. QED
        BY <3>2, <4>1, <4>2, GotoIsTyped DEF Workers
    <3>3. QED
      BY <2>1, <3>1, <3>2
  <2>3. /\ status' \in [Updates -> Unfinished \cup Terminal \cup {"none"}]
        /\ batch' \in [Batches -> {"none", "in_progress", "completed", "partially_completed"}]
    <3>1. CASE UNCHANGED <<status, batch>>
      BY <3>1
    <3>2. CASE ~UNCHANGED <<status, batch>>
      <4>1. batch' = [batch EXCEPT ![b] = "in_progress"]
        BY <1>2, <3>2 DEF InsertBatch
      <4>2. /\ status' = [u \in Updates |-> status'[u]]
            /\ \A u \in Updates : status'[u] \in {status[u], "pending", "queued"}
        BY <1>2, <3>2 DEF InsertBatch
      <4>3. QED
        BY <4>1, <4>2
    <3>3. QED
      BY <3>1, <3>2
  <2>4. QED
    BY <1>2, <2>2, <2>3 DEF InsertBatch, JobType
<1>3. QED
  BY <1>1, <1>2

\* A step of a dispatching job keeps the types.
LEMMA TypeJobStep ==
    ASSUME TypeInv, NEW w \in Workers, JobStep(w)
    PROVE  TypeInv'
<1> USE SetsAssumption
<1>1. CASE DispatchQueued(w)
  <2>1. UNCHANGED <<owner, prot, batch, req, spawned, orch, inst, net, agent, history, faults>>
    BY <1>1 DEF DispatchQueued
  <2>2. CASE UNCHANGED status /\ Goto(w, Idle)
    <3>1. work' \in [Workers -> JobType] /\ ProtectedRowsExist'
      BY <2>2, IdleIsTyped, GotoIsTyped
    <3>2. QED
      BY <2>1, <2>2, <3>1, TypesOfJobs, JobIsTypedStep
  <2>3. ASSUME NEW u \in Updates, status' = [status EXCEPT ![u] = "pending"],
               Goto(w, Job("load", u, None))
        PROVE  TypeInv'
    <3>1. status' \in [Updates -> Unfinished \cup Terminal \cup {"none"}]
      BY <2>3, StatusIsTyped
    <3>2. Job("load", u, None) \in JobType /\ Job("load", u, None).u = u
      BY JobIsTyped DEF Ops, Job
    <3>3. work' \in [Workers -> JobType] /\ ProtectedRowsExist'
      BY <2>3, <3>2, GotoIsTyped
    <3>4. QED
      BY <2>1, <3>1, <3>3, TypesOfJobs, JobIsTypedStep
  <2>4. QED
    BY <1>1, <2>2, <2>3 DEF DispatchQueued, Queued
<1>2. CASE SpawnQueued(w)
  <2>1. work' \in [Workers -> JobType] /\ ProtectedRowsExist'
    BY <1>2, IdleIsTyped, GotoIsTyped DEF SpawnQueued
  <2>2. UNCHANGED <<owner, prot, batch, req, orch, inst, net, agent, history>>
    BY <1>2 DEF SpawnQueued
  <2>3. work[w].u \in Updates
    BY <1>2, TypesOfJobs DEF SpawnQueued, ProtectedRowsExist
  <2>4. CASE /\ spawned' = [spawned EXCEPT ![work[w].u] = @ + 1]
             /\ UNCHANGED <<status, faults>>
    <3>0. \A u \in Updates : [spawned EXCEPT ![u] = @ + 1] \in [Updates -> Nat]
      BY TypesOfJobs
    <3>1. spawned' \in [Updates -> Nat]
      BY <2>3, <2>4, <3>0, Zenon
    <3>2. QED
      BY <2>1, <2>2, <2>4, <3>1, TypesOfJobs, JobIsTypedStep
  <2>5. CASE /\ Error /\ status' = [status EXCEPT ![work[w].u] = "failed"]
             /\ UNCHANGED spawned
    <3>1. status' \in [Updates -> Unfinished \cup Terminal \cup {"none"}]
      BY <2>3, <2>5, StatusIsTyped
    <3>2. QED
      BY <2>1, <2>2, <2>5, <3>1, ErrorIsTyped, TypesOfJobs, JobIsTypedStep
  <2>6. QED
    BY <1>2, <2>4, <2>5 DEF SpawnQueued
<1>3. CASE DispatchDirect(w)
  <2>0. work[w].b \in Batches \cup {None}
    BY TypesOfJobs DEF JobType
  <2>1. UNCHANGED <<owner, prot, req, spawned, orch, inst, net, agent, history>>
    BY <1>3 DEF DispatchDirect
  <2>2. CASE /\ batch' \in {batch, maybe_complete_batch(work[w].b, status)}
             /\ Goto(w, After(w))
             /\ UNCHANGED <<status, faults>>
    <3>1. batch' \in [Batches -> {"none", "in_progress", "completed", "partially_completed"}]
      BY <2>0, <2>2, SettlingIsTyped, TypesOfJobs
    <3>2. work' \in [Workers -> JobType] /\ ProtectedRowsExist'
      BY <2>2, AfterIsTyped, GotoIsTyped
    <3>3. QED
      BY <2>1, <2>2, <3>1, <3>2, TypesOfJobs, JobIsTypedStep
  <2>3. ASSUME NEW u \in Updates,
               status' = [status EXCEPT ![u] = "pending"],
               Goto(w, Job("protect", u, work[w].b)),
               UNCHANGED <<batch, faults>>
        PROVE  TypeInv'
    <3>1. Job("protect", u, work[w].b) \in JobType /\ Job("protect", u, work[w].b).u = u
      BY <2>0, JobIsTyped DEF Ops, Job
    <3>2. work' \in [Workers -> JobType] /\ ProtectedRowsExist'
      BY <2>3, <3>1, GotoIsTyped
    <3>3. status' \in [Updates -> Unfinished \cup Terminal \cup {"none"}]
      BY <2>3, StatusIsTyped
    <3>4. QED
      BY <2>1, <2>3, <3>2, <3>3, TypesOfJobs, JobIsTypedStep
  <2>4. ASSUME NEW u \in Updates, Error,
               status' = [status EXCEPT ![u] = "failed"],
               batch' = maybe_complete_batch(BatchOf[u], status'),
               UNCHANGED work
        PROVE  TypeInv'
    <3>1. batch' \in [Batches -> {"none", "in_progress", "completed", "partially_completed"}]
      BY <2>4, SettlingIsTyped
    <3>2. status' \in [Updates -> Unfinished \cup Terminal \cup {"none"}]
      BY <2>4, StatusIsTyped
    <3>3. work' \in [Workers -> JobType] /\ ProtectedRowsExist'
      BY <2>4, TypesOfJobs DEF ProtectedRowsExist
    <3>4. QED
      BY <2>1, <2>4, <3>1, <3>2, <3>3, ErrorIsTyped, TypesOfJobs, JobIsTypedStep
  <2>5. QED
    BY <1>3, <2>2, <2>3, <2>4 DEF DispatchDirect, Queued
<1> USE StatusNames DEF TypeInv, TypeOK
<1>4. CASE DirectProceed(w)
  <2>1. work[w].u \in Updates /\ work[w].b \in Batches \cup {None}
    BY <1>4 DEF DirectProceed, ProtectedRowsExist
  <2>2. batch' \in [Batches -> {"none", "in_progress", "completed", "partially_completed"}]
    BY <1>4, <2>1, SettlingIsTyped DEF DirectProceed
  <2>3. work' \in [Workers -> JobType] /\ ProtectedRowsExist'
    BY <1>4, AfterIsTyped, GotoIsTyped DEF DirectProceed
  <2>4. toAgent' \in Seq(Updates) /\ pushed' \in SUBSET Updates
    BY <1>4, <2>1, SendIsTyped DEF DirectProceed
  <2>5. prot' \in [Updates -> BOOLEAN] /\ protected' \in SUBSET Updates
    BY <1>4, <2>1 DEF DirectProceed
  <2>6. QED
    BY <1>4, <2>2, <2>3, <2>4, <2>5 DEF DirectProceed, JobType
<1>5. CASE DirectFail(w)
  <2>1. work[w].u \in Updates /\ work[w].b \in Batches \cup {None}
    BY <1>5 DEF DirectFail, ProtectedRowsExist
  <2>2. BatchOf[work[w].u] \in Batches \cup {None}
    BY <2>1
  <2>3. batch' \in [Batches -> {"none", "in_progress", "completed", "partially_completed"}]
    BY <1>5, <2>2, SettlingIsTyped DEF DirectFail
  <2>4. Job("direct", None, work[w].b) \in JobType
    BY <2>1, JobIsTyped DEF Ops
  <2>5. work' \in [Workers -> JobType] /\ ProtectedRowsExist'
    BY <1>5, <2>4, GotoIsTyped DEF DirectFail, Job
  <2>6. prot' \in [Updates -> BOOLEAN]
    BY <1>5, <2>1 DEF DirectFail
  <2>7. QED
    BY <1>5, <2>3, <2>5, <2>6, ErrorIsTyped DEF DirectFail, JobType
<1>6. QED
  BY <1>1, <1>2, <1>3, <1>4, <1>5 DEF JobStep

\* A step of recovery keeps the types.
LEMMA TypeRecover ==
    ASSUME TypeInv, NEW w \in Recoveries, Recover(w)
    PROVE  TypeInv'
<1> USE SetsAssumption, StatusNames DEF TypeInv, TypeOK
<1>0. w \in Workers
  BY WorkersAre
<1>1. CASE InterruptOwned(w)
  <2>1. PICK u \in Updates \cup {None} : Goto(w, Job("orphans", u, None))
    BY <1>1 DEF InterruptOwned
  <2>2. Job("orphans", u, None) \in JobType /\ Job("orphans", u, None).op = "orphans"
    BY JobIsTyped DEF Ops, Job
  <2>3. work' \in [Workers -> JobType] /\ ProtectedRowsExist'
    BY <1>0, <2>1, <2>2, GotoIsTyped
  <2>4. QED
    BY <1>1, <2>3 DEF InterruptOwned, JobType
<1>2. CASE FailOrphans(w)
  <2>1. work[w].u \in Updates \cup {None}
    BY <1>0
  <2>2. work' \in [Workers -> JobType] /\ ProtectedRowsExist'
    <3>1. CASE work[w].u = None
      BY <1>0, <1>2, <3>1, AfterIsTyped, GotoIsTyped DEF FailOrphans
    <3>2. CASE work[w].u # None
      BY <1>0, <1>2, <2>1, <3>2, SuccessorIsTyped, GotoIsTyped DEF FailOrphans
    <3>3. QED
      BY <3>1, <3>2
  <2>3. prot' \in [Updates -> BOOLEAN]
    BY <1>2 DEF FailOrphans
  <2>4. QED
    BY <1>2, <2>2, <2>3 DEF FailOrphans, JobType
<1>3. CASE PromoteForReplay(w)
  <2>1. work' \in [Workers -> JobType] /\ ProtectedRowsExist'
    BY <1>0, <1>3, AfterIsTyped, GotoIsTyped DEF PromoteForReplay
  <2>2. status' \in [Updates -> Unfinished \cup Terminal \cup {"none"}]
    BY <1>3 DEF PromoteForReplay, Queued
  <2>3. QED
    BY <1>3, <2>1, <2>2 DEF PromoteForReplay, JobType
<1>4. CASE ReplayPending(w)
  <2>1. work' \in [Workers -> JobType] /\ ProtectedRowsExist'
    BY <1>0, <1>4, IdleIsTyped, GotoIsTyped DEF ReplayPending
  <2>2. link' \in {"down", "setup", "up", "dead"}
    BY <1>4 DEF ReplayPending
  <2>3. spawned' \in [Updates -> Nat]
    <3>1. \/ UNCHANGED spawned
          \/ \E u \in Updates : spawned' = [spawned EXCEPT ![u] = @ + 1]
      BY <1>4, Zenon DEF ReplayPending
    <3>2. QED
      BY <3>1
  <2>4. toAgent' \in Seq(Updates) /\ pushed' \in SUBSET Updates
    <3>1. toAgent' = toAgent \/ \E u \in Updates : toAgent' = <<u>> \o toAgent
      BY <1>4 DEF ReplayPending
    <3>2. toAgent' \in Seq(Updates)
      <4>1. CASE toAgent' = toAgent
        BY <4>1
      <4>2. ASSUME NEW u \in Updates, toAgent' = <<u>> \o toAgent
            PROVE  toAgent' \in Seq(Updates)
        <5>1. toAgent \in Seq(Updates)
          OBVIOUS
        <5>2. <<u>> \o toAgent \in Seq(Updates)
          BY <5>1, PrependIsTyped
        <5>3. QED
          BY <4>2, <5>2, Zenon
      <4>3. QED
        BY <3>1, <4>1, <4>2
    <3>3. pushed' \in SUBSET Updates
      BY <1>4 DEF ReplayPending
    <3>4. QED
      BY <3>2, <3>3
  <2>5. lost' \in SUBSET Updates
    BY <1>4 DEF ReplayPending
  <2>6. UNCHANGED <<table, req, orch, inst, toCtl, agent, protected, faults>>
    BY <1>4 DEF ReplayPending
  <2>7. QED
    BY <2>1, <2>2, <2>3, <2>4, <2>5, <2>6 DEF JobType
<1>5. QED
  BY <1>1, <1>2, <1>3, <1>4 DEF Recover

\* What a new session does to the jobs: that of a session it supersedes goes on
\* elsewhere, its own recovery begins, and the others are not concerned.
ConnectMoves ==
    /\ \A w \in Workers : \/ work'[w] \in {Idle, Job("interrupt", None, None)}
                          \/ \E x \in Workers : work'[w] = work[x] /\ (w = "api" \/ x # "api")
    /\ \A w \in {"api", "reaper", "restart", "startup"} : work'[w] = work[w]
    /\ work'["recovery"] = Job("interrupt", None, None) /\ work'["processor"] = Idle
    /\ \A x \in Workers : work[x] = Idle \/ \E w \in Workers : work'[w] = work[x]
    /\ \A w \in OldRecoveries : work'[w] \in {work[w], work["recovery"]}

LEMMA ConnectJobs ==
    ASSUME TypeInv, AgentConnect
    PROVE  /\ work' \in [Workers -> JobType] /\ ProtectedRowsExist'
           /\ inst' \in [Recoveries -> Nat] /\ ConnectMoves
<1>0. /\ work \in [Workers -> JobType] /\ inst \in [Recoveries -> Nat] /\ boot \in Nat
      /\ ProtectedRowsExist
  BY DEF TypeInv, TypeOK, JobType
<1>1. PICK r \in Places("recovery", OldRecoveries), p \in Places("processor", OldProcessors) :
          /\ work' = [work EXCEPT ![r] = work["recovery"], ![p] = work["processor"],
                                  !["processor"] = Idle,
                                  !["recovery"] = Job("interrupt", None, None)]
          /\ inst' = [inst EXCEPT ![r] = inst["recovery"], !["recovery"] = boot]
  BY DEF AgentConnect
<1>2. /\ r \in Recoveries /\ r \in Workers /\ p \in Workers
      /\ r = "recovery" \/ (r \in OldRecoveries /\ work[r] = Idle)
      /\ p = "processor" \/ (p \in OldProcessors /\ work[p] = Idle)
      /\ r = "recovery" => work["recovery"] = Idle
      /\ p = "processor" => work["processor"] = Idle
  BY DEF Places, Workers, Recoveries
<1>3. /\ "recovery" \notin OldRecoveries \cup OldProcessors
      /\ "processor" \notin OldRecoveries \cup OldProcessors
      /\ \A w \in {"api", "reaper", "restart", "startup"} :
            w \notin OldRecoveries \cup OldProcessors
      /\ OldRecoveries \cap OldProcessors = {}
  BY PlacesAssumption
<1>4. Job("interrupt", None, None) \in JobType /\ Job("interrupt", None, None).op = "interrupt"
  BY JobIsTyped DEF Ops, Job
<1>5. \A w \in Workers :
         work'[w] = IF w = "recovery" THEN Job("interrupt", None, None)
                    ELSE IF w = "processor" THEN Idle
                    ELSE IF w = p THEN work["processor"]
                    ELSE IF w = r THEN work["recovery"] ELSE work[w]
  BY <1>0, <1>1, <1>2
<1>6. work' \in [Workers -> JobType]
  BY <1>0, <1>1, <1>4, IdleIsTyped, WorkersAre
<1>7. inst' \in [Recoveries -> Nat]
  BY <1>0, <1>1, WorkersAre
<1>8. ConnectMoves
  <2>1. \A w \in Workers : \/ work'[w] \in {Idle, Job("interrupt", None, None)}
                          \/ \E x \in Workers : work'[w] = work[x] /\ (w = "api" \/ x # "api")
    BY <1>5, WorkersAre
  <2>2. \A w \in {"api", "reaper", "restart", "startup"} : work'[w] = work[w]
    BY <1>2, <1>3, <1>5, WorkersAre
  <2>3. work'["recovery"] = Job("interrupt", None, None) /\ work'["processor"] = Idle
    BY <1>5, WorkersAre
  <2>4. ASSUME NEW x \in Workers, work[x] # Idle
        PROVE  \E w \in Workers : work'[w] = work[x]
    <3>1. CASE x = "recovery"
      BY <1>2, <1>3, <1>5, <2>4, <3>1
    <3>2. CASE x = "processor"
      BY <1>2, <1>3, <1>5, <2>4, <3>2
    <3>3. CASE x \notin {"recovery", "processor"}
      BY <1>2, <1>5, <2>4, <3>3
    <3>4. QED
      BY <3>1, <3>2, <3>3
  <2>5. \A w \in OldRecoveries : work'[w] \in {work[w], work["recovery"]}
    BY <1>2, <1>3, <1>5 DEF Workers
  <2>6. QED
    BY <2>1, <2>2, <2>3, <2>4, <2>5 DEF ConnectMoves
<1>9. ProtectedRowsExist'
  <2>1. ASSUME NEW w \in Workers, work'[w].op \in {"load", "protect", "create"}
        PROVE  work'[w].u \in Updates
    BY <1>0, <1>4, <1>8, <2>1, IdleIsTyped DEF ConnectMoves, ProtectedRowsExist
  <2>2. QED
    BY <2>1 DEF ProtectedRowsExist
<1>10. QED
  BY <1>6, <1>7, <1>8, <1>9

\* A step of the agent keeps the types.
LEMMA TypeAgentStep ==
    ASSUME TypeInv, AgentStep
    PROVE  TypeInv'
<1> USE SetsAssumption DEF TypeInv, TypeOK
<1>1. CASE AgentConnect
  <2>2. /\ work' \in [Workers -> JobType] /\ ProtectedRowsExist'
        /\ inst' \in [Recoveries -> Nat]
    BY <1>1, ConnectJobs
  <2>3. toCtl' \in Seq([kind : Kinds, u : Updates])
    <3>1. CASE cur = None
      BY <1>1, <3>1 DEF AgentConnect
    <3>2. CASE cur # None
      <4>1. [kind |-> "started", u |-> cur] \in [kind : Kinds, u : Updates]
        BY <3>2 DEF Kinds
      <4>2. QED
        BY <1>1, <3>2, <4>1 DEF AgentConnect
    <3>3. QED
      BY <3>1, <3>2
  <2>4. QED
    BY <1>1, <2>2, <2>3 DEF AgentConnect, JobType
<1>2. CASE AgentExecute
  <2>1. Head(toAgent) \in Updates /\ toAgent' \in Seq(Updates)
    BY <1>2 DEF AgentExecute
  <2>2. toCtl' \in Seq([kind : Kinds, u : Updates])
    <3>1. \E kind \in Kinds : Tell(kind, Head(toAgent))
      BY <1>2 DEF AgentExecute, Kinds
    <3>2. QED
      BY <2>1, <3>1, TellIsTyped
  <2>3. /\ cur' \in Updates \cup {None} /\ early' \in BOOLEAN
        /\ runs' \in [Updates -> 0 .. 2]
    <3>1. CASE cur # None
      BY <1>2, <3>1 DEF AgentExecute
    <3>2. CASE cur = None
      <4>1. cur' = Head(toAgent) /\ early' = FALSE
        BY <1>2, <3>2 DEF AgentExecute
      <4>2. runs' = [runs EXCEPT ![Head(toAgent)] = IF @ < 2 THEN @ + 1 ELSE @]
        BY <1>2, <3>2 DEF AgentExecute
      <4>3. runs' \in [Updates -> 0 .. 2]
        <5>1. \A n \in 0 .. 2 : (IF n < 2 THEN n + 1 ELSE n) \in 0 .. 2
          OBVIOUS
        <5>2. \A h \in Updates :
                 [runs EXCEPT ![h] = IF @ < 2 THEN @ + 1 ELSE @] \in [Updates -> 0 .. 2]
          BY <5>1
        <5>3. QED
          BY <2>1, <4>2, <5>2, Zenon
      <4>4. QED
        BY <2>1, <4>1, <4>3
    <3>3. QED
      BY <3>1, <3>2
  <2>4. QED
    BY <1>2, <2>1, <2>2, <2>3 DEF AgentExecute, ProtectedRowsExist
<1>3. CASE AgentGate
  <2>1. "gated" \in Faults
    BY DEF Faults
  <2>2. faults' \in [Faults -> Nat]
    BY <1>3, <2>1, FaultIsTyped DEF AgentGate
  <2>3. toAgent' \in Seq(Updates)
    BY <1>3 DEF AgentGate
  <2>4. QED
    BY <1>3, <2>2, <2>3 DEF AgentGate, ProtectedRowsExist
<1>4. CASE AgentEarlyResult
  <2>1. toCtl' \in Seq([kind : Kinds, u : Updates])
    BY <1>4 DEF AgentEarlyResult, Tell, Kinds
  <2>2. QED
    BY <1>4, <2>1 DEF AgentEarlyResult, ProtectedRowsExist
<1>5. ASSUME NEW kind \in {"completed", "failed"}, AgentFinish(kind) PROVE TypeInv'
  <2>1. toCtl' \in Seq([kind : Kinds, u : Updates]) /\ succeeded' \in SUBSET Updates
    <3>1. CASE early
      BY <1>5, <3>1 DEF AgentFinish
    <3>2. CASE ~early
      <4>1. Tell(kind, cur) /\ cur \in Updates /\ kind \in Kinds
        BY <1>5, <3>2 DEF AgentFinish, Kinds
      <4>2. toCtl' \in Seq([kind : Kinds, u : Updates])
        BY <4>1, TellIsTyped
      <4>3. succeeded' \in SUBSET Updates
        BY <1>5, <3>2, <4>1 DEF AgentFinish
      <4>4. QED
        BY <4>2, <4>3
    <3>3. QED
      BY <3>1, <3>2
  <2>2. QED
    BY <1>5, <2>1 DEF AgentFinish, ProtectedRowsExist
<1>6. CASE AgentRestart
  <2>1. boot' \in Nat /\ cur' = None /\ early' = FALSE
    BY <1>6 DEF AgentRestart
  <2>2. link' \in {"down", "dead"} /\ toAgent' = <<>> /\ toCtl' = <<>>
    BY <1>6 DEF AgentRestart, LoseLink
  <2>3. toAgent' \in Seq(Updates) /\ toCtl' \in Seq([kind : Kinds, u : Updates])
    BY <2>2
  <2>4. QED
    BY <1>6, <2>1, <2>2, <2>3 DEF AgentRestart, ProtectedRowsExist
<1>7. QED
  BY <1>1, <1>2, <1>3, <1>4, <1>5, <1>6 DEF AgentStep

\* The types are inductive.
LEMMA TypeStep == TypeInv /\ [Next]_vars => TypeInv'
<1> SUFFICES ASSUME TypeInv, [Next]_vars PROVE TypeInv'
  OBVIOUS
<1> USE SetsAssumption, StatusNames DEF TypeInv, TypeOK
<1>1. ASSUME Disconnect PROVE TypeInv'
  <2>1. "drops" \in Faults
    BY DEF Faults
  <2>2. faults' \in [Faults -> Nat]
    BY <1>1, <2>1, FaultIsTyped DEF Disconnect
  <2>3. QED
    BY <1>1, <2>2 DEF Disconnect, LoseLink, ProtectedRowsExist
<1>2. ASSUME ControllerCrash PROVE TypeInv'
  <2>1. "crashes" \in Faults
    BY DEF Faults
  <2>2. faults' \in [Faults -> Nat]
    BY <1>2, <2>1, FaultIsTyped DEF ControllerCrash
  <2>3. Job("rollout", None, None) \in JobType /\ Job("rollout", None, None).op = "rollout"
    BY JobIsTyped DEF Ops, Job
  <2>4. work' \in [Workers -> JobType] /\ ProtectedRowsExist'
    BY <1>2, <2>3, IdleIsTyped DEF ControllerCrash, ProtectedRowsExist
  <2>5. QED
    BY <1>2, <2>2, <2>4 DEF ControllerCrash, JobType
<1>3. ASSUME RolloutCleanup PROVE TypeInv'
  <2>1. PICK b \in Batches \cup {None} :
            Goto("startup", Idle) \/ Goto("startup", Job("direct", None, b))
    BY <1>3 DEF RolloutCleanup
  <2>2. Job("direct", None, b) \in JobType /\ Job("direct", None, b).op = "direct"
    BY JobIsTyped DEF Ops, Job
  <2>3. work' \in [Workers -> JobType] /\ ProtectedRowsExist'
    BY <2>1, <2>2, IdleIsTyped, GotoIsTyped DEF Workers
  <2>4. QED
    BY <1>3, <2>3 DEF RolloutCleanup, JobType
<1>4. ASSUME UNCHANGED vars PROVE TypeInv'
  BY <1>4 DEF vars, ProtectedRowsExist
<1>5. ASSUME EndSession PROVE TypeInv'
  <2>1. work' \in [Workers -> JobType] /\ ProtectedRowsExist'
    BY <1>5, IdleIsTyped, GotoIsTyped, WorkersAre DEF EndSession
  <2>2. QED
    BY <1>5, <2>1 DEF EndSession, JobType
<1>6. ASSUME NEW w \in OldProcessors, CancelProcessor(w) PROVE TypeInv'
  <2>1. work' \in [Workers -> JobType] /\ ProtectedRowsExist'
    BY <1>6, IdleIsTyped, GotoIsTyped, WorkersAre DEF CancelProcessor
  <2>2. lost' \in SUBSET Updates
    <3>1. w \in Workers
      BY WorkersAre
    <3>2. work[w].op \in {"load", "protect"} => work[w].u \in Updates
      BY <3>1 DEF ProtectedRowsExist
    <3>3. lost' = IF work[w].op \in {"load", "protect"} THEN lost \cup {work[w].u} ELSE lost
      BY <1>6 DEF CancelProcessor
    <3>4. QED
      BY <3>2, <3>3
  <2>3. QED
    BY <1>6, <2>1, <2>2 DEF CancelProcessor, JobType
<1>7. QED
  BY <1>1, <1>2, <1>3, <1>4, <1>5, <1>6, TypeRowStep, TypeBatchStep, TypeJobStep, TypeRecover,
     TypeAgentStep DEF Next

\* The variables start with their types.
LEMMA InitIsTyped == Init => TypeInv
<1> SUFFICES ASSUME Init PROVE TypeInv
  OBVIOUS
<1>1. work \in [Workers -> JobType] /\ ProtectedRowsExist
  BY IdleIsTyped DEF Init, ProtectedRowsExist
<1>2. toAgent \in Seq(Updates) /\ toCtl \in Seq([kind : Kinds, u : Updates])
  BY DEF Init
<1>3. early \in BOOLEAN /\ prot \in [Updates -> BOOLEAN]
  BY DEF Init
<1>4. status \in [Updates -> Unfinished \cup Terminal \cup {"none"}]
  BY StatusNames DEF Init
<1>5. QED
  BY <1>1, <1>2, <1>3, <1>4 DEF Init, TypeInv, TypeOK, JobType

\* Every variable keeps its type: no job protects a row that does not exist, and
\* every message names a row, for any rows, batches and bounds.
THEOREM TypeCorrect == Spec => []TypeOK
BY InitIsTyped, TypeStep, PTL DEF Spec, TypeInv

-----------------------------------------------------------------------------
(* What a step may do to the table.  Shape collects it, one conjunct per        *)
(* concern; each action is shown to have the shape, and the safety properties   *)
(* follow from the shape alone.                                                 *)

Settled == {"completed", "partially_completed"}

\* Where the rows come from: a request and a batch that are under way have no
\* rows yet, and whatever works on a row works on one that was inserted.
RequestIsNew == \A u \in Updates : req[u] # "none" => status[u] = "none" /\ BatchOf[u] = None
BatchIsNew == \A b \in Batches : batch[b] = "none" => \A u \in RowsOf(b) : status[u] = "none"
CreateIsNew ==
    work["api"].op \in {"busy", "free"} =>
        work["api"].b \in Batches /\ batch[work["api"].b] = "none"
OrchestratedExist == \A u \in orch : status[u] # "none"
WorkedOnExist ==
    \A w \in Workers : work[w].op \in {"load", "protect", "create"} => status[work[w].u] # "none"
Born == RequestIsNew /\ BatchIsNew /\ CreateIsNew /\ OrchestratedExist /\ WorkedOnExist

\* What the statements that never ask the index do to a status.
Ordinary(s, t) ==
    \/ t = s
    \/ s # "none" /\ t = "failed"
    \/ s \in HostBlocking /\ t \in (HostBlocking \ {"pending"}) \cup Terminal
    \/ s = "interrupted" /\ t \in Terminal
Calm == \A u \in Updates : Ordinary(status[u], status'[u])

Promotes ==
    /\ HostFree
    /\ \E u \in Updates : status[u] = "queued" /\ status' = [status EXCEPT ![u] = "pending"]

Inserts(S) ==
    /\ \A u \in S : status[u] = "none" /\ ItemFree(u) /\ status'[u] \in {"queued", "pending"}
    /\ \A u, v \in S : ItemOf[u] = ItemOf[v] => u = v
    /\ \A u, v \in S : status'[u] = "pending" /\ status'[v] = "pending" => u = v
    /\ \A u \in S : status'[u] = "pending" => HostFree
    /\ \A u \in Updates \ S : status'[u] = status[u]
InsertsOne == \E u \in Updates : BatchOf[u] = None /\ req'[u] = "none" /\ Inserts({u})
InsertsBatch == \E b \in Batches : batch'[b] # "none" /\ Inserts(RowsOf(b))

StatusShape == Calm \/ Promotes \/ InsertsOne \/ InsertsBatch

BatchShape ==
    \A b \in Batches :
        \/ batch'[b] = batch[b]
        \/ batch[b] = "none" /\ batch'[b] = "in_progress"
        \/ /\ batch[b] = "in_progress" /\ batch'[b] \in Settled
           /\ \A u \in RowsOf(b) : status'[u] \in Terminal

RequestShape ==
    \A u \in Updates : req'[u] # "none" =>
        req[u] # "none" \/ (status[u] = "none" /\ BatchOf[u] = None)

OrchestratorShape == \A u \in orch' : u \in orch \/ status'[u] # "none"

WorkShape ==
    \A w \in Workers : work'[w].op \in {"load", "protect", "create"} =>
        work'[w] = work[w] \/ status'[work'[w].u] # "none"

Shape ==
    StatusShape /\ BatchShape /\ RequestShape /\ OrchestratorShape /\ WorkShape /\ CreateIsNew'

\* A status that moves as the unconditional statements move it.
LEMMA RowMovesCalmly ==
    ASSUME TypeInv, NEW u \in Updates, NEW t, Ordinary(status[u], t),
           status' = [status EXCEPT ![u] = t]
    PROVE  Calm
BY DEF TypeInv, TypeOK, Calm, Ordinary

LEMMA UnchangedIsCalm ==
    ASSUME TypeInv, UNCHANGED status
    PROVE  Calm
BY DEF Calm, Ordinary

\* Steps that leave the table, the requests and the jobs alone.
LEMMA QuietShape ==
    ASSUME TypeInv, Born, UNCHANGED <<status, batch, req, orch, work>>
    PROVE  Shape
<1>1. Calm
  BY UnchangedIsCalm
<1>2. QED
  BY <1>1 DEF Shape, StatusShape, BatchShape, RequestShape, OrchestratorShape, WorkShape,
              Born, CreateIsNew

\* No step but the INSERT brings a batch into being.
NoNewBatch == \A b \in Batches : batch[b] = "none" => batch'[b] = "none"

\* maybe_complete_batch settles only a batch whose rows have all ended.
LEMMA SettlingShape ==
    ASSUME TypeInv, NEW b \in Batches \cup {None},
           batch' \in {batch, maybe_complete_batch(b, status')}
    PROVE  BatchShape /\ NoNewBatch
<1>1. CASE batch' = batch
  BY <1>1 DEF BatchShape, NoNewBatch
<1>2. CASE batch' = maybe_complete_batch(b, status')
  BY <1>2, SetsAssumption DEF TypeInv, TypeOK, maybe_complete_batch, BatchShape, NoNewBatch,
                              Settled
<1>3. QED
  BY <1>1, <1>2

\* A job that goes on, without creating a batch, to a row that exists.
LEMMA GotoShape ==
    ASSUME TypeInv, Born, NoNewBatch, NEW w \in Workers, NEW job \in JobType, Goto(w, job),
           job.op \notin {"busy", "free"},
           job.op \in {"load", "protect", "create"} => status'[job.u] # "none"
    PROVE  WorkShape /\ CreateIsNew'
<1>1. WorkShape
  BY DEF TypeInv, TypeOK, WorkShape, Goto, JobType
<1>2. CreateIsNew'
  BY DEF TypeInv, TypeOK, CreateIsNew, Born, Goto, Workers, NoNewBatch
<1>3. QED
  BY <1>1, <1>2

\* The jobs that carry no row and create no batch.
Plain(job) == job \in JobType /\ job.op \notin {"busy", "free", "load", "protect", "create"}

LEMMA PlainJobs ==
    /\ Plain(Idle)
    /\ \A w \in Workers : Plain(After(w))
    /\ \A w \in Workers, u \in Updates : Plain(Successor(w, u))
    /\ \A b \in Batches \cup {None} : Plain(Job("direct", None, b))
    /\ \A u \in Updates \cup {None} : Plain(Job("orphans", u, None))
    /\ Plain(Job("interrupt", None, None))
<1> USE SetsAssumption DEF Plain, Job, JobType, Ops
<1>1. Plain(Idle)
  BY DEF Idle
<1>2. \A w \in Workers : Plain(After(w))
  BY DEF After, Idle
<1>3. \A w \in Workers, u \in Updates : Plain(Successor(w, u))
  BY DEF Successor
<1>4. QED
  BY <1>1, <1>2, <1>3

\* A worker moves to a plain job, or stays, while the table changes.
LEMMA PlainShape ==
    ASSUME TypeInv, Born, StatusShape, BatchShape, NoNewBatch, UNCHANGED <<req, orch>>,
           NEW w \in Workers, NEW job, UNCHANGED work \/ (Plain(job) /\ Goto(w, job))
    PROVE  Shape
<1>1. WorkShape /\ CreateIsNew'
  <2>1. CASE UNCHANGED work
    BY <2>1 DEF WorkShape, Born, CreateIsNew, NoNewBatch
  <2>2. CASE Plain(job) /\ Goto(w, job)
    BY <2>2, GotoShape DEF Plain
  <2>3. QED
    BY <2>1, <2>2
<1>2. QED
  BY <1>1 DEF Shape, RequestShape, OrchestratorShape

\* So does one that leaves the batches alone.
LEMMA CalmJobShape ==
    ASSUME TypeInv, Born, Calm, UNCHANGED <<batch, req, orch>>,
           NEW w \in Workers, NEW job, UNCHANGED work \/ (Plain(job) /\ Goto(w, job))
    PROVE  Shape
<1>1. BatchShape /\ NoNewBatch
  BY DEF BatchShape, NoNewBatch
<1>2. StatusShape
  BY DEF StatusShape
<1>3. QED
  BY <1>1, <1>2, PlainShape

\* The steps about one row have the shape.
LEMMA ShapeRowStep ==
    ASSUME TypeInv, Born, NEW u \in Updates, RowStep(u)
    PROVE  Shape
<1> USE PlainJobs DEF HostBlocking, Terminal
<1>0. {"api", "processor", "recovery", "reaper", "restart", "startup"} \subseteq Workers
  BY DEF Workers
<1>1. CASE TriggerUpdate(u)
  <2>1. Calm
    BY <1>1, UnchangedIsCalm DEF TriggerUpdate
  <2>2. RequestShape
    BY <1>1 DEF TriggerUpdate, RequestShape, TypeInv, TypeOK
  <2>3. QED
    BY <1>1, <2>1, <2>2 DEF TriggerUpdate, Shape, StatusShape, BatchShape, OrchestratorShape,
                            WorkShape, Born, CreateIsNew
<1>2. CASE InsertUpdate(u)
  <2>1. RequestShape /\ req'[u] = "none"
    BY <1>2 DEF InsertUpdate, RequestShape, TypeInv, TypeOK
  <2>2. status[u] = "none" /\ BatchOf[u] = None
    BY <1>2 DEF InsertUpdate, Born, RequestIsNew
  <2>3. StatusShape
    <3>1. CASE UNCHANGED status
      BY <3>1, UnchangedIsCalm DEF StatusShape
    <3>2. CASE status' = [status EXCEPT ![u] = "queued"] /\ ItemFree(u)
      <4>1. Inserts({u})
        BY <2>2, <3>2 DEF Inserts, TypeInv, TypeOK
      <4>2. QED
        BY <2>1, <2>2, <4>1 DEF StatusShape, InsertsOne
    <3>3. CASE status' = [status EXCEPT ![u] = "pending"] /\ ItemFree(u) /\ HostFree
      <4>1. Inserts({u})
        BY <2>2, <3>3 DEF Inserts, TypeInv, TypeOK
      <4>2. QED
        BY <2>1, <2>2, <4>1 DEF StatusShape, InsertsOne
    <3>4. QED
      BY <1>2, <3>1, <3>2, <3>3 DEF InsertUpdate
  <2>4. QED
    BY <1>2, <2>1, <2>3 DEF InsertUpdate, Shape, BatchShape, OrchestratorShape, WorkShape,
                            Born, CreateIsNew
<1>3. CASE OrchestratorBegin(u)
  <2>1. CASE UNCHANGED <<status, orch>>
    BY <1>3, <2>1, QuietShape DEF OrchestratorBegin
  <2>2. CASE /\ status[u] = "pending" /\ status' = [status EXCEPT ![u] = "in_progress"]
             /\ orch' = orch \cup {u}
    <3>1. Calm
      BY <2>2, RowMovesCalmly DEF Ordinary
    <3>2. OrchestratorShape
      BY <2>2 DEF OrchestratorShape, TypeInv, TypeOK
    <3>3. QED
      BY <1>3, <3>1, <3>2 DEF OrchestratorBegin, Shape, StatusShape, BatchShape, RequestShape,
                              WorkShape, Born, CreateIsNew
  <2>3. QED
    BY <1>3, <2>1, <2>2 DEF OrchestratorBegin, TakesRow
<1>4. CASE OrchestratorProceed(u) \/ OrchestratorFail(u)
  <2>1. Calm
    <3>1. CASE UNCHANGED status
      BY <3>1, UnchangedIsCalm
    <3>2. CASE OrchestratorFail(u)
      BY <3>2, RowMovesCalmly DEF OrchestratorFail, Ordinary, Born, OrchestratedExist
    <3>3. QED
      BY <1>4, <3>1, <3>2 DEF OrchestratorProceed
  <2>2. orch' \subseteq orch /\ UNCHANGED <<batch, req, work>>
    BY <1>4 DEF OrchestratorProceed, OrchestratorFail
  <2>3. QED
    BY <2>1, <2>2 DEF Shape, StatusShape, BatchShape, RequestShape, OrchestratorShape,
                      WorkShape, Born, CreateIsNew
<1>5. ASSUME NEW w \in Recoveries, FailUnreplayable(w, u) PROVE Shape
  <2>1. Calm
    BY <1>5, RowMovesCalmly DEF FailUnreplayable, Ordinary
  <2>2. QED
    BY <1>5, <2>1, CalmJobShape, WorkersAre DEF FailUnreplayable
<1>6. CASE HandleStarted(u)
  <2>1. Calm
    BY <1>6, RowMovesCalmly DEF HandleStarted, Claimable, Ordinary
  <2>2. QED
    BY <1>0, <1>6, <2>1, CalmJobShape DEF HandleStarted
<1>7. CASE HandleResult(u)
  <2>1. CASE UNCHANGED <<status, work>>
    BY <1>7, <2>1, QuietShape DEF HandleResult
  <2>2. CASE /\ CanAwaitRestart(u) /\ UNCHANGED work
             /\ status' = [status EXCEPT ![u] = "awaiting_restart"]
    <3>1. Calm
      BY <2>2, RowMovesCalmly DEF CanAwaitRestart, Ordinary
    <3>2. QED
      BY <1>0, <1>7, <2>2, <3>1, CalmJobShape DEF HandleResult
  <2>3. CASE /\ Finalizable(u) \/ Unstarted(u)
             /\ status' = [status EXCEPT ![u] = FinalStatus(Head(toCtl).kind)]
             /\ Goto("processor", Successor("processor", u))
    <3>1. FinalStatus(Head(toCtl).kind) \in {"completed", "failed"}
      BY DEF FinalStatus
    <3>2. status[u] \in {"pending", "in_progress", "interrupted"}
      BY <2>3 DEF Finalizable, Unstarted
    <3>3. Calm
      BY <2>3, <3>1, <3>2, RowMovesCalmly DEF Ordinary
    <3>4. QED
      BY <1>0, <1>7, <2>3, <3>3, CalmJobShape DEF HandleResult
  <2>4. QED
    BY <1>7, <2>1, <2>2, <2>3 DEF HandleResult
<1>8. CASE HandleVersionCheck(u)
  <2>1. Calm
    BY <1>8, RowMovesCalmly DEF HandleVersionCheck, Ordinary
  <2>2. BatchOf[u] \in Batches \cup {None}
    BY SetsAssumption
  <2>3. QED
    BY <1>0, <1>8, <2>1, <2>2, CalmJobShape DEF HandleVersionCheck
<1>9. CASE RestartTimeout(u)
  <2>1. Calm
    BY <1>9, RowMovesCalmly DEF RestartTimeout, Ordinary
  <2>2. QED
    BY <1>0, <1>9, <2>1, CalmJobShape DEF RestartTimeout
<1>10. CASE ReapOverdue(u) \/ ReapPending(u)
  <2>1. Calm
    BY <1>10, RowMovesCalmly DEF ReapOverdue, ReapPending, Reapable, Ordinary
  <2>2. BatchOf[u] \in Batches \cup {None}
    BY SetsAssumption
  <2>3. Goto("reaper", Job("direct", None, BatchOf[u])) \/ Goto("reaper", Idle)
    BY <1>10 DEF ReapOverdue, ReapPending, AfterReap
  <2>4. UNCHANGED <<batch, req, orch>>
    BY <1>10 DEF ReapOverdue, ReapPending
  <2>5. QED
    BY <1>0, <2>1, <2>2, <2>3, <2>4, CalmJobShape
<1>11. QED
  BY <1>1, <1>2, <1>3, <1>4, <1>5, <1>6, <1>7, <1>8, <1>9, <1>10 DEF RowStep

\* The two steps of create_batch have it.
LEMMA ShapeBatchStep ==
    ASSUME TypeInv, Born, NEW b \in Batches, CreateBatch(b) \/ InsertBatch(b)
    PROVE  Shape
<1>0. "api" \in Workers
  BY DEF Workers
<1>1. CASE CreateBatch(b)
  <2>1. Calm
    BY <1>1, UnchangedIsCalm DEF CreateBatch
  <2> DEFINE op == IF HostFree THEN "free" ELSE "busy"
  <2>2. work' = [work EXCEPT !["api"] = Job(op, None, b)] /\ op \in {"free", "busy"}
    BY <1>1 DEF CreateBatch, Goto
  <2> HIDE DEF op
  <2>3. WorkShape
    BY <2>2 DEF WorkShape, Job, TypeInv, TypeOK
  <2>4. CreateIsNew'
    BY <1>0, <1>1, <2>2 DEF CreateIsNew, Job, TypeInv, TypeOK, CreateBatch
  <2>5. QED
    BY <1>1, <2>1, <2>3, <2>4 DEF CreateBatch, Shape, StatusShape, BatchShape, RequestShape,
                                  OrchestratorShape
<1>2. CASE InsertBatch(b)
  <2>1. batch[b] = "none" /\ \A u \in RowsOf(b) : status[u] = "none"
    BY <1>2 DEF InsertBatch, Born, CreateIsNew, BatchIsNew
  <2>2. UNCHANGED <<req, orch>>
    BY <1>2 DEF InsertBatch
  <2>3. CASE UNCHANGED <<status, batch>> /\ Goto("api", Idle)
    <3>1. Calm
      BY <2>3, UnchangedIsCalm
    <3>2. QED
      BY <1>0, <2>2, <2>3, <3>1, CalmJobShape, PlainJobs
  <2>4. CASE batch' = [batch EXCEPT ![b] = "in_progress"]
    <3> DEFINE busy == work["api"].op = "busy"
               First(u) == \A v \in RowsOf(b) : u <= v
    <3>1. /\ busy \/ HostFree
          /\ \A u \in RowsOf(b) : ItemFree(u)
          /\ \A u, v \in RowsOf(b) : ItemOf[u] = ItemOf[v] => u = v
          /\ status' = [u \in Updates |->
                          IF u \notin RowsOf(b) THEN status[u]
                          ELSE IF First(u) /\ ~busy THEN "pending" ELSE "queued"]
      BY <1>2, <2>1, <2>4 DEF InsertBatch, TypeInv, TypeOK
    <3>2. \/ Goto("api", Idle)
          \/ ~busy /\ \E u \in RowsOf(b) : First(u) /\ Goto("api", Job("create", u, b))
      BY <1>2, <2>1, <2>4 DEF InsertBatch, TypeInv, TypeOK
    <3>3. \A u, v \in RowsOf(b) : First(u) /\ First(v) => u = v
      BY SetsAssumption DEF RowsOf
    <3>4. \A u \in Updates :
             status'[u] = IF u \notin RowsOf(b) THEN status[u]
                          ELSE IF First(u) /\ ~busy THEN "pending" ELSE "queued"
      BY <3>1
    <3>5. RowsOf(b) \subseteq Updates
      BY DEF RowsOf
    <3> HIDE DEF busy, First
    <3>6. Inserts(RowsOf(b))
      BY <2>1, <3>1, <3>3, <3>4, <3>5 DEF Inserts
    <3>7. StatusShape /\ BatchShape
      BY <2>1, <2>4, <3>6 DEF StatusShape, InsertsBatch, BatchShape, TypeInv, TypeOK
    <3>8. WorkShape /\ CreateIsNew'
      <4>1. CASE Goto("api", Idle)
        BY <1>0, <4>1 DEF WorkShape, CreateIsNew, Goto, Idle, Job, TypeInv, TypeOK
      <4>2. ASSUME NEW u \in RowsOf(b), First(u), ~busy, Goto("api", Job("create", u, b))
            PROVE  WorkShape /\ CreateIsNew'
        <5>1. status'[u] = "pending"
          BY <3>4, <3>5, <4>2
        <5>2. work' = [work EXCEPT !["api"] = Job("create", u, b)]
          BY <4>2 DEF Goto
        <5>3. Job("create", u, b).op = "create" /\ Job("create", u, b).u = u
          BY DEF Job
        <5>4. WorkShape
          BY <5>1, <5>2, <5>3 DEF WorkShape, TypeInv, TypeOK
        <5>5. CreateIsNew'
          BY <1>0, <5>2, <5>3 DEF CreateIsNew, TypeInv, TypeOK
        <5>6. QED
          BY <5>4, <5>5
      <4>3. QED
        BY <3>2, <4>1, <4>2
    <3>9. QED
      BY <2>2, <3>7, <3>8 DEF Shape, RequestShape, OrchestratorShape
  <2>5. QED
    BY <1>2, <2>3, <2>4 DEF InsertBatch
<1>3. QED
  BY <1>1, <1>2

\* The steps of the dispatching jobs have it.
LEMMA ShapeJobStep ==
    ASSUME TypeInv, Born, NEW w \in Workers, JobStep(w)
    PROVE  Shape
<1> USE PlainJobs, SetsAssumption
<1>1. CASE DispatchQueued(w)
  <2>1. BatchShape /\ NoNewBatch /\ UNCHANGED <<req, orch>>
    BY <1>1 DEF DispatchQueued, BatchShape, NoNewBatch
  <2>2. CASE UNCHANGED status /\ Goto(w, Idle)
    BY <2>1, <2>2, UnchangedIsCalm, PlainShape DEF StatusShape
  <2>3. ASSUME HostFree, NEW u \in Queued, status' = [status EXCEPT ![u] = "pending"],
               Goto(w, Job("load", u, None))
        PROVE  Shape
    <3>1. StatusShape
      BY <2>3 DEF StatusShape, Promotes, Queued
    <3>2. u \in Updates /\ status'[u] # "none"
      BY <2>3 DEF Queued, TypeInv, TypeOK
    <3>3. /\ Job("load", u, None) \in JobType
          /\ Job("load", u, None).op = "load" /\ Job("load", u, None).u = u
      BY <3>2, JobIsTyped DEF Ops, Job
    <3>4. WorkShape /\ CreateIsNew'
      BY <2>1, <2>3, <3>2, <3>3, GotoShape
    <3>5. QED
      BY <2>1, <3>1, <3>4 DEF Shape, RequestShape, OrchestratorShape
  <2>4. QED
    BY <1>1, <2>2, <2>3 DEF DispatchQueued
<1>2. CASE SpawnQueued(w)
  <2>1. work[w].u \in Updates /\ status[work[w].u] # "none"
    BY <1>2 DEF SpawnQueued, TypeInv, ProtectedRowsExist, Born, WorkedOnExist
  <2>2. Calm
    <3>1. CASE UNCHANGED status
      BY <3>1, UnchangedIsCalm
    <3>2. CASE status' = [status EXCEPT ![work[w].u] = "failed"]
      BY <2>1, <3>2, RowMovesCalmly DEF Ordinary
    <3>3. QED
      BY <1>2, <3>1, <3>2 DEF SpawnQueued
  <2>3. QED
    BY <1>2, <2>2, CalmJobShape DEF SpawnQueued
<1>3. CASE DispatchDirect(w)
  <2>0. UNCHANGED <<req, orch>>
    BY <1>3 DEF DispatchDirect
  <2>1. CASE /\ batch' \in {batch, maybe_complete_batch(work[w].b, status)}
             /\ Goto(w, After(w))
             /\ UNCHANGED status
    <3>1. work[w].b \in Batches \cup {None} /\ status' = status
      BY <2>1 DEF TypeInv, TypeOK
    <3>2. BatchShape /\ NoNewBatch
      BY <2>1, <3>1, SettlingShape
    <3>3. StatusShape
      BY <2>1, UnchangedIsCalm DEF StatusShape
    <3>4. QED
      BY <2>0, <2>1, <3>2, <3>3, PlainShape
  <2>2. ASSUME HostFree, NEW u \in Queued, status' = [status EXCEPT ![u] = "pending"],
               Goto(w, Job("protect", u, work[w].b)), UNCHANGED batch
        PROVE  Shape
    <3>1. StatusShape
      BY <2>2 DEF StatusShape, Promotes, Queued
    <3>2. BatchShape /\ NoNewBatch
      BY <2>2 DEF BatchShape, NoNewBatch
    <3>3. u \in Updates /\ work[w].b \in Batches \cup {None} /\ status'[u] # "none"
      BY <2>2 DEF Queued, TypeInv, TypeOK
    <3>4. /\ Job("protect", u, work[w].b) \in JobType
          /\ Job("protect", u, work[w].b).op = "protect"
          /\ Job("protect", u, work[w].b).u = u
      BY <3>3, JobIsTyped DEF Ops, Job
    <3>5. WorkShape /\ CreateIsNew'
      BY <2>2, <3>2, <3>3, <3>4, GotoShape
    <3>6. QED
      BY <2>0, <3>1, <3>2, <3>5 DEF Shape, RequestShape, OrchestratorShape
  <2>3. ASSUME NEW u \in Queued, status' = [status EXCEPT ![u] = "failed"],
               batch' = maybe_complete_batch(BatchOf[u], status'), UNCHANGED work
        PROVE  Shape
    <3>1. u \in Updates /\ status[u] = "queued" /\ BatchOf[u] \in Batches \cup {None}
      BY DEF Queued
    <3>2. Calm
      BY <2>3, <3>1, RowMovesCalmly DEF Ordinary
    <3>3. BatchShape /\ NoNewBatch
      BY <2>3, <3>1, SettlingShape
    <3>4. QED
      BY <2>0, <2>3, <3>2, <3>3, PlainShape DEF StatusShape
  <2>4. QED
    BY <1>3, <2>1, <2>2, <2>3 DEF DispatchDirect
<1>4. CASE DirectProceed(w)
  <2>1. work[w].b \in Batches \cup {None} /\ status' = status
    BY <1>4 DEF TypeInv, TypeOK, DirectProceed
  <2>2. BatchShape /\ NoNewBatch
    BY <1>4, <2>1, SettlingShape DEF DirectProceed
  <2>3. StatusShape
    BY <2>1, UnchangedIsCalm DEF StatusShape
  <2>4. QED
    BY <1>4, <2>2, <2>3, PlainShape DEF DirectProceed
<1>5. CASE DirectFail(w)
  <2>1. /\ work[w].u \in Updates /\ work[w].b \in Batches \cup {None}
        /\ status[work[w].u] # "none"
    BY <1>5 DEF DirectFail, TypeInv, TypeOK, ProtectedRowsExist, Born, WorkedOnExist
  <2>2. BatchOf[work[w].u] \in Batches \cup {None}
    BY <2>1
  <2>3. BatchShape /\ NoNewBatch
    BY <1>5, <2>2, SettlingShape DEF DirectFail
  <2>4. StatusShape
    BY <1>5, <2>1, RowMovesCalmly DEF DirectFail, Ordinary, StatusShape
  <2>5. QED
    BY <1>5, <2>1, <2>3, <2>4, PlainShape DEF DirectFail
<1>6. QED
  BY <1>1, <1>2, <1>3, <1>4, <1>5 DEF JobStep

\* The steps of recovery have it.
LEMMA ShapeRecover ==
    ASSUME TypeInv, Born, NEW w \in Recoveries, Recover(w)
    PROVE  Shape
<1> USE PlainJobs, SetsAssumption
<1>0. w \in Workers
  BY WorkersAre
<1>1. CASE InterruptOwned(w)
  <2>1. Calm
    BY <1>1 DEF InterruptOwned, Calm, Ordinary, HostBlocking, Terminal, TypeInv, TypeOK
  <2>2. PICK u \in Updates \cup {None} : Goto(w, Job("orphans", u, None))
    BY <1>1 DEF InterruptOwned
  <2>3. QED
    BY <1>0, <1>1, <2>1, <2>2, CalmJobShape DEF InterruptOwned
<1>2. CASE FailOrphans(w)
  <2>1. Calm
    BY <1>2 DEF FailOrphans, Calm, Ordinary, TypeInv, TypeOK
  <2>2. PICK job : Plain(job) /\ Goto(w, job)
    BY <1>0, <1>2 DEF FailOrphans, TypeInv, TypeOK
  <2>3. QED
    BY <1>0, <1>2, <2>1, <2>2, CalmJobShape DEF FailOrphans
<1>3. CASE PromoteForReplay(w)
  <2>1. BatchShape /\ NoNewBatch
    BY <1>3 DEF PromoteForReplay, BatchShape, NoNewBatch
  <2>2. StatusShape
    <3>1. CASE UNCHANGED status
      BY <3>1, UnchangedIsCalm DEF StatusShape
    <3>2. ASSUME HostFree, NEW u \in Queued, status' = [status EXCEPT ![u] = "pending"]
          PROVE  StatusShape
      BY <3>2 DEF StatusShape, Promotes, Queued
    <3>3. QED
      BY <1>3, <3>1, <3>2 DEF PromoteForReplay
  <2>3. QED
    BY <1>0, <1>3, <2>1, <2>2, PlainShape DEF PromoteForReplay
<1>4. CASE ReplayPending(w)
  <2>1. Calm
    BY <1>4, UnchangedIsCalm DEF ReplayPending
  <2>2. QED
    BY <1>0, <1>4, <2>1, CalmJobShape DEF ReplayPending
<1>5. QED
  BY <1>1, <1>2, <1>3, <1>4 DEF Recover

\* So has every step.
LEMMA StepHasShape == TypeInv /\ Born /\ [Next]_vars => Shape
<1> SUFFICES ASSUME TypeInv, Born, [Next]_vars PROVE Shape
  OBVIOUS
<1>0. "recovery" \in Workers /\ "startup" \in Workers
  BY DEF Workers
<1>1. CASE AgentConnect
  <2>1. Calm /\ UNCHANGED <<status, batch, req, orch>>
    BY <1>1, UnchangedIsCalm DEF AgentConnect
  <2>2. ConnectMoves /\ work' \in [Workers -> JobType]
    BY <1>1, ConnectJobs
  <2>3. ASSUME NEW w \in Workers, work'[w].op \in {"load", "protect", "create"}
        PROVE  status'[work'[w].u] # "none"
    BY <2>1, <2>2, <2>3 DEF ConnectMoves, Idle, Job, Born, WorkedOnExist
  <2>4. WorkShape /\ CreateIsNew'
    BY <2>1, <2>2, <2>3 DEF WorkShape, ConnectMoves, Born, CreateIsNew
  <2>5. QED
    BY <2>1, <2>4 DEF Shape, StatusShape, BatchShape, RequestShape, OrchestratorShape
<1>2. CASE AgentStep /\ ~AgentConnect
  <2>1. UNCHANGED <<table, req, orch, work>>
    BY <1>2 DEF AgentStep, AgentExecute, AgentGate, AgentEarlyResult, AgentFinish, AgentRestart
  <2>2. QED
    BY <2>1, QuietShape
<1>3. CASE Disconnect \/ UNCHANGED vars
  BY <1>3, QuietShape DEF Disconnect, vars
<1>4. CASE ControllerCrash
  <2>1. Calm
    BY <1>4, UnchangedIsCalm DEF ControllerCrash
  <2>2. WorkShape /\ CreateIsNew'
    BY <1>4 DEF ControllerCrash, WorkShape, CreateIsNew, Idle, Job, Workers
  <2>3. RequestShape /\ OrchestratorShape
    BY <1>4 DEF ControllerCrash, RequestShape, OrchestratorShape
  <2>4. QED
    BY <1>4, <2>1, <2>2, <2>3 DEF ControllerCrash, Shape, StatusShape, BatchShape
<1>5. CASE RolloutCleanup
  <2>1. Calm
    BY <1>5 DEF RolloutCleanup, Calm, Ordinary, HostBlocking, Terminal, TypeInv, TypeOK
  <2>2. PICK b \in Batches \cup {None} :
            Goto("startup", Idle) \/ Goto("startup", Job("direct", None, b))
    BY <1>5, SetsAssumption DEF RolloutCleanup
  <2>3. UNCHANGED <<batch, req, orch>>
    BY <1>5 DEF RolloutCleanup
  <2>4. QED
    BY <1>0, <2>1, <2>2, <2>3, CalmJobShape, PlainJobs
<1>6. CASE EndSession \/ \E w \in OldProcessors : CancelProcessor(w)
  <2>1. PICK w \in Workers : Goto(w, Idle)
    BY <1>6, WorkersAre DEF EndSession, CancelProcessor
  <2>2. UNCHANGED <<status, batch, req, orch>>
    BY <1>6 DEF EndSession, CancelProcessor
  <2>3. QED
    BY <2>1, <2>2, UnchangedIsCalm, CalmJobShape, PlainJobs
<1>7. QED
  BY <1>1, <1>2, <1>3, <1>4, <1>5, <1>6, ShapeRowStep, ShapeBatchStep, ShapeJobStep, ShapeRecover
     DEF Next

\* A row without an INSERT is untouched, and one with it stays in the table.
LEMMA RowsComeByInsert ==
    ASSUME TypeInv, Born, Shape, NEW u \in Updates
    PROVE  /\ status[u] # "none" => status'[u] # "none"
           /\ status[u] = "none" /\ status'[u] # "none" =>
                 \/ BatchOf[u] = None /\ req'[u] = "none"
                 \/ \E b \in Batches : BatchOf[u] = b /\ batch'[b] # "none"
<1> USE DEF HostBlocking, Terminal
<1>1. CASE Calm
  BY <1>1 DEF Calm, Ordinary
<1>2. CASE Promotes
  BY <1>2 DEF Promotes, TypeInv, TypeOK
<1>3. CASE InsertsOne
  BY <1>3 DEF InsertsOne, Inserts
<1>4. CASE InsertsBatch
  BY <1>4 DEF InsertsBatch, Inserts, RowsOf
<1>5. QED
  BY <1>1, <1>2, <1>3, <1>4 DEF Shape, StatusShape

\* Where rows come from is inductive.
LEMMA BornStep ==
    ASSUME TypeInv, TypeInv', Born, Shape
    PROVE  Born'
<1>1. RequestIsNew'
  <2> SUFFICES ASSUME NEW u \in Updates, req'[u] # "none"
               PROVE  status'[u] = "none" /\ BatchOf[u] = None
    BY DEF RequestIsNew
  <2>1. status[u] = "none" /\ BatchOf[u] = None
    BY DEF Shape, RequestShape, Born, RequestIsNew
  <2>2. QED
    BY <2>1, RowsComeByInsert, SetsAssumption
<1>2. BatchIsNew'
  <2> SUFFICES ASSUME NEW b \in Batches, batch'[b] = "none", NEW u \in RowsOf(b)
               PROVE  status'[u] = "none"
    BY DEF BatchIsNew
  <2>1. u \in Updates /\ BatchOf[u] = b
    BY DEF RowsOf
  <2>2. batch[b] = "none"
    BY DEF Shape, BatchShape, Settled
  <2>3. status[u] = "none"
    BY <2>2 DEF Born, BatchIsNew
  <2>4. QED
    BY <2>1, <2>3, RowsComeByInsert, SetsAssumption
<1>3. OrchestratedExist'
  BY RowsComeByInsert DEF Shape, OrchestratorShape, Born, OrchestratedExist, TypeInv, TypeOK
<1>4. WorkedOnExist'
  <2> SUFFICES ASSUME NEW w \in Workers, work'[w].op \in {"load", "protect", "create"}
               PROVE  status'[work'[w].u] # "none"
    BY DEF WorkedOnExist
  <2>1. CASE work'[w] = work[w]
    BY <2>1, RowsComeByInsert DEF Born, WorkedOnExist, TypeInv, ProtectedRowsExist
  <2>2. QED
    BY <2>1 DEF Shape, WorkShape
<1>5. QED
  BY <1>1, <1>2, <1>3, <1>4 DEF Born, Shape

\* The table is consistent in every reachable state.
LEMMA BornAlways == Spec => [](TypeInv /\ Born)
<1>1. ASSUME Init PROVE TypeInv /\ Born
  <2>1. TypeInv
    BY <1>1, InitIsTyped
  <2>2. work["api"].op = "idle" /\ \A w \in Workers : work[w].op = "idle"
    BY <1>1 DEF Init, Workers, Idle, Job
  <2>3. QED
    BY <1>1, <2>1, <2>2 DEF Init, Born, RequestIsNew, BatchIsNew, CreateIsNew,
                            OrchestratedExist, WorkedOnExist, RowsOf
<1>2. TypeInv /\ Born /\ [Next]_vars => (TypeInv /\ Born)'
  BY TypeStep, StepHasShape, BornStep
<1>3. QED
  BY <1>1, <1>2, PTL DEF Spec

-----------------------------------------------------------------------------
(* The safety properties. *)

\* The host's slot is never given twice: only a promotion and an insertion take
\* it, both under the index, and every other statement keeps or frees it.
LEMMA SlotStep ==
    ASSUME TypeInv, TypeInv', OneActivePerHost, Shape
    PROVE  OneActivePerHost'
<1> SUFFICES ASSUME NEW u \in Updates, NEW v \in Updates,
                    status'[u] \in HostBlocking, status'[v] \in HostBlocking
             PROVE  u = v
  BY DEF OneActivePerHost
<1> USE DEF HostBlocking, Terminal
<1>1. CASE Calm
  <2>1. status[u] \in HostBlocking /\ status[v] \in HostBlocking
    BY <1>1 DEF Calm, Ordinary
  <2>2. QED
    BY <2>1 DEF OneActivePerHost
<1>2. CASE Promotes
  BY <1>2 DEF Promotes, HostFree, TypeInv, TypeOK
<1>3. ASSUME NEW S \in SUBSET Updates, Inserts(S) PROVE u = v
  BY <1>3 DEF Inserts, HostFree, OneActivePerHost
<1>4. CASE InsertsOne
  BY <1>3, <1>4 DEF InsertsOne
<1>5. CASE InsertsBatch
  BY <1>3, <1>5 DEF InsertsBatch, RowsOf
<1>6. QED
  BY <1>1, <1>2, <1>4, <1>5 DEF Shape, StatusShape

\* At most one row of the host is Pending, InProgress or AwaitingRestart, for
\* any number of rows, batches, faults and restarts.
THEOREM HostSlotIsExclusive == Spec => []OneActivePerHost
<1>1. Init => OneActivePerHost
  BY DEF Init, OneActivePerHost, HostBlocking
<1>2. TypeInv /\ Born /\ OneActivePerHost /\ TypeInv' /\ [Next]_vars => OneActivePerHost'
  BY StepHasShape, SlotStep
<1>3. QED
  BY <1>1, <1>2, BornAlways, PTL DEF Spec

\* An item never gets a second unfinished row: rows appear only where the
\* item's index sees none, and an ended row never becomes unfinished.
LEMMA ItemStep ==
    ASSUME TypeInv, TypeInv', OneUnfinishedPerItem, Shape
    PROVE  OneUnfinishedPerItem'
<1> SUFFICES ASSUME NEW u \in Updates, NEW v \in Updates, ItemOf[u] = ItemOf[v],
                    status'[u] \in Unfinished, status'[v] \in Unfinished
             PROVE  u = v
  BY DEF OneUnfinishedPerItem
<1> USE DEF Unfinished, HostBlocking, Terminal
<1>1. CASE Calm \/ Promotes
  <2>1. status[u] \in Unfinished /\ status[v] \in Unfinished
    BY <1>1 DEF Calm, Ordinary, Promotes, TypeInv, TypeOK
  <2>2. QED
    BY <2>1 DEF OneUnfinishedPerItem
<1>2. ASSUME NEW S \in SUBSET Updates, Inserts(S) PROVE u = v
  <2>1. CASE u \in S /\ v \in S
    BY <1>2, <2>1 DEF Inserts
  <2>2. CASE u \notin S /\ v \notin S
    BY <1>2, <2>2 DEF Inserts, OneUnfinishedPerItem
  <2>3. CASE u \in S /\ v \notin S
    BY <1>2, <2>3 DEF Inserts, ItemFree
  <2>4. CASE u \notin S /\ v \in S
    BY <1>2, <2>4 DEF Inserts, ItemFree
  <2>5. QED
    BY <2>1, <2>2, <2>3, <2>4
<1>3. CASE InsertsOne
  BY <1>2, <1>3 DEF InsertsOne
<1>4. CASE InsertsBatch
  BY <1>2, <1>4 DEF InsertsBatch, RowsOf
<1>5. QED
  BY <1>1, <1>3, <1>4 DEF Shape, StatusShape

\* At most one unfinished row per software item, whichever requests race.
THEOREM ItemIsExclusive == Spec => []OneUnfinishedPerItem
<1>1. Init => OneUnfinishedPerItem
  BY DEF Init, OneUnfinishedPerItem, Unfinished, HostBlocking
<1>2. TypeInv /\ Born /\ OneUnfinishedPerItem /\ TypeInv' /\ [Next]_vars
         => OneUnfinishedPerItem'
  BY StepHasShape, ItemStep
<1>3. QED
  BY <1>1, <1>2, BornAlways, PTL DEF Spec

\* No step revives an ended row.
LEMMA EndedStep ==
    ASSUME TypeInv, Born, Shape, NEW u \in Updates
    PROVE  /\ status[u] \in Terminal => status'[u] \in Terminal
           /\ status[u] = "failed" => status'[u] = "failed"
<1> USE DEF HostBlocking, Terminal
<1>1. CASE Calm
  BY <1>1 DEF Calm, Ordinary
<1>2. CASE Promotes
  BY <1>2 DEF Promotes, TypeInv, TypeOK
<1>3. CASE InsertsOne
  BY <1>3 DEF InsertsOne, Inserts
<1>4. CASE InsertsBatch
  BY <1>4 DEF InsertsBatch, Inserts
<1>5. QED
  BY <1>1, <1>2, <1>3, <1>4 DEF Shape, StatusShape

\* An ended row stays ended and a Failed one stays Failed, although starts and
\* results come late and several statements write a status by id alone.
THEOREM EndedIsFinal == Spec => EndedStaysEnded
<1> DEFINE Keeps == \A u \in Updates : /\ status[u] \in Terminal => status'[u] \in Terminal
                                       /\ status[u] = "failed" => status'[u] = "failed"
<1>1. TypeInv /\ Born /\ [Next]_vars => Keeps
  BY StepHasShape, EndedStep
<1>2. TypeInv /\ Born /\ [Next]_vars => [Keeps]_vars
  BY <1>1
<1>3. QED
  BY <1>2, BornAlways, PTL DEF Spec, EndedStaysEnded

\* A batch is Completed or PartiallyCompleted only when all its rows have ended,
\* and no row of it is unfinished afterwards.
THEOREM SettledBatchStaysEnded == Spec => []SettledBatchHasEnded
<1>1. Init => SettledBatchHasEnded
  BY DEF Init, SettledBatchHasEnded
<1>2. TypeInv /\ Born /\ SettledBatchHasEnded /\ [Next]_vars => SettledBatchHasEnded'
  <2> SUFFICES ASSUME TypeInv, Born, SettledBatchHasEnded, [Next]_vars,
                      NEW b \in Batches, batch'[b] \in Settled, NEW u \in RowsOf(b)
               PROVE  status'[u] \in Terminal
    BY DEF SettledBatchHasEnded, Settled
  <2>1. Shape
    BY StepHasShape
  <2>2. CASE batch'[b] = batch[b]
    <3>1. u \in Updates /\ status[u] \in Terminal
      BY <2>2 DEF SettledBatchHasEnded, Settled, RowsOf
    <3>2. QED
      BY <2>1, <3>1, EndedStep
  <2>3. QED
    BY <2>1, <2>2 DEF Shape, BatchShape, Settled
<1>3. QED
  BY <1>1, <1>2, BornAlways, PTL DEF Spec

-----------------------------------------------------------------------------
(* Success is never invented. *)

Done == {"completed", "awaiting_restart"}

\* A result on the wire that claims success is of a row that succeeded.
ResultsAreTrue ==
    \A i \in 1 .. Len(toCtl) :
        toCtl[i].kind \in {"completed", "restart"} => toCtl[i].u \in succeeded

\* What a step may do to the channel: the agent only claims what it has done.
ChannelShape ==
    /\ succeeded \subseteq succeeded'
    /\ \/ toCtl' = toCtl
       \/ toCtl # <<>> /\ toCtl' = Tail(toCtl)
       \/ toCtl' = <<>>
       \/ \E u \in Updates : toCtl' = <<[kind |-> "started", u |-> u]>>
       \/ \E kind \in Kinds, u \in Updates :
             /\ toCtl' = Append(toCtl, [kind |-> kind, u |-> u])
             /\ kind \in {"completed", "restart"} => u \in succeeded'

LEMMA ChannelStep ==
    ASSUME TypeInv, ResultsAreTrue, ChannelShape
    PROVE  ResultsAreTrue'
<1>0. toCtl \in Seq([kind : Kinds, u : Updates]) /\ succeeded \subseteq succeeded'
  BY DEF TypeInv, TypeOK, ChannelShape
<1>1. CASE toCtl' = toCtl
  BY <1>0, <1>1 DEF ResultsAreTrue
<1>2. CASE toCtl # <<>> /\ toCtl' = Tail(toCtl)
  <2>1. /\ Len(toCtl') = Len(toCtl) - 1
        /\ \A i \in 1 .. Len(toCtl') : toCtl'[i] = toCtl[i + 1]
    BY <1>0, <1>2
  <2>2. Len(toCtl) \in Nat
    BY <1>0
  <2>3. QED
    BY <1>0, <2>1, <2>2 DEF ResultsAreTrue
<1>3. CASE toCtl' = <<>>
  BY <1>3 DEF ResultsAreTrue
<1>4. ASSUME NEW u \in Updates, toCtl' = <<[kind |-> "started", u |-> u]>>
      PROVE  ResultsAreTrue'
  BY <1>4 DEF ResultsAreTrue
<1>5. ASSUME NEW kind \in Kinds, NEW u \in Updates,
             toCtl' = Append(toCtl, [kind |-> kind, u |-> u]),
             kind \in {"completed", "restart"} => u \in succeeded'
      PROVE  ResultsAreTrue'
  <2>1. /\ Len(toCtl') = Len(toCtl) + 1 /\ Len(toCtl) \in Nat
        /\ \A i \in 1 .. Len(toCtl) : toCtl'[i] = toCtl[i]
        /\ toCtl'[Len(toCtl) + 1] = [kind |-> kind, u |-> u]
    BY <1>0, <1>5
  <2>2. QED
    BY <1>0, <1>5, <2>1 DEF ResultsAreTrue
<1>6. QED
  BY <1>1, <1>2, <1>3, <1>4, <1>5 DEF ChannelShape

\* Every step treats the channel so.
LEMMA StepHasChannelShape == TypeInv /\ [Next]_vars => ChannelShape
<1> SUFFICES ASSUME TypeInv, [Next]_vars PROVE ChannelShape
  OBVIOUS
<1>1. ASSUME UNCHANGED <<toCtl, succeeded>> PROVE ChannelShape
  BY <1>1 DEF ChannelShape
<1>2. ASSUME NEW u \in Updates, RowStep(u) PROVE ChannelShape
  <2>1. CASE HandleStarted(u) \/ HandleResult(u)
    BY <2>1 DEF HandleStarted, HandleResult, Receive, ChannelShape
  <2>2. CASE ~(HandleStarted(u) \/ HandleResult(u))
    <3>1. UNCHANGED <<toCtl, succeeded>>
      BY <1>2, <2>2 DEF RowStep, TriggerUpdate, InsertUpdate, OrchestratorBegin,
            OrchestratorProceed, OrchestratorFail, FailUnreplayable, HandleVersionCheck,
            RestartTimeout, ReapOverdue, ReapPending
    <3>2. QED
      BY <1>1, <3>1
  <2>3. QED
    BY <2>1, <2>2
<1>3. ASSUME NEW b \in Batches, CreateBatch(b) \/ InsertBatch(b) PROVE ChannelShape
  BY <1>1, <1>3 DEF CreateBatch, InsertBatch
<1>4. ASSUME NEW w \in Workers, JobStep(w) PROVE ChannelShape
  BY <1>1, <1>4 DEF JobStep, DispatchQueued, SpawnQueued, DispatchDirect, DirectProceed,
                   DirectFail
<1>5. ASSUME NEW w \in Recoveries, Recover(w) PROVE ChannelShape
  BY <1>1, <1>5 DEF Recover, InterruptOwned, FailOrphans, PromoteForReplay, ReplayPending
<1>6. ASSUME AgentStep PROVE ChannelShape
  <2>1. CASE AgentConnect
    BY <2>1 DEF AgentConnect, ChannelShape, TypeInv, TypeOK
  <2>2. CASE AgentExecute
    <3>1. Head(toAgent) \in Updates
      BY <2>2 DEF AgentExecute, TypeInv, TypeOK
    <3>2. PICK kind \in {"failed", "started"} : Tell(kind, Head(toAgent))
      BY <2>2 DEF AgentExecute
    <3>3. QED
      BY <2>2, <3>1, <3>2 DEF AgentExecute, Tell, ChannelShape, Kinds
  <2>3. CASE AgentGate
    BY <1>1, <2>3 DEF AgentGate
  <2>4. CASE AgentEarlyResult
    BY <2>4, SetsAssumption DEF AgentEarlyResult, Tell, ChannelShape, Kinds, TypeInv, TypeOK
  <2>5. ASSUME NEW kind \in {"completed", "failed"}, AgentFinish(kind) PROVE ChannelShape
    <3>1. CASE early
      BY <1>1, <2>5, <3>1 DEF AgentFinish
    <3>2. CASE ~early
      BY <2>5, <3>2 DEF AgentFinish, Tell, ChannelShape, Kinds, TypeInv, TypeOK
    <3>3. QED
      BY <3>1, <3>2
  <2>6. CASE AgentRestart
    BY <2>6 DEF AgentRestart, LoseLink, ChannelShape
  <2>7. QED
    BY <1>6, <2>1, <2>2, <2>3, <2>4, <2>5, <2>6 DEF AgentStep
<1>7. ASSUME Disconnect \/ ControllerCrash PROVE ChannelShape
  BY <1>7 DEF Disconnect, ControllerCrash, LoseLink, ChannelShape
<1>8. ASSUME \/ RolloutCleanup \/ UNCHANGED vars
             \/ EndSession \/ \E w \in OldProcessors : CancelProcessor(w)
      PROVE  ChannelShape
  BY <1>1, <1>8 DEF RolloutCleanup, EndSession, CancelProcessor, vars
<1>9. QED
  BY <1>2, <1>3, <1>4, <1>5, <1>6, <1>7, <1>8 DEF Next

\* A row is called done by a true result, or because it was already.
DoneShape == \A u \in Updates : status'[u] \in Done => status[u] \in Done \/ u \in succeeded

LEMMA StepHasDoneShape == TypeInv /\ ResultsAreTrue /\ [Next]_vars => DoneShape
<1> SUFFICES ASSUME TypeInv, ResultsAreTrue, [Next]_vars PROVE DoneShape
  OBVIOUS
<1> USE DEF Done
<1>1. ASSUME UNCHANGED status PROVE DoneShape
  BY <1>1 DEF DoneShape
<1>2. ASSUME NEW u \in Updates, NEW t, status' = [status EXCEPT ![u] = t],
             t \in Done => status[u] \in Done \/ u \in succeeded
      PROVE  DoneShape
  BY <1>2 DEF DoneShape, TypeInv, TypeOK
<1>3. ASSUME NEW u \in Updates, RowStep(u) PROVE DoneShape
  <2>1. CASE HandleResult(u)
    <3>1. toCtl # <<>> /\ Head(toCtl).u = u
          /\ Head(toCtl).kind \in {"completed", "failed", "restart"}
      BY <2>1 DEF HandleResult, Receive
    <3>2. 1 \in 1 .. Len(toCtl) /\ Head(toCtl) = toCtl[1]
      BY <3>1 DEF TypeInv, TypeOK
    <3>3. Head(toCtl).kind # "failed" => u \in succeeded
      BY <3>1, <3>2 DEF ResultsAreTrue
    <3>4. CASE UNCHANGED status
      BY <1>1, <3>4
    <3>5. CASE /\ Head(toCtl).kind = "restart"
               /\ status' = [status EXCEPT ![u] = "awaiting_restart"]
      BY <1>2, <3>3, <3>5
    <3>6. CASE status' = [status EXCEPT ![u] = FinalStatus(Head(toCtl).kind)]
      BY <1>2, <3>3, <3>6 DEF FinalStatus
    <3>7. QED
      BY <2>1, <3>4, <3>5, <3>6 DEF HandleResult
  <2>2. CASE HandleStarted(u)
    BY <1>2, <2>2 DEF HandleStarted
  <2>3. CASE HandleVersionCheck(u)
    BY <1>2, <2>3 DEF HandleVersionCheck
  <2>4. CASE RowStep(u) /\ ~HandleResult(u) /\ ~HandleStarted(u) /\ ~HandleVersionCheck(u)
    <3>1. \/ UNCHANGED status
          \/ \E t \in {"queued", "pending", "in_progress", "failed", "interrupted"} :
                status' = [status EXCEPT ![u] = t]
      BY <2>4 DEF RowStep, TriggerUpdate, InsertUpdate, OrchestratorBegin,
            OrchestratorProceed, OrchestratorFail, FailUnreplayable, RestartTimeout,
            ReapOverdue, ReapPending
    <3>2. QED
      BY <1>1, <1>2, <3>1
  <2>5. QED
    BY <1>3, <2>1, <2>2, <2>3, <2>4
<1>4. ASSUME NEW b \in Batches, CreateBatch(b) \/ InsertBatch(b) PROVE DoneShape
  <2>1. CASE CreateBatch(b)
    BY <1>1, <2>1 DEF CreateBatch
  <2>2. CASE InsertBatch(b)
    BY <2>2, <1>1 DEF InsertBatch, DoneShape
  <2>3. QED
    BY <1>4, <2>1, <2>2
<1>5. ASSUME NEW w \in Workers, JobStep(w) PROVE DoneShape
  <2>1. CASE DispatchQueued(w) \/ SpawnQueued(w) \/ DispatchDirect(w)
    <3>1. \/ UNCHANGED status
          \/ \E u \in Updates, t \in {"pending", "failed"} : status' = [status EXCEPT ![u] = t]
      BY <2>1 DEF DispatchQueued, SpawnQueued, DispatchDirect, Queued, TypeInv,
                  ProtectedRowsExist
    <3>2. QED
      BY <1>1, <1>2, <3>1
  <2>2. CASE DirectProceed(w)
    BY <1>1, <2>2 DEF DirectProceed
  <2>3. CASE DirectFail(w)
    BY <1>2, <2>3 DEF DirectFail, TypeInv, ProtectedRowsExist
  <2>4. QED
    BY <1>5, <2>1, <2>2, <2>3 DEF JobStep
<1>6. ASSUME NEW w \in Recoveries, Recover(w) PROVE DoneShape
  <2>1. CASE InterruptOwned(w)
    BY <2>1 DEF InterruptOwned, DoneShape
  <2>2. CASE FailOrphans(w)
    BY <2>2 DEF FailOrphans, DoneShape
  <2>3. CASE PromoteForReplay(w)
    BY <1>1, <1>2, <2>3 DEF PromoteForReplay, Queued
  <2>4. CASE ReplayPending(w)
    BY <1>1, <2>4 DEF ReplayPending
  <2>5. QED
    BY <1>6, <2>1, <2>2, <2>3, <2>4 DEF Recover
<1>7. ASSUME RolloutCleanup PROVE DoneShape
  BY <1>7 DEF RolloutCleanup, DoneShape
<1>8. ASSUME \/ AgentStep \/ Disconnect \/ ControllerCrash \/ UNCHANGED vars
             \/ EndSession \/ \E w \in OldProcessors : CancelProcessor(w)
      PROVE  DoneShape
  <2>1. UNCHANGED status
    BY <1>8 DEF AgentStep, AgentConnect, AgentExecute, AgentGate, AgentEarlyResult,
                AgentFinish, AgentRestart, Disconnect, EndSession, CancelProcessor, ControllerCrash,
                vars
  <2>2. QED
    BY <1>1, <2>1
<1>9. QED
  BY <1>3, <1>4, <1>5, <1>6, <1>7, <1>8 DEF Next

\* A row is Completed, or awaits a restart, only if an execution of it succeeded
\* on the agent: no recovery, sweep or mixed-up message invents a success.
THEOREM SuccessIsReal == Spec => []CompletedMeansDone
<1>1. Init => CompletedMeansDone /\ ResultsAreTrue
  BY DEF Init, CompletedMeansDone, ResultsAreTrue
<1>2. /\ TypeInv /\ CompletedMeansDone /\ ResultsAreTrue /\ [Next]_vars
      => (CompletedMeansDone /\ ResultsAreTrue)'
  <2> SUFFICES ASSUME TypeInv, CompletedMeansDone, ResultsAreTrue, [Next]_vars
               PROVE  (CompletedMeansDone /\ ResultsAreTrue)'
    OBVIOUS
  <2>1. ChannelShape /\ DoneShape
    BY StepHasChannelShape, StepHasDoneShape
  <2>2. ResultsAreTrue'
    BY <2>1, ChannelStep
  <2>3. CompletedMeansDone'
    BY <2>1 DEF CompletedMeansDone, DoneShape, ChannelShape, Done
  <2>4. QED
    BY <2>2, <2>3
<1>3. QED
  BY <1>1, <1>2, BornAlways, PTL DEF Spec

-----------------------------------------------------------------------------
(* Dispatch: rows are protected before they are replayed, sent once unless     *)
(* they are sent while Pending, and attended to while they are Pending.        *)

\* The statuses of a row that no execution has begun for.
Fresh == {"none", "queued", "pending"}

\* No row becomes fresh again, and none goes back to the queue.
LEMMA FreshStep ==
    ASSUME TypeInv, Shape, NEW u \in Updates
    PROVE  /\ status'[u] \in Fresh => status[u] \in Fresh
           /\ status'[u] \in {"none", "queued"} => status[u] \in {"none", "queued"}
<1> USE DEF HostBlocking, Terminal, Fresh
<1>1. CASE Calm
  BY <1>1 DEF Calm, Ordinary
<1>2. CASE Promotes
  BY <1>2 DEF Promotes, TypeInv, TypeOK
<1>3. CASE InsertsOne
  BY <1>3 DEF InsertsOne, Inserts
<1>4. CASE InsertsBatch
  BY <1>4 DEF InsertsBatch, Inserts
<1>5. QED
  BY <1>1, <1>2, <1>3, <1>4 DEF Shape, StatusShape

\* A fresh row that is marked as protected was protected.
GuardedWhileFresh == \A u \in Updates : status[u] \in Fresh /\ prot[u] => u \in protected

\* The mark comes with the protection, or with a status the row does not leave
\* for a fresh one.
MarkShape ==
    /\ protected \subseteq protected'
    /\ \A u \in Updates :
          prot'[u] => prot[u] \/ u \in protected' \/ status'[u] \notin Fresh

LEMMA StepHasMarkShape == TypeInv /\ [Next]_vars => MarkShape
<1> SUFFICES ASSUME TypeInv, [Next]_vars PROVE MarkShape
  OBVIOUS
<1> USE DEF Fresh
<1>0. prot \in [Updates -> BOOLEAN] /\ protected \in SUBSET Updates
  BY DEF TypeInv, TypeOK
<1>1. ASSUME UNCHANGED prot, protected \subseteq protected' PROVE MarkShape
  BY <1>1 DEF MarkShape
<1>2. ASSUME NEW u \in Updates, NEW v, prot' = [prot EXCEPT ![u] = v],
             protected \subseteq protected',
             u \in protected' \/ status'[u] \notin Fresh
      PROVE  MarkShape
  BY <1>0, <1>2 DEF MarkShape
<1>3. ASSUME NEW u \in Updates, RowStep(u) PROVE MarkShape
  <2>1. CASE OrchestratorBegin(u)
    <3>1. CASE ~TakesRow(u)
      BY <1>1, <2>1, <3>1 DEF OrchestratorBegin
    <3>2. CASE TakesRow(u)
      <4>1. /\ prot' = [prot EXCEPT ![u] = TRUE] /\ UNCHANGED protected
            /\ status' = [status EXCEPT ![u] = "in_progress"]
        BY <2>1, <3>2 DEF OrchestratorBegin
      <4>2. status'[u] \notin Fresh
        BY <4>1 DEF TypeInv, TypeOK
      <4>3. QED
        BY <1>2, <4>1, <4>2
    <3>3. QED
      BY <3>1, <3>2
  <2>2. CASE ~OrchestratorBegin(u)
    <3>1. UNCHANGED prot /\ protected \subseteq protected'
      BY <1>3, <2>2 DEF RowStep, TriggerUpdate, InsertUpdate, OrchestratorProceed,
            OrchestratorFail, FailUnreplayable, HandleStarted, HandleResult,
            HandleVersionCheck, RestartTimeout, ReapOverdue, ReapPending
    <3>2. QED
      BY <1>1, <3>1
  <2>3. QED
    BY <2>1, <2>2
<1>4. ASSUME NEW b \in Batches, CreateBatch(b) \/ InsertBatch(b) PROVE MarkShape
  BY <1>1, <1>4 DEF CreateBatch, InsertBatch
<1>5. ASSUME NEW w \in Workers, JobStep(w) PROVE MarkShape
  <2>1. CASE DispatchQueued(w) \/ SpawnQueued(w) \/ DispatchDirect(w)
    BY <1>1, <2>1 DEF DispatchQueued, SpawnQueued, DispatchDirect
  <2>2. CASE DirectProceed(w)
    <3> DEFINE u == work[w].u
               guarded == Protection /\ w # "restart"
    <3>1. /\ prot' = [prot EXCEPT ![u] = prot[u] \/ guarded]
          /\ protected' = IF w = "restart" THEN protected ELSE protected \cup {u}
          /\ u \in Updates
      BY <2>2 DEF DirectProceed, TypeInv, ProtectedRowsExist
    <3>2. CASE w = "restart"
      <4>1. prot' = prot
        BY <1>0, <3>1, <3>2
      <4>2. QED
        BY <1>1, <3>1, <3>2, <4>1
    <3>3. CASE w # "restart"
      <4> HIDE DEF guarded, u
      <4>1. QED
        BY <1>2, <3>1, <3>3
    <3>4. QED
      BY <3>2, <3>3
  <2>3. CASE DirectFail(w)
    <3>1. work[w].u \in Updates
      BY <2>3 DEF DirectFail, TypeInv, ProtectedRowsExist
    <3>2. status'[work[w].u] = "failed"
      BY <2>3, <3>1 DEF DirectFail, TypeInv, TypeOK
    <3>3. QED
      BY <1>2, <2>3, <3>1, <3>2 DEF DirectFail
  <2>4. QED
    BY <1>5, <2>1, <2>2, <2>3 DEF JobStep
<1>6. ASSUME NEW w \in Recoveries, Recover(w) PROVE MarkShape
  <2>1. CASE FailOrphans(w)
    <3> DEFINE S == {u \in Updates : status[u] = "in_progress" /\ owner[u] = None}
    <3>1. /\ status' = [u \in Updates |-> IF u \in S THEN "failed" ELSE status[u]]
          /\ prot' = [u \in Updates |-> prot[u] \/ u \in S] /\ UNCHANGED protected
      BY <2>1 DEF FailOrphans
    <3> HIDE DEF S
    <3>2. QED
      BY <3>1 DEF MarkShape
  <2>2. CASE InterruptOwned(w) \/ PromoteForReplay(w) \/ ReplayPending(w)
    BY <1>1, <2>2 DEF InterruptOwned, PromoteForReplay, ReplayPending
  <2>3. QED
    BY <1>6, <2>1, <2>2 DEF Recover
<1>7. ASSUME \/ AgentStep \/ Disconnect \/ ControllerCrash \/ RolloutCleanup \/ UNCHANGED vars
             \/ EndSession \/ \E w \in OldProcessors : CancelProcessor(w)
      PROVE  MarkShape
  <2>1. UNCHANGED <<prot, protected>>
    BY <1>7 DEF AgentStep, AgentConnect, AgentExecute, AgentGate, AgentEarlyResult,
                AgentFinish, AgentRestart, Disconnect, EndSession, CancelProcessor, ControllerCrash,
                RolloutCleanup, vars
  <2>2. QED
    BY <1>1, <2>1
<1>8. QED
  BY <1>3, <1>4, <1>5, <1>6, <1>7 DEF Next

\* A Pending row that a replay would send without protecting it was protected,
\* by whichever of the five writers of the mark, and however often the row's
\* dispatch was interrupted.
THEOREM ReplaysAreProtected == Spec => []ReplayIsProtected
<1>1. Init => GuardedWhileFresh
  BY DEF Init, GuardedWhileFresh
<1>2. TypeInv /\ Born /\ GuardedWhileFresh /\ [Next]_vars => GuardedWhileFresh'
  <2> SUFFICES ASSUME TypeInv, Born, GuardedWhileFresh, [Next]_vars,
                      NEW u \in Updates, status'[u] \in Fresh, prot'[u]
               PROVE  u \in protected'
    BY DEF GuardedWhileFresh
  <2>1. MarkShape /\ status[u] \in Fresh
    BY StepHasMarkShape, StepHasShape, FreshStep
  <2>2. QED
    BY <2>1 DEF MarkShape, GuardedWhileFresh
<1>3. GuardedWhileFresh => ReplayIsProtected
  BY DEF GuardedWhileFresh, ReplayIsProtected, Fresh
<1>4. QED
  BY <1>1, <1>2, <1>3, BornAlways, PTL DEF Spec

\* An ExecuteUpdate of u is on its way to the agent.
InTransit(u) == \E i \in 1 .. Len(toAgent) : toAgent[i] = u

\* One permission to execute u exists at most: the fresh row, its orchestrator,
\* the message, or the execution.
SentOnce(u) ==
    /\ status[u] \in Fresh => u \notin orch /\ ~InTransit(u) /\ runs[u] = 0
    /\ u \in orch => ~InTransit(u) /\ runs[u] = 0
    /\ InTransit(u) => runs[u] = 0
    /\ \A i, j \in 1 .. Len(toAgent) : toAgent[i] = u /\ toAgent[j] = u => i = j
    /\ runs[u] # 2
UnpushedSentOnce == \A u \in Updates : u \notin pushed => SentOnce(u)

\* How the permission moves.
NothingSent == UNCHANGED <<toAgent, runs>> /\ orch' \subseteq orch
AllLost == toAgent' = <<>> /\ UNCHANGED runs /\ orch' \subseteq orch
Taken(u) ==
    /\ status[u] = "pending" /\ status'[u] = "in_progress"
    /\ orch' = orch \cup {u} /\ UNCHANGED <<toAgent, runs>>
Dispatched(u) ==
    /\ u \in orch /\ orch' = orch \ {u}
    /\ toAgent' = toAgent \/ toAgent' = Append(toAgent, u)
    /\ UNCHANGED runs
Pushed(u) ==
    /\ u \in pushed' /\ UNCHANGED <<orch, runs>>
    /\ \/ toAgent' = toAgent \/ toAgent' = Append(toAgent, u)
       \/ toAgent' = <<u>> \o toAgent
Executed ==
    /\ toAgent # <<>> /\ toAgent' = Tail(toAgent) /\ UNCHANGED orch
    /\ \/ UNCHANGED runs
       \/ LET u == Head(toAgent) IN
          runs' = [runs EXCEPT ![u] = IF runs[u] < 2 THEN runs[u] + 1 ELSE runs[u]]

SendShape ==
    /\ pushed \subseteq pushed'
    /\ \/ NothingSent \/ AllLost \/ Executed
       \/ \E u \in Updates : Taken(u) \/ Dispatched(u) \/ Pushed(u)

\* Every step moves it so.
LEMMA StepHasSendShape == TypeInv /\ [Next]_vars => SendShape
<1> SUFFICES ASSUME TypeInv, [Next]_vars PROVE SendShape
  OBVIOUS
<1>1. ASSUME UNCHANGED <<toAgent, runs, pushed>>, orch' \subseteq orch PROVE SendShape
  BY <1>1 DEF SendShape, NothingSent
<1>2. ASSUME NEW u \in Updates, RowStep(u) PROVE SendShape
  <2>1. CASE OrchestratorBegin(u)
    <3>1. CASE ~TakesRow(u)
      BY <1>1, <2>1, <3>1 DEF OrchestratorBegin
    <3>2. CASE TakesRow(u)
      <4>1. Taken(u) /\ UNCHANGED pushed
        BY <2>1, <3>2 DEF OrchestratorBegin, TakesRow, Taken, TypeInv, TypeOK
      <4>2. QED
        BY <4>1 DEF SendShape
    <3>3. QED
      BY <3>1, <3>2
  <2>2. CASE OrchestratorProceed(u)
    <3>1. Dispatched(u) /\ UNCHANGED pushed
      BY <2>2 DEF OrchestratorProceed, Send, Dispatched
    <3>2. QED
      BY <3>1 DEF SendShape
  <2>3. CASE ~OrchestratorBegin(u) /\ ~OrchestratorProceed(u)
    <3>1. UNCHANGED <<toAgent, runs, pushed>> /\ orch' \subseteq orch
      BY <1>2, <2>3 DEF RowStep, TriggerUpdate, InsertUpdate,
            OrchestratorFail, FailUnreplayable, HandleStarted, HandleResult,
            HandleVersionCheck, RestartTimeout, ReapOverdue, ReapPending
    <3>2. QED
      BY <1>1, <3>1
  <2>4. QED
    BY <2>1, <2>2, <2>3
<1>3. ASSUME NEW b \in Batches, CreateBatch(b) \/ InsertBatch(b) PROVE SendShape
  BY <1>1, <1>3 DEF CreateBatch, InsertBatch
<1>4. ASSUME NEW w \in Workers, JobStep(w) PROVE SendShape
  <2>1. CASE DirectProceed(w)
    <3>1. CASE w \in Recoveries
      BY <1>1, <2>1, <3>1 DEF DirectProceed
    <3>2. CASE w \notin Recoveries
      <4>1. work[w].u \in Updates
        BY <2>1 DEF DirectProceed, TypeInv, ProtectedRowsExist
      <4>2. Pushed(work[w].u) /\ pushed \subseteq pushed'
        BY <2>1, <3>2 DEF DirectProceed, Send, Pushed
      <4>3. QED
        BY <4>1, <4>2 DEF SendShape
    <3>3. QED
      BY <3>1, <3>2
  <2>2. CASE DispatchQueued(w) \/ SpawnQueued(w) \/ DispatchDirect(w) \/ DirectFail(w)
    BY <1>1, <2>2 DEF DispatchQueued, SpawnQueued, DispatchDirect, DirectFail
  <2>3. QED
    BY <1>4, <2>1, <2>2 DEF JobStep
<1>5. ASSUME NEW w \in Recoveries, Recover(w) PROVE SendShape
  <2>1. CASE ReplayPending(w)
    <3>1. CASE UNCHANGED <<toAgent, pushed>>
      BY <1>1, <2>1, <3>1 DEF ReplayPending
    <3>2. CASE ~UNCHANGED <<toAgent, pushed>>
      <4>1. PICK u \in Updates : /\ toAgent' = toAgent \/ toAgent' = <<u>> \o toAgent
                                 /\ pushed' = pushed \cup {u}
        BY <2>1, <3>2 DEF ReplayPending
      <4>2. Pushed(u) /\ pushed \subseteq pushed'
        BY <2>1, <4>1 DEF ReplayPending, Pushed
      <4>3. QED
        BY <4>2 DEF SendShape
    <3>3. QED
      BY <3>1, <3>2
  <2>2. CASE InterruptOwned(w) \/ FailOrphans(w) \/ PromoteForReplay(w)
    BY <1>1, <2>2 DEF InterruptOwned, FailOrphans, PromoteForReplay
  <2>3. QED
    BY <1>5, <2>1, <2>2 DEF Recover
<1>6. ASSUME AgentStep PROVE SendShape
  <2>1. CASE AgentExecute \/ AgentGate
    <3>1. Executed /\ UNCHANGED pushed
      BY <2>1 DEF AgentExecute, AgentGate, Executed
    <3>2. QED
      BY <3>1 DEF SendShape
  <2>2. CASE AgentConnect \/ AgentEarlyResult
    BY <1>1, <2>2 DEF AgentConnect, AgentEarlyResult
  <2>3. ASSUME NEW kind, AgentFinish(kind) PROVE SendShape
    BY <1>1, <2>3 DEF AgentFinish
  <2>4. CASE AgentRestart
    BY <2>4 DEF AgentRestart, LoseLink, SendShape, AllLost
  <2>5. QED
    BY <1>6, <2>1, <2>2, <2>3, <2>4 DEF AgentStep
<1>7. ASSUME Disconnect \/ ControllerCrash PROVE SendShape
  BY <1>7 DEF Disconnect, ControllerCrash, LoseLink, SendShape, AllLost
<1>8. ASSUME \/ RolloutCleanup \/ UNCHANGED vars
             \/ EndSession \/ \E w \in OldProcessors : CancelProcessor(w)
      PROVE  SendShape
  BY <1>1, <1>8 DEF RolloutCleanup, EndSession, CancelProcessor, vars
<1>9. QED
  BY <1>2, <1>3, <1>4, <1>5, <1>6, <1>7, <1>8 DEF Next

\* What the operations on the channel do to the messages of one row.
LEMMA AppendTransit ==
    ASSUME NEW q \in Seq(Updates), NEW v \in Updates, NEW r, r = Append(q, v)
    PROVE  /\ Len(r) = Len(q) + 1 /\ Len(q) \in Nat
           /\ \A i \in 1 .. Len(q) : r[i] = q[i]
           /\ r[Len(q) + 1] = v
OBVIOUS

LEMMA PrependTransit ==
    ASSUME NEW q \in Seq(Updates), NEW v \in Updates, NEW r, r = <<v>> \o q
    PROVE  /\ Len(r) = Len(q) + 1 /\ Len(q) \in Nat
           /\ \A i \in 2 .. Len(r) : i - 1 \in 1 .. Len(q) /\ r[i] = q[i - 1]
           /\ r[1] = v
OBVIOUS

LEMMA TailTransit ==
    ASSUME NEW q \in Seq(Updates), q # <<>>, NEW r, r = Tail(q)
    PROVE  /\ Len(r) = Len(q) - 1 /\ Len(q) \in Nat /\ Head(q) = q[1] /\ 1 \in 1 .. Len(q)
           /\ \A i \in 1 .. Len(r) : i + 1 \in 2 .. Len(q) /\ r[i] = q[i + 1]
OBVIOUS

\* No permission is doubled.
LEMMA SentOnceStep ==
    ASSUME TypeInv, TypeInv', UnpushedSentOnce, Shape, SendShape
    PROVE  UnpushedSentOnce'
<1> SUFFICES ASSUME NEW u \in Updates, u \notin pushed' PROVE SentOnce(u)'
  BY DEF UnpushedSentOnce
<1>1. u \notin pushed /\ SentOnce(u)
  BY DEF UnpushedSentOnce, SendShape
<1>2. status'[u] \in Fresh => status[u] \in Fresh
  BY FreshStep
<1>3. /\ toAgent \in Seq(Updates) /\ runs[u] \in 0 .. 2 /\ runs \in [Updates -> 0 .. 2]
      /\ orch \in SUBSET Updates
  BY DEF TypeInv, TypeOK
<1>4. CASE NothingSent
  BY <1>1, <1>2, <1>4 DEF NothingSent, SentOnce, InTransit
<1>5. CASE AllLost
  <2>1. ~InTransit(u)' /\ Len(toAgent') = 0
    BY <1>5 DEF AllLost, InTransit
  <2>2. QED
    BY <1>1, <1>2, <1>5, <2>1 DEF AllLost, SentOnce
<1>6. ASSUME NEW v \in Updates, Taken(v) PROVE SentOnce(u)'
  <2>1. InTransit(u)' <=> InTransit(u)
    BY <1>6 DEF Taken, InTransit
  <2>2. CASE v = u
    BY <1>1, <1>6, <2>1, <2>2 DEF Taken, SentOnce, Fresh
  <2>3. CASE v # u
    BY <1>1, <1>2, <1>6, <2>1, <2>3 DEF Taken, SentOnce
  <2>4. QED
    BY <2>2, <2>3
<1>7. ASSUME NEW v \in Updates, Dispatched(v) PROVE SentOnce(u)'
  <2>1. CASE toAgent' = toAgent
    BY <1>1, <1>2, <1>7, <2>1 DEF Dispatched, SentOnce, InTransit
  <2>2. CASE toAgent' = Append(toAgent, v)
    <3>1. /\ Len(toAgent') = Len(toAgent) + 1 /\ Len(toAgent) \in Nat
          /\ \A i \in 1 .. Len(toAgent) : toAgent'[i] = toAgent[i]
          /\ toAgent'[Len(toAgent) + 1] = v
      BY <1>3, <2>2, AppendTransit
    <3>2. CASE v = u
      <4>1. /\ u \in orch /\ u \notin orch' /\ UNCHANGED runs /\ ~InTransit(u) /\ runs[u] = 0
            /\ status[u] \notin Fresh
        BY <1>1, <1>7, <3>2 DEF Dispatched, SentOnce
      <4>2. \A i \in 1 .. Len(toAgent') : toAgent'[i] = u => i = Len(toAgent) + 1
        BY <3>1, <4>1 DEF InTransit
      <4>3. QED
        BY <1>2, <4>1, <4>2 DEF SentOnce
    <3>3. CASE v # u
      <4>1. \A i \in 1 .. Len(toAgent') :
                toAgent'[i] = u => i \in 1 .. Len(toAgent) /\ toAgent[i] = u
        BY <3>1, <3>3
      <4>2. InTransit(u)' => InTransit(u)
        BY <4>1 DEF InTransit
      <4>3. QED
        BY <1>1, <1>2, <1>7, <3>3, <4>1, <4>2 DEF Dispatched, SentOnce
    <3>4. QED
      BY <3>2, <3>3
  <2>3. QED
    BY <1>7, <2>1, <2>2 DEF Dispatched
<1>8. ASSUME NEW v \in Updates, Pushed(v) PROVE SentOnce(u)'
  <2>1. v # u /\ UNCHANGED <<orch, runs>>
    BY <1>8 DEF Pushed
  <2>2. CASE toAgent' = toAgent
    BY <1>1, <1>2, <2>1, <2>2 DEF SentOnce, InTransit
  <2>3. CASE toAgent' = Append(toAgent, v)
    <3>1. \A i \in 1 .. Len(toAgent') :
              toAgent'[i] = u => i \in 1 .. Len(toAgent) /\ toAgent[i] = u
      <4>1. /\ Len(toAgent') = Len(toAgent) + 1 /\ Len(toAgent) \in Nat
            /\ \A i \in 1 .. Len(toAgent) : toAgent'[i] = toAgent[i]
            /\ toAgent'[Len(toAgent) + 1] = v
        BY <1>3, <2>3, AppendTransit
      <4>2. QED
        BY <2>1, <4>1
    <3>2. InTransit(u)' => InTransit(u)
      BY <3>1 DEF InTransit
    <3>3. QED
      BY <1>1, <1>2, <2>1, <3>1, <3>2 DEF SentOnce
  <2>4. CASE toAgent' = <<v>> \o toAgent
    <3>1. \A i \in 1 .. Len(toAgent') :
              toAgent'[i] = u => i - 1 \in 1 .. Len(toAgent) /\ toAgent[i - 1] = u
      <4>1. /\ Len(toAgent') = Len(toAgent) + 1 /\ Len(toAgent) \in Nat
            /\ \A i \in 2 .. Len(toAgent') :
                   i - 1 \in 1 .. Len(toAgent) /\ toAgent'[i] = toAgent[i - 1]
            /\ toAgent'[1] = v
        BY <1>3, <2>4, PrependTransit
      <4>2. QED
        BY <2>1, <4>1
    <3>2. InTransit(u)' => InTransit(u)
      BY <3>1 DEF InTransit
    <3>3. \A i, j \in 1 .. Len(toAgent') : toAgent'[i] = u /\ toAgent'[j] = u => i = j
      <4>1. Len(toAgent') \in Nat
        BY DEF TypeInv, TypeOK
      <4>2. ASSUME NEW i \in 1 .. Len(toAgent'), NEW j \in 1 .. Len(toAgent'),
                   toAgent'[i] = u, toAgent'[j] = u
            PROVE  i = j
        <5>1. i - 1 = j - 1
          BY <1>1, <3>1, <4>2 DEF SentOnce
        <5>2. QED
          BY <4>1, <5>1
      <4>3. QED
        BY <4>2
    <3>4. QED
      BY <1>1, <1>2, <2>1, <3>2, <3>3 DEF SentOnce
  <2>5. QED
    BY <1>8, <2>2, <2>3, <2>4 DEF Pushed
<1>9. CASE Executed
  <2>1. /\ toAgent # <<>> /\ toAgent' = Tail(toAgent) /\ UNCHANGED orch
        /\ \/ UNCHANGED runs
           \/ runs' = [runs EXCEPT ![Head(toAgent)] =
                          IF runs[Head(toAgent)] < 2 THEN runs[Head(toAgent)] + 1
                          ELSE runs[Head(toAgent)]]
    BY <1>9 DEF Executed
  <2>2. /\ Len(toAgent') = Len(toAgent) - 1 /\ Len(toAgent) \in Nat
        /\ Head(toAgent) = toAgent[1] /\ 1 \in 1 .. Len(toAgent)
        /\ \A i \in 1 .. Len(toAgent') :
               i + 1 \in 2 .. Len(toAgent) /\ toAgent'[i] = toAgent[i + 1]
    BY <1>3, <2>1, TailTransit
  <2>3. InTransit(u)' => InTransit(u)
    BY <2>2 DEF InTransit
  <2>4. \A i, j \in 1 .. Len(toAgent') : toAgent'[i] = u /\ toAgent'[j] = u => i = j
    <3>1. Len(toAgent') \in Nat
      BY DEF TypeInv, TypeOK
    <3>2. ASSUME NEW i \in 1 .. Len(toAgent'), NEW j \in 1 .. Len(toAgent'),
                 toAgent'[i] = u, toAgent'[j] = u
          PROVE  i = j
      <4>1. /\ i + 1 \in 1 .. Len(toAgent) /\ toAgent[i + 1] = u
            /\ j + 1 \in 1 .. Len(toAgent) /\ toAgent[j + 1] = u
        BY <2>2, <3>2
      <4>2. i + 1 = j + 1
        BY <1>1, <4>1 DEF SentOnce
      <4>3. QED
        BY <3>1, <4>2
    <3>3. QED
      BY <3>2
  <2>5. CASE Head(toAgent) # u \/ UNCHANGED runs
    <3>1. runs'[u] = runs[u]
      BY <1>3, <2>1, <2>5
    <3>2. QED
      BY <1>1, <1>2, <2>1, <2>3, <2>4, <3>1 DEF SentOnce
  <2>6. CASE Head(toAgent) = u /\ ~UNCHANGED runs
    <3>1. InTransit(u) /\ runs[u] = 0
      BY <1>1, <2>2, <2>6 DEF InTransit, SentOnce
    <3>2. runs'[u] = 1
      BY <1>3, <2>1, <2>6, <3>1
    <3>3. ~InTransit(u)'
      <4>1. \A i \in 1 .. Len(toAgent') : toAgent'[i] # u
        <5> SUFFICES ASSUME NEW i \in 1 .. Len(toAgent'), toAgent'[i] = u PROVE FALSE
          OBVIOUS
        <5>1. i + 1 \in 2 .. Len(toAgent) /\ toAgent[i + 1] = u
          BY <2>2
        <5>2. i + 1 = 1
          BY <1>1, <2>2, <2>6, <5>1 DEF SentOnce
        <5>3. QED
          BY <2>2, <5>1, <5>2
      <4>2. QED
        BY <4>1 DEF InTransit
    <3>4. u \notin orch /\ status[u] \notin Fresh
      BY <1>1, <3>1 DEF SentOnce
    <3>5. QED
      BY <1>2, <2>1, <2>4, <3>2, <3>3, <3>4 DEF SentOnce
  <2>7. QED
    BY <2>5, <2>6
<1>10. QED
  BY <1>4, <1>5, <1>6, <1>7, <1>8, <1>9 DEF SendShape

\* An update that only its orchestrator sends is executed at most once: the CAS
\* from Pending lets one orchestrator have the row, and it sends one message.
THEOREM UpdatesRunOnce == Spec => []RunsOnce
<1>1. Init => UnpushedSentOnce
  BY DEF Init, UnpushedSentOnce, SentOnce, InTransit
<1>2. TypeInv /\ Born /\ TypeInv' /\ UnpushedSentOnce /\ [Next]_vars => UnpushedSentOnce'
  BY StepHasShape, StepHasSendShape, SentOnceStep
<1>3. UnpushedSentOnce => RunsOnce
  BY DEF UnpushedSentOnce, SentOnce, RunsOnce
<1>4. QED
  BY <1>1, <1>2, <1>3, BornAlways, PTL DEF Spec

\* What holds of the connection and of the jobs: nothing is on its way on a lost
\* connection, the connection is set up only by a recovery under way, and only
\* create_batch has a row of its own making in hand.
RecoveryOps == {"idle", "interrupt", "orphans", "promote", "replay", "direct", "protect"}
WireKept ==
    /\ ~Connected => toAgent = <<>> /\ toCtl = <<>>
    /\ link = "setup" => work["recovery"].op # "idle"
    /\ \A w \in Recoveries : work[w].op \in RecoveryOps
    /\ \A w \in Workers \ {"api"} : work[w].op # "create"

ExcusesStay == (faults["gated"] > 0 => faults'["gated"] > 0) /\ lost \subseteq lost'

\* Gated messages and lost rows are counted, and none is forgotten.
LEMMA StepKeepsExcuses == TypeInv /\ [Next]_vars => ExcusesStay
<1> SUFFICES ASSUME TypeInv, [Next]_vars PROVE ExcusesStay
  OBVIOUS
<1>1. /\ lost \subseteq lost'
      /\ \/ UNCHANGED faults
         \/ \E f \in Faults, max \in {MaxDrops, MaxCrashes, MaxErrors, MaxGated} : Fault(f, max)
  <2> USE DEF Faults, Error
  <2>1. ASSUME NEW u \in Updates, RowStep(u) PROVE UNCHANGED lost /\ (UNCHANGED faults \/ Error)
    BY <2>1 DEF RowStep, TriggerUpdate, InsertUpdate, OrchestratorBegin,
            OrchestratorProceed, OrchestratorFail, FailUnreplayable, HandleStarted,
            HandleResult, HandleVersionCheck, RestartTimeout, ReapOverdue, ReapPending
  <2>2. ASSUME NEW b \in Batches, CreateBatch(b) \/ InsertBatch(b)
        PROVE  UNCHANGED <<lost, faults>>
    BY <2>2 DEF CreateBatch, InsertBatch
  <2>3. ASSUME NEW w \in Workers, JobStep(w)
        PROVE  UNCHANGED lost /\ (UNCHANGED faults \/ Error)
    BY <2>3 DEF JobStep, DispatchQueued, SpawnQueued, DispatchDirect, DirectProceed, DirectFail
  <2>4. ASSUME NEW w \in Recoveries, Recover(w) PROVE lost \subseteq lost' /\ UNCHANGED faults
    BY <2>4 DEF Recover, InterruptOwned, FailOrphans, PromoteForReplay, ReplayPending
  <2>5. AgentStep => UNCHANGED lost /\ (UNCHANGED faults \/ Fault("gated", MaxGated))
    BY DEF AgentStep, AgentConnect, AgentExecute, AgentGate, AgentEarlyResult, AgentFinish,
           AgentRestart
  <2>6. Disconnect => UNCHANGED lost /\ Fault("drops", MaxDrops)
    BY DEF Disconnect
  <2>7. ControllerCrash => UNCHANGED lost /\ Fault("crashes", MaxCrashes)
    BY DEF ControllerCrash
  <2>8. RolloutCleanup \/ EndSession \/ UNCHANGED vars => UNCHANGED <<lost, faults>>
    BY DEF RolloutCleanup, EndSession, vars
  <2>9. ASSUME NEW w \in OldProcessors, CancelProcessor(w)
        PROVE  lost \subseteq lost' /\ UNCHANGED faults
    BY <2>9 DEF CancelProcessor
  <2>10. QED
    BY <2>1, <2>2, <2>3, <2>4, <2>5, <2>6, <2>7, <2>8, <2>9 DEF Next
<1>2. CASE UNCHANGED faults
  BY <1>1, <1>2 DEF ExcusesStay
<1>3. ASSUME NEW f \in Faults, NEW max, Fault(f, max) PROVE ExcusesStay
  BY <1>1, <1>3 DEF Fault, ExcusesStay, TypeInv, TypeOK, Faults
<1>4. QED
  BY <1>1, <1>2, <1>3

LEMMA SomeWorkers ==
    /\ {"api", "processor", "reaper", "restart", "startup"} \subseteq Workers \ Recoveries
    /\ "recovery" \in Recoveries /\ Recoveries \subseteq Workers
    /\ OldProcessors \subseteq Workers \ Recoveries /\ "api" \notin OldProcessors
BY PlacesAssumption DEF Workers, Recoveries

LEMMA JobOps ==
    /\ \A op, u, b : Job(op, u, b).op = op /\ Job(op, u, b).u = u
    /\ \A w : After(w).op \in {"idle", "replay"}
    /\ \A w \in Recoveries : After(w).op = "replay"
    /\ \A w, u : Successor(w, u).op \in {"direct", "promote", "queue"}
    /\ \A w \in Recoveries : \A u : Successor(w, u).op \in {"direct", "promote"}
BY DEF Job, After, Successor, Idle

\* Only one worker moves.
LEMMA OneMoves ==
    ASSUME TypeInv, NEW w \in Workers, NEW job, Goto(w, job)
    PROVE  work'[w] = job /\ \A x \in Workers \ {w} : work'[x] = work[x]
<1>1. work \in [Workers -> JobType]
  BY DEF TypeInv, TypeOK, JobType
<1>2. QED
  BY <1>1 DEF Goto

\* A step that leaves the link alone, sends only on a live one and moves one
\* worker at most, recovery never to its end.
LEMMA WireStays ==
    ASSUME TypeInv, WireKept, UNCHANGED link, ~Connected => UNCHANGED <<toAgent, toCtl>>,
           NEW w \in Workers, NEW job,
           \/ UNCHANGED work
           \/ /\ Goto(w, job)
              /\ w \in Recoveries => job.op \in RecoveryOps \ {"idle"}
              /\ w # "api" => job.op # "create"
    PROVE  WireKept'
<1> USE SomeWorkers
<1>1. Connected' <=> Connected
  BY DEF Connected
<1>2. CASE UNCHANGED work
  BY <1>1, <1>2 DEF WireKept
<1>3. CASE Goto(w, job)
  <2>1. work'[w] = job /\ \A x \in Workers \ {w} : work'[x] = work[x]
    BY <1>3, OneMoves
  <2>2. \A x \in Recoveries : /\ work'[x].op \in RecoveryOps
                              /\ work[x].op # "idle" => work'[x].op # "idle"
    BY <1>2, <2>1 DEF WireKept
  <2>3. \A x \in Workers \ {"api"} : work'[x].op # "create"
    BY <1>2, <2>1 DEF WireKept
  <2>4. QED
    BY <1>1, <2>2, <2>3 DEF WireKept
<1>4. QED
  BY <1>2, <1>3

\* The steps on one row move a worker from one job without a row to another.
LEMMA RowStepGoto ==
    ASSUME TypeInv, NEW u \in Updates, RowStep(u)
    PROVE  \/ UNCHANGED work
           \/ \E w \in Workers : \E job :
                 /\ Goto(w, job) /\ work[w].op \in {"idle", "replay"}
                 /\ job.op \in {"idle", "direct", "queue", "promote"}
                 /\ w \in Recoveries => job.op \in {"direct", "promote"}
<1> USE SomeWorkers, IdleIsTyped
<1>1. CASE \E w \in Recoveries : FailUnreplayable(w, u)
  <2>1. PICK w \in Recoveries : work[w].op = "replay" /\ Goto(w, Successor(w, u))
    BY <1>1 DEF FailUnreplayable
  <2>2. QED
    BY <2>1, JobOps
<1>2. CASE ~UNCHANGED work /\ ~\E w \in Recoveries : FailUnreplayable(w, u)
  <2>1. PICK w \in {"processor", "restart", "reaper"} :
           work[w] = Idle /\ (Goto(w, Idle) \/ Goto(w, Successor(w, u)) \/
                              \E b : Goto(w, Job("direct", None, b)))
    BY <1>2 DEF RowStep, TriggerUpdate, InsertUpdate, OrchestratorBegin,
            OrchestratorProceed, OrchestratorFail, HandleStarted, HandleResult, Receive,
            HandleVersionCheck, RestartTimeout, ReapOverdue, ReapPending, AfterReap
  <2>2. PICK job : Goto(w, job) /\ job.op \in {"idle", "direct", "queue", "promote"}
    BY <2>1, JobOps
  <2>3. QED
    BY <2>1, <2>2
<1>3. QED
  BY <1>1, <1>2

LEMMA StepKeepsWire ==
    ASSUME TypeInv, WireKept, [Next]_vars
    PROVE  WireKept'
<1> USE SomeWorkers
<1>1. ASSUME NEW u \in Updates, RowStep(u) PROVE WireKept'
  <2>1. UNCHANGED link /\ (~Connected => UNCHANGED <<toAgent, toCtl>>)
    BY <1>1 DEF RowStep, TriggerUpdate, InsertUpdate, OrchestratorBegin,
            OrchestratorProceed, Send, OrchestratorFail, FailUnreplayable, HandleStarted,
            HandleResult, Receive, HandleVersionCheck, RestartTimeout, ReapOverdue, ReapPending,
            Connected
  <2>2. QED
    BY <1>1, <2>1, RowStepGoto, WireStays DEF RecoveryOps
<1>2. ASSUME NEW b \in Batches, CreateBatch(b) \/ InsertBatch(b)
      PROVE  WireKept'
  <2>1. UNCHANGED <<link, toAgent, toCtl>> /\ \E job : Goto("api", job)
    BY <1>2 DEF CreateBatch, InsertBatch
  <2>2. QED
    BY <2>1, WireStays
<1>3. ASSUME NEW w \in Workers, JobStep(w) PROVE WireKept'
  <2>1. UNCHANGED link /\ (~Connected => UNCHANGED <<toAgent, toCtl>>)
    BY <1>3 DEF JobStep, DispatchQueued, SpawnQueued, DispatchDirect, DirectProceed, DirectFail,
                Send
  <2>2. w \in Recoveries => ~DispatchQueued(w) /\ ~SpawnQueued(w)
    BY DEF WireKept, RecoveryOps, DispatchQueued, SpawnQueued
  <2>3. \/ UNCHANGED work
        \/ w \notin Recoveries /\ (Goto(w, Idle) \/ \E u : Goto(w, Job("load", u, None)))
        \/ Goto(w, After(w))
        \/ \E u : Goto(w, Job("protect", u, work[w].b))
        \/ Goto(w, Job("direct", None, work[w].b))
    BY <1>3, <2>2 DEF JobStep, DispatchQueued, SpawnQueued, DispatchDirect, DirectProceed,
                      DirectFail
  <2>4. \/ UNCHANGED work
        \/ \E job : /\ Goto(w, job)
                    /\ w \in Recoveries => job.op \in {"replay", "protect", "direct"}
                    /\ job.op \in {"idle", "load", "replay", "protect", "direct"}
    BY <2>3, JobOps, IdleIsTyped
  <2>5. QED
    BY <2>1, <2>4, WireStays DEF RecoveryOps
<1>4. ASSUME NEW w \in Recoveries, InterruptOwned(w) \/ FailOrphans(w) \/ PromoteForReplay(w)
      PROVE  WireKept'
  <2>1. UNCHANGED <<link, toAgent, toCtl>>
    BY <1>4 DEF InterruptOwned, FailOrphans, PromoteForReplay
  <2>2. \/ \E u : Goto(w, Job("orphans", u, None))
        \/ \E u : Goto(w, Successor(w, u))
        \/ Goto(w, After(w))
    BY <1>4 DEF InterruptOwned, FailOrphans, PromoteForReplay
  <2>3. \E job : Goto(w, job) /\ job.op \in {"orphans", "replay", "promote", "direct"}
    BY <2>2, JobOps
  <2>4. QED
    BY <2>1, <2>3, WireStays DEF RecoveryOps
<1>5. ASSUME NEW w \in Recoveries, ReplayPending(w) PROVE WireKept'
  <2>1. work'[w].op = "idle" /\ \A x \in Workers \ {w} : work'[x] = work[x]
    BY <1>5, OneMoves, IdleIsTyped DEF ReplayPending
  <2>2. /\ link' = IF w = "recovery" /\ link = "setup" THEN "up" ELSE link
        /\ UNCHANGED toCtl /\ (~Connected => UNCHANGED toAgent)
    BY <1>5 DEF ReplayPending
  <2>3. Connected' <=> Connected
    BY <2>2 DEF Connected
  <2>4. \A x \in Recoveries : work'[x].op \in RecoveryOps
    BY <2>1 DEF WireKept, RecoveryOps
  <2>5. \A x \in Workers \ {"api"} : work'[x].op # "create"
    BY <2>1 DEF WireKept
  <2>6. link' = "setup" => work'["recovery"].op # "idle"
    BY <2>1, <2>2 DEF WireKept
  <2>7. QED
    BY <2>2, <2>3, <2>4, <2>5, <2>6 DEF WireKept
<1>6. ASSUME AgentConnect PROVE WireKept'
  <2>1. ConnectMoves /\ link' = "setup"
    BY <1>6, ConnectJobs DEF AgentConnect
  <2>2. Job("interrupt", None, None).op = "interrupt" /\ Idle.op = "idle"
    BY JobOps, IdleIsTyped
  <2>3. \A w \in Recoveries : work'[w].op \in RecoveryOps
    BY <2>1, <2>2 DEF ConnectMoves, WireKept, Recoveries, RecoveryOps
  <2>4. \A w \in Workers \ {"api"} : work'[w].op # "create"
    BY <2>1, <2>2 DEF ConnectMoves, WireKept
  <2>5. QED
    BY <2>1, <2>2, <2>3, <2>4 DEF WireKept, Connected, ConnectMoves
<1>7. ASSUME LoseLink, UNCHANGED work PROVE WireKept'
  BY <1>7 DEF LoseLink, WireKept, Connected
<1>8. ASSUME AgentStep, ~AgentConnect PROVE WireKept'
  <2>1. CASE AgentRestart
    BY <1>7, <2>1 DEF AgentRestart
  <2>2. CASE ~AgentRestart
    <3>1. toAgent # <<>> => Connected
      BY DEF WireKept
    <3>2. UNCHANGED <<link, work>> /\ Connected
      BY <1>8, <2>2, <3>1 DEF AgentStep, AgentExecute, AgentGate, AgentEarlyResult, AgentFinish
    <3>3. QED
      BY <3>2, WireStays
  <2>3. QED
    BY <2>1, <2>2
<1>9. ASSUME Disconnect PROVE WireKept'
  BY <1>7, <1>9 DEF Disconnect
<1>10. ASSUME ControllerCrash PROVE WireKept'
  <2>1. \A w \in Workers : work'[w].op \in {"idle", "rollout"}
    BY <1>10, JobOps, IdleIsTyped DEF ControllerCrash
  <2>2. \A w \in Recoveries : work'[w].op = "idle"
    BY <1>10, IdleIsTyped DEF ControllerCrash
  <2>3. link' = "down" /\ toAgent' = <<>> /\ toCtl' = <<>>
    BY <1>10 DEF ControllerCrash
  <2>4. QED
    BY <2>1, <2>2, <2>3 DEF WireKept, RecoveryOps
<1>11. ASSUME RolloutCleanup \/ UNCHANGED vars PROVE WireKept'
  <2>1. UNCHANGED <<link, toAgent, toCtl>>
    BY <1>11 DEF RolloutCleanup, vars
  <2>2. UNCHANGED work \/ \E job : Goto("startup", job) /\ job.op \in {"idle", "direct"}
    <3>1. UNCHANGED work \/ Goto("startup", Idle) \/
             \E b : Goto("startup", Job("direct", None, b))
      BY <1>11 DEF RolloutCleanup, vars
    <3>2. QED
      BY <3>1, JobOps, IdleIsTyped
  <2>3. QED
    BY <2>1, <2>2, WireStays
<1>12. ASSUME EndSession PROVE WireKept'
  <2>1. /\ work'["processor"] = Idle
        /\ \A x \in Workers \ {"processor"} : work'[x] = work[x]
    BY <1>12, OneMoves DEF EndSession
  <2>2. link = "dead" /\ link' = "down" /\ UNCHANGED <<toAgent, toCtl>>
    BY <1>12 DEF EndSession
  <2>3. QED
    BY <2>1, <2>2, IdleIsTyped DEF WireKept, Connected
<1>13. ASSUME NEW w \in OldProcessors, CancelProcessor(w) PROVE WireKept'
  <2>1. UNCHANGED <<link, toAgent, toCtl>> /\ Goto(w, Idle)
    BY <1>13 DEF CancelProcessor
  <2>2. QED
    BY <2>1, IdleIsTyped, WireStays
<1>14. QED
  BY <1>1, <1>2, <1>3, <1>4, <1>5, <1>6, <1>8, <1>9, <1>10, <1>11, <1>12, <1>13
     DEF Next, Recover

\* Who has row u in hand.
Protects(w, u) == work[w].op \in {"load", "protect", "create"} /\ work[w].u = u
Spoken(u) == \E i \in 1 .. Len(toCtl) : toCtl[i].u = u
Untouched(u) ==
    /\ spawned[u] = 0 /\ u \notin orch /\ ~InTransit(u) /\ ~Spoken(u) /\ cur # u
    /\ \A w \in Workers : ~Protects(w, u)

\* The messages that take a row out of Pending.  What the agent says of a row
\* begins with one, and while it executes a Pending row one is on its way.
Answer(m, u) == m.u = u /\ m.kind \in {"started", "failed"}
Answered(u) == \E j \in 1 .. Len(toCtl) : Answer(toCtl[j], u)
InOrder(u) ==
    \A i \in 1 .. Len(toCtl) : toCtl[i].u = u => \E j \in 1 .. i : Answer(toCtl[j], u)
Announced(u) == InOrder(u) /\ (cur = u /\ Connected => Answered(u))

Attended(u) ==
    \/ ~Connected \/ faults["gated"] > 0 \/ u \in lost
    \/ \E w \in Recoveries : work[w].op # "idle"
    \/ spawned[u] > 0 \/ (\E w \in Workers : Protects(w, u)) \/ InTransit(u) \/ Spoken(u)

RowKept(u) ==
    /\ status[u] \in {"none", "queued"} => Untouched(u)
    /\ status[u] \in Fresh => owner[u] = None
    /\ status[u] = "pending" => Announced(u) /\ Attended(u)
RowsKept == \A u \in Updates : RowKept(u)

\* No job takes row u in hand or lets go of it, and no recovery ends.
JobsKept(u) ==
    /\ \A w \in Workers : Protects(w, u)' <=> Protects(w, u)
    /\ \A w \in Recoveries : work[w].op # "idle" => work'[w].op # "idle"

\* Nothing that row u depends on moves, except its status.
Unmoved(u) ==
    /\ owner'[u] = owner[u] /\ spawned'[u] = spawned[u]
    /\ u \in orch' => u \in orch
    /\ InTransit(u)' <=> InTransit(u)
    /\ Spoken(u)' <=> Spoken(u)
    /\ Answered(u) => Answered(u)'
    /\ InOrder(u) => InOrder(u)'
    /\ cur' = u => cur = u
    /\ UNCHANGED link
    /\ JobsKept(u)

LEMMA UnmovedKeeps ==
    ASSUME ExcusesStay, NEW u \in Updates, RowKept(u), Unmoved(u),
           status'[u] = status[u] \/ {status[u], status'[u]} \subseteq {"none", "queued"}
    PROVE  RowKept(u)'
<1>1. Announced(u) => Announced(u)'
  BY DEF Unmoved, Announced, Connected
<1>2. Untouched(u) => Untouched(u)'
  BY DEF Unmoved, Untouched, JobsKept
<1>3. Attended(u) => Attended(u)'
  BY DEF Unmoved, Attended, ExcusesStay, JobsKept, Connected
<1>4. QED
  BY <1>1, <1>2, <1>3 DEF RowKept, Unmoved, Fresh

\* Nothing is asked of a row that has left the fresh statuses.
LEMMA LeftFresh ==
    ASSUME NEW u \in Updates, status'[u] \notin Fresh
    PROVE  RowKept(u)'
BY DEF RowKept, Fresh

\* A new Pending row is unknown to the agent; somebody must attend to it.
LEMMA PromotedKept ==
    ASSUME NEW u \in Updates, RowKept(u), status[u] \in {"none", "queued"},
           status'[u] = "pending", owner'[u] = owner[u], UNCHANGED <<toCtl, cur>>, Attended(u)'
    PROVE  RowKept(u)'
<1>1. Untouched(u) /\ owner[u] = None
  BY DEF RowKept, Fresh
<1>2. Announced(u)'
  BY <1>1 DEF Untouched, Spoken, Announced, InOrder
<1>3. QED
  BY <1>1, <1>2 DEF RowKept

\* A job that goes on without row u in hand.
LEMMA JobFrame ==
    ASSUME TypeInv, NEW w \in Workers, NEW job, Goto(w, job), NEW u, ~Protects(w, u),
           job.op \in {"load", "protect", "create"} => job.u # u,
           w \notin Recoveries \/ job.op # "idle"
    PROVE  JobsKept(u)
<1>1. work'[w] = job /\ \A x \in Workers \ {w} : work'[x] = work[x]
  BY OneMoves
<1>2. \A x \in Workers : Protects(x, u)' <=> Protects(x, u)
  BY <1>1 DEF Protects
<1>3. \A x \in Recoveries : work[x].op # "idle" => work'[x].op # "idle"
  BY <1>1, SomeWorkers
<1>4. QED
  BY <1>2, <1>3 DEF JobsKept

LEMMA EmptyHands ==
    ASSUME TypeInv, NEW w \in Workers, NEW job, Goto(w, job),
           work[w].op \notin {"load", "protect", "create"},
           job.op \notin {"load", "protect", "create"},
           w \notin Recoveries \/ job.op # "idle", NEW u
    PROVE  JobsKept(u)
BY JobFrame DEF Protects

LEMMA SameJobs ==
    ASSUME UNCHANGED work, NEW u
    PROVE  JobsKept(u)
BY DEF Protects, JobsKept

LEMMA SameChannel ==
    ASSUME UNCHANGED toCtl, NEW u
    PROVE  /\ Spoken(u)' <=> Spoken(u)
           /\ Answered(u)' <=> Answered(u)
           /\ InOrder(u)' <=> InOrder(u)
BY DEF Spoken, Answered, InOrder, Answer

\* A row that nothing touches in a step that leaves both channels alone.
LEMMA StillKeeps ==
    ASSUME ExcusesStay, NEW u \in Updates, RowKept(u), UNCHANGED <<net, cur>>, JobsKept(u),
           owner'[u] = owner[u], spawned'[u] = spawned[u], u \in orch' => u \in orch,
           status'[u] = status[u] \/ {status[u], status'[u]} \subseteq {"none", "queued"}
    PROVE  RowKept(u)'
<1>1. InTransit(u)' <=> InTransit(u)
  BY DEF InTransit, net
<1>2. Unmoved(u)
  BY <1>1, SameChannel DEF Unmoved, net
<1>3. QED
  BY <1>2, UnmovedKeeps

LEMMA SendTransit ==
    ASSUME TypeInv, NEW u \in Updates, Send(u)
    PROVE  /\ \A v \in Updates \ {u} : InTransit(v)' <=> InTransit(v)
           /\ Connected => InTransit(u)'
           /\ InTransit(u) => InTransit(u)'
<1>1. toAgent \in Seq(Updates)
  BY DEF TypeInv, TypeOK
<1>2. CASE ~Connected
  BY <1>2 DEF Send, InTransit
<1>3. CASE Connected
  <2>1. toAgent' = Append(toAgent, u)
    BY <1>3 DEF Send
  <2>2. /\ Len(toAgent') = Len(toAgent) + 1 /\ Len(toAgent) \in Nat
        /\ \A i \in 1 .. Len(toAgent) : toAgent'[i] = toAgent[i]
        /\ toAgent'[Len(toAgent) + 1] = u
    BY <1>1, <2>1, AppendTransit
  <2>3. InTransit(u)'
    BY <2>2 DEF InTransit
  <2>4. ASSUME NEW v \in Updates \ {u} PROVE InTransit(v)' <=> InTransit(v)
    BY <2>2, <2>4 DEF InTransit
  <2>5. QED
    BY <2>3, <2>4
<1>4. QED
  BY <1>2, <1>3

\* The agent says something: of another row, or in order.
LEMMA SpeakKeeps ==
    ASSUME TypeInv, NEW kind \in Kinds, NEW u \in Updates, Tell(kind, u), NEW v \in Updates
    PROVE  /\ Spoken(v)' <=> Spoken(v) \/ u = v
           /\ Answered(v) => Answered(v)'
           /\ u = v /\ kind \in {"started", "failed"} => Answered(v)'
           /\ InOrder(v) /\ (u = v => Answered(v) \/ kind \in {"started", "failed"})
                 => InOrder(v)'
<1> DEFINE m == [kind |-> kind, u |-> u]
<1>1. toCtl \in Seq([kind : Kinds, u : Updates]) /\ toCtl' = Append(toCtl, m)
  BY DEF TypeInv, TypeOK, Tell
<1>2. m \in [kind : Kinds, u : Updates] /\ m.u = u /\ m.kind = kind
  OBVIOUS
<1> HIDE DEF m
<1> DEFINE n == Len(toCtl)
<1>3. /\ Len(toCtl') = n + 1 /\ n \in Nat
      /\ \A i \in 1 .. n : toCtl'[i] = toCtl[i]
      /\ toCtl'[n + 1] = m
  BY <1>1, <1>2
<1>4. n + 1 \in 1 .. (n + 1) /\ \A i \in 1 .. (n + 1) : i \in 1 .. n \/ i = n + 1
  BY <1>3
<1>5. \A i \in 1 .. n : i \in 1 .. (n + 1) /\ i \in 1 .. i /\ \A j \in 1 .. i : j \in 1 .. n
  BY <1>3
<1>6. \A j \in 1 .. n : j \in 1 .. (n + 1)
  BY <1>3
<1> HIDE DEF n
<1>7. 1 .. Len(toCtl) = 1 .. n /\ 1 .. Len(toCtl') = 1 .. (n + 1)
  BY <1>3 DEF n
<1>8. Spoken(v)' <=> Spoken(v) \/ u = v
  BY <1>2, <1>3, <1>4, <1>6, <1>7 DEF Spoken
<1>9. Answered(v) => Answered(v)'
  BY <1>3, <1>6, <1>7 DEF Answered, Answer
<1>10. u = v /\ kind \in {"started", "failed"} => Answered(v)'
  BY <1>2, <1>3, <1>4, <1>7 DEF Answered, Answer
<1>11. ASSUME InOrder(v), u = v => Answered(v) \/ kind \in {"started", "failed"}
       PROVE  InOrder(v)'
  <2> SUFFICES ASSUME NEW i \in 1 .. (n + 1), toCtl'[i].u = v
               PROVE  \E j \in 1 .. i : Answer(toCtl'[j], v)
    BY <1>7 DEF InOrder, Answer
  <2>1. CASE i \in 1 .. n
    <3>1. PICK j \in 1 .. i : Answer(toCtl[j], v)
      BY <1>3, <1>7, <1>11, <2>1 DEF InOrder
    <3>2. QED
      BY <1>3, <1>5, <2>1, <3>1
  <2>2. CASE i = n + 1
    <3>1. u = v
      BY <1>2, <1>3, <2>2
    <3>2. CASE Answered(v)
      BY <1>3, <1>6, <1>7, <2>2, <3>2 DEF Answered
    <3>3. CASE kind \in {"started", "failed"}
      BY <1>2, <1>3, <1>4, <2>2, <3>1, <3>3 DEF Answer
    <3>4. QED
      BY <1>11, <3>1, <3>2, <3>3
  <2>3. QED
    BY <1>4, <2>1, <2>2
<1>12. QED
  BY <1>8, <1>9, <1>10, <1>11

\* The processor reads a message about another row.
LEMMA ReadKeeps ==
    ASSUME TypeInv, toCtl # <<>>, toCtl' = Tail(toCtl), NEW v \in Updates, Head(toCtl).u # v
    PROVE  /\ Spoken(v)' <=> Spoken(v)
           /\ Answered(v) => Answered(v)'
           /\ InOrder(v) => InOrder(v)'
<1>1. toCtl \in Seq([kind : Kinds, u : Updates])
  BY DEF TypeInv, TypeOK
<1> DEFINE n == Len(toCtl')
<1>2. /\ Len(toCtl) = n + 1 /\ n \in Nat /\ Head(toCtl) = toCtl[1]
      /\ \A i \in 1 .. n : toCtl'[i] = toCtl[i + 1]
  BY <1>1
<1>3. 1 .. Len(toCtl') = 1 .. n /\ 1 .. Len(toCtl) = 1 .. (n + 1)
  BY <1>2
<1> HIDE DEF n
<1>4. \A i \in 1 .. (n + 1) : i = 1 \/ (i - 1 \in 1 .. n /\ (i - 1) + 1 = i)
  BY <1>2
<1>5. \A i \in 1 .. n : i + 1 \in 1 .. (n + 1)
  BY <1>2
<1>6. Spoken(v)' <=> Spoken(v)
  <2>1. ASSUME NEW i \in 1 .. (n + 1), toCtl[i].u = v PROVE Spoken(v)'
    <3>1. i - 1 \in 1 .. n /\ (i - 1) + 1 = i
      BY <1>2, <1>4, <2>1
    <3>2. toCtl'[i - 1].u = v
      BY <1>2, <2>1, <3>1
    <3>3. QED
      BY <1>3, <3>1, <3>2 DEF Spoken
  <2>2. Spoken(v)' => Spoken(v)
    BY <1>2, <1>3, <1>5 DEF Spoken
  <2>3. QED
    BY <1>3, <2>1, <2>2 DEF Spoken
<1>7. Answered(v) => Answered(v)'
  BY <1>2, <1>3, <1>4 DEF Answered, Answer
<1>8. ASSUME InOrder(v) PROVE InOrder(v)'
  <2> SUFFICES ASSUME NEW i \in 1 .. n, toCtl'[i].u = v
               PROVE  \E j \in 1 .. i : Answer(toCtl'[j], v)
    BY <1>3 DEF InOrder, Answer
  <2>1. PICK j \in 1 .. (i + 1) : Answer(toCtl[j], v)
    BY <1>2, <1>3, <1>5, <1>8 DEF InOrder
  <2>2. j # 1
    BY <1>2, <2>1 DEF Answer
  <2>3. j - 1 \in 1 .. i /\ (j - 1) + 1 = j /\ j - 1 \in 1 .. n
    BY <1>2, <2>1, <2>2
  <2>4. QED
    BY <1>2, <2>1, <2>3
<1>9. QED
  BY <1>6, <1>7, <1>8

\* The first message of the channel.
LEMMA HeadSpoken ==
    ASSUME TypeInv, toCtl # <<>>
    PROVE  /\ 1 \in 1 .. Len(toCtl) /\ Head(toCtl) = toCtl[1]
           /\ Spoken(Head(toCtl).u)
<1>1. toCtl \in Seq([kind : Kinds, u : Updates])
  BY DEF TypeInv, TypeOK
<1>2. 1 \in 1 .. Len(toCtl) /\ Head(toCtl) = toCtl[1]
  BY <1>1
<1>3. QED
  BY <1>2 DEF Spoken

\* The requests and the steps on one row leave no other job with it in hand.
LEMMA RowStepJobs ==
    ASSUME TypeInv, NEW u \in Updates, RowStep(u), NEW v
    PROVE  JobsKept(v)
<1>1. CASE UNCHANGED work
  BY <1>1, SameJobs
<1>2. ASSUME NEW w \in Workers, NEW job, Goto(w, job), work[w].op \in {"idle", "replay"},
             job.op \in {"idle", "direct", "queue", "promote"},
             w \in Recoveries => job.op \in {"direct", "promote"}
      PROVE  JobsKept(v)
  BY <1>2, EmptyHands
<1>3. QED
  BY <1>1, <1>2, RowStepGoto

\* The steps on row u, seen from another row.
LEMMA RowStepOthers ==
    ASSUME TypeInv, ExcusesStay, NEW u \in Updates, RowStep(u),
           NEW v \in Updates \ {u}, RowKept(v)
    PROVE  RowKept(v)'
<1>1. JobsKept(v)
  BY RowStepJobs
<1>2. /\ status \in [Updates -> Unfinished \cup Terminal \cup {"none"}]
      /\ owner \in [Updates -> Nat \cup {None}]
      /\ spawned \in [Updates -> Nat]
  BY DEF TypeInv, TypeOK
<1>3. status'[v] = status[v] /\ owner'[v] = owner[v] /\ spawned'[v] = spawned[v]
  <2>1. UNCHANGED status \/ \E s : status' = [status EXCEPT ![u] = s]
    BY DEF RowStep, TriggerUpdate, InsertUpdate, OrchestratorBegin, OrchestratorProceed,
           OrchestratorFail, FailUnreplayable, HandleStarted, HandleResult, HandleVersionCheck,
           RestartTimeout, ReapOverdue, ReapPending, table
  <2>2. UNCHANGED owner \/ \E s : owner' = [owner EXCEPT ![u] = s]
    BY DEF RowStep, TriggerUpdate, InsertUpdate, OrchestratorBegin, OrchestratorProceed,
           OrchestratorFail, FailUnreplayable, HandleStarted, HandleResult, HandleVersionCheck,
           RestartTimeout, ReapOverdue, ReapPending, table
  <2>3. UNCHANGED spawned \/ \E s : spawned' = [spawned EXCEPT ![u] = s]
    BY DEF RowStep, TriggerUpdate, InsertUpdate, OrchestratorBegin, OrchestratorProceed,
           OrchestratorFail, FailUnreplayable, HandleStarted, HandleResult, HandleVersionCheck,
           RestartTimeout, ReapOverdue, ReapPending
  <2>4. QED
    BY <1>2, <2>1, <2>2, <2>3
<1>4. UNCHANGED <<cur, link>> /\ (v \in orch' => v \in orch)
  BY DEF RowStep, TriggerUpdate, InsertUpdate, OrchestratorBegin, OrchestratorProceed,
         OrchestratorFail, FailUnreplayable, HandleStarted, HandleResult, HandleVersionCheck,
         RestartTimeout, ReapOverdue, ReapPending, agent, net
<1>5. InTransit(v)' <=> InTransit(v)
  <2>1. CASE OrchestratorProceed(u)
    BY <2>1, SendTransit DEF OrchestratorProceed
  <2>2. CASE ~OrchestratorProceed(u)
    <3>1. UNCHANGED toAgent
      BY <2>2 DEF RowStep, TriggerUpdate, InsertUpdate, OrchestratorBegin,
         OrchestratorFail, FailUnreplayable, HandleStarted, HandleResult, HandleVersionCheck,
         RestartTimeout, ReapOverdue, ReapPending, net
    <3>2. QED
      BY <3>1 DEF InTransit
  <2>3. QED
    BY <2>1, <2>2
<1>6. /\ Spoken(v)' <=> Spoken(v)
      /\ Answered(v) => Answered(v)'
      /\ InOrder(v) => InOrder(v)'
  <2>1. CASE HandleStarted(u) \/ HandleResult(u)
    <3>1. toCtl # <<>> /\ toCtl' = Tail(toCtl) /\ Head(toCtl).u # v
      BY <2>1 DEF HandleStarted, HandleResult, Receive
    <3>2. QED
      BY <3>1, ReadKeeps
  <2>2. CASE ~(HandleStarted(u) \/ HandleResult(u))
    <3>1. UNCHANGED toCtl
      BY <2>2 DEF RowStep, TriggerUpdate, InsertUpdate, OrchestratorBegin,
         OrchestratorProceed, OrchestratorFail, FailUnreplayable, HandleVersionCheck,
         RestartTimeout, ReapOverdue, ReapPending, net
    <3>2. QED
      BY <3>1, SameChannel
  <2>3. QED
    BY <2>1, <2>2
<1>7. Unmoved(v)
  BY <1>1, <1>3, <1>4, <1>5, <1>6 DEF Unmoved
<1>8. QED
  BY <1>3, <1>7, UnmovedKeeps

\* A Pending row stays so, announced and attended.
LEMMA PendingKept ==
    ASSUME NEW u \in Updates, RowKept(u), status[u] = "pending", status'[u] = "pending",
           owner'[u] = owner[u], Announced(u)', Attended(u)'
    PROVE  RowKept(u)'
BY DEF RowKept, Fresh

\* The steps on row u, seen from it.
LEMMA RowStepItself ==
    ASSUME TypeInv, Born, Shape, ExcusesStay, NEW u \in Updates, RowStep(u), RowKept(u)
    PROVE  RowKept(u)'
<1>1. JobsKept(u)
  BY RowStepJobs
<1>2. /\ status \in [Updates -> Unfinished \cup Terminal \cup {"none"}]
      /\ owner \in [Updates -> Nat \cup {None}]
      /\ spawned \in [Updates -> Nat]
  BY DEF TypeInv, TypeOK
<1>3. CASE status[u] \notin Fresh
  BY <1>3, FreshStep, LeftFresh
<1>4. CASE TriggerUpdate(u)
  BY <1>1, <1>4, StillKeeps DEF TriggerUpdate, table, agent
<1>5. CASE InsertUpdate(u)
  <2>1. status[u] = "none"
    BY <1>5 DEF InsertUpdate, Born, RequestIsNew
  <2>2. UNCHANGED <<owner, orch, work, net, cur>>
    BY <1>5 DEF InsertUpdate, agent
  <2>3. CASE UNCHANGED <<status, spawned>>
    BY <1>1, <2>2, <2>3, StillKeeps
  <2>4. CASE status' = [status EXCEPT ![u] = "queued"] /\ UNCHANGED spawned
    <3>1. status'[u] = "queued"
      BY <1>2, <2>4
    <3>2. QED
      BY <1>1, <2>1, <2>2, <2>4, <3>1, StillKeeps
  <2>5. CASE /\ status' = [status EXCEPT ![u] = "pending"]
             /\ spawned' = [spawned EXCEPT ![u] = @ + 1]
    <3>1. status'[u] = "pending" /\ spawned'[u] > 0
      BY <1>2, <2>5
    <3>2. Attended(u)'
      BY <3>1 DEF Attended
    <3>3. QED
      BY <2>1, <2>2, <3>1, <3>2, PromotedKept DEF net
  <2>6. QED
    BY <1>5, <2>3, <2>4, <2>5 DEF InsertUpdate
<1>6. CASE OrchestratorBegin(u)
  <2>1. status[u] \notin {"none", "queued"}
    BY <1>2, <1>6 DEF OrchestratorBegin, RowKept, Untouched
  <2>2. CASE TakesRow(u) /\ status' = [status EXCEPT ![u] = "in_progress"]
    BY <1>2, <2>2, LeftFresh DEF Fresh
  <2>3. CASE ~TakesRow(u) /\ UNCHANGED <<status, owner>>
    <3>1. CASE status[u] = "pending"
      <4>1. link = "down" /\ UNCHANGED <<link, toCtl, cur>>
        BY <1>6, <2>3, <3>1 DEF TakesRow, OrchestratorBegin, net, agent
      <4>2. Announced(u)' /\ Attended(u)'
        BY <3>1, <4>1, SameChannel DEF RowKept, Announced, Attended, Connected
      <4>3. QED
        BY <2>3, <3>1, <4>2, PendingKept
    <3>2. QED
      BY <1>3, <2>1, <3>1 DEF Fresh
  <2>4. QED
    BY <1>6, <2>2, <2>3 DEF OrchestratorBegin
<1>7. CASE OrchestratorProceed(u)
  <2>1. status[u] \notin {"none", "queued"}
    BY <1>7 DEF OrchestratorProceed, RowKept, Untouched
  <2>2. Send(u) /\ UNCHANGED <<status, owner, spawned, link, toCtl, cur, faults, lost>>
    BY <1>7 DEF OrchestratorProceed, table, agent
  <2>3. InTransit(u) => InTransit(u)'
    BY <2>2, SendTransit
  <2>4. Announced(u) => Announced(u)'
    BY <2>2, SameChannel DEF Announced, Connected
  <2>5. Attended(u) => Attended(u)'
    BY <1>1, <2>2, <2>3, SameChannel DEF Attended, JobsKept, Connected
  <2>6. status[u] = "pending" => RowKept(u)'
    BY <2>2, <2>4, <2>5, PendingKept DEF RowKept
  <2>7. QED
    BY <1>3, <2>1, <2>6 DEF Fresh
<1>8. CASE HandleStarted(u)
  <2>1. toCtl # <<>> /\ Head(toCtl).u = u
    BY <1>8 DEF HandleStarted, Receive
  <2>2. status[u] \notin {"none", "queued"}
    BY <2>1, HeadSpoken DEF RowKept, Untouched
  <2>3. CASE status[u] = "pending"
    <3>1. Claimable(u)
      BY <2>3 DEF RowKept, Fresh, Claimable
    <3>2. status'[u] = "in_progress"
      BY <1>2, <1>8, <3>1 DEF HandleStarted
    <3>3. QED
      BY <3>2, LeftFresh DEF Fresh
  <2>4. QED
    BY <1>3, <2>2, <2>3 DEF Fresh
<1>9. CASE HandleResult(u)
  <2>1. toCtl # <<>> /\ Head(toCtl).u = u /\ Head(toCtl).kind # "started"
    BY <1>9 DEF HandleResult, Receive
  <2>2. status[u] \notin {"none", "queued"}
    BY <2>1, HeadSpoken DEF RowKept, Untouched
  <2>3. CASE status[u] = "pending"
    <3>1. InOrder(u) /\ owner[u] = None
      BY <2>3 DEF RowKept, Announced, Fresh
    <3>2. \E j \in 1 .. 1 : Answer(toCtl[j], u)
      BY <2>1, <3>1, HeadSpoken DEF InOrder
    <3>3. Answer(toCtl[1], u)
      BY <3>2
    <3>4. Head(toCtl).kind = "failed"
      BY <2>1, <3>3, HeadSpoken DEF Answer
    <3>5. status' = [status EXCEPT ![u] = FinalStatus("failed")]
      BY <1>9, <2>3, <3>1, <3>4 DEF HandleResult, Unstarted
    <3>6. status'[u] = "failed"
      BY <1>2, <3>5 DEF FinalStatus
    <3>7. QED
      BY <3>6, LeftFresh DEF Fresh
  <2>4. QED
    BY <1>3, <2>2, <2>3 DEF Fresh
<1>10. CASE \/ OrchestratorFail(u) \/ HandleVersionCheck(u)
            \/ \E w \in Recoveries : FailUnreplayable(w, u)
            \/ RestartTimeout(u) \/ ReapOverdue(u) \/ ReapPending(u)
  <2>1. \E s \in Terminal : status' = [status EXCEPT ![u] = s]
    BY <1>10 DEF OrchestratorFail, FailUnreplayable, HandleVersionCheck, RestartTimeout,
                 ReapOverdue, ReapPending, Terminal
  <2>2. status'[u] \in Terminal
    BY <1>2, <2>1
  <2>3. QED
    BY <2>2, LeftFresh DEF Fresh, Terminal
<1>11. QED
  BY <1>4, <1>5, <1>6, <1>7, <1>8, <1>9, <1>10 DEF RowStep

\* create_batch: the row that becomes Pending is the one it protects.
LEMMA BatchStepKeeps ==
    ASSUME TypeInv, Born, ExcusesStay, RowsKept, NEW b \in Batches,
           CreateBatch(b) \/ InsertBatch(b), NEW v \in Updates
    PROVE  RowKept(v)'
<1> USE SomeWorkers, IdleIsTyped
<1>1. RowKept(v) /\ UNCHANGED <<owner, spawned, orch, net, cur>>
  BY DEF RowsKept, CreateBatch, InsertBatch, table, agent
<1>2. CASE CreateBatch(b)
  <2>1. work["api"] = Idle /\ UNCHANGED status
    BY <1>2 DEF CreateBatch, table
  <2>2. \E op \in {"free", "busy"} : Goto("api", Job(op, None, b))
    BY <1>2 DEF CreateBatch
  <2>3. JobsKept(v)
    BY <2>1, <2>2, JobOps, EmptyHands
  <2>4. QED
    BY <1>1, <2>1, <2>3, StillKeeps
<1>3. CASE InsertBatch(b)
  <2> DEFINE busy == work["api"].op = "busy"
             First(u) == \A x \in RowsOf(b) : u <= x
  <2>1. work["api"].op \in {"busy", "free"} /\ work["api"].b = b
    BY <1>3 DEF InsertBatch
  <2>2. v \in RowsOf(b) => status[v] = "none"
    BY <2>1 DEF Born, CreateIsNew, BatchIsNew
  <2>3. CASE Goto("api", Idle) /\ UNCHANGED status
    <3>1. JobsKept(v)
      BY <2>1, <2>3, EmptyHands
    <3>2. QED
      BY <1>1, <2>3, <3>1, StillKeeps
  <2>4. CASE /\ status' = [u \in Updates |->
                              IF u \notin RowsOf(b) THEN status[u]
                              ELSE IF First(u) /\ ~busy THEN "pending" ELSE "queued"]
             /\ \/ busy /\ Goto("api", Idle)
                \/ ~busy /\ \E u \in RowsOf(b) : First(u) /\ Goto("api", Job("create", u, b))
    <3>1. CASE v \in RowsOf(b) /\ First(v) /\ ~busy
      <4>1. PICK u \in RowsOf(b) : First(u) /\ Goto("api", Job("create", u, b))
        BY <2>4, <3>1
      <4>2. u = v
        <5>1. u <= v /\ v <= u /\ u \in Nat /\ v \in Nat
          BY <3>1, <4>1, SetsAssumption DEF RowsOf
        <5>2. QED
          BY <5>1
      <4>3. work'["api"] = Job("create", v, b)
        BY <4>1, <4>2 DEF Goto, TypeInv, TypeOK
      <4>4. Protects("api", v)'
        BY <4>3, JobOps DEF Protects
      <4>5. Attended(v)'
        BY <4>4 DEF Attended
      <4>6. status'[v] = "pending"
        BY <2>4, <3>1
      <4>7. QED
        BY <1>1, <2>2, <3>1, <4>5, <4>6, PromotedKept DEF net
    <3>2. CASE ~(v \in RowsOf(b) /\ First(v) /\ ~busy)
      <4>1. PICK job : Goto("api", job) /\ (job.op = "create" => job.u # v)
                       /\ job.op \in {"idle", "create"}
        BY <2>4, <3>2, JobOps
      <4>2. ~Protects("api", v)
        BY <2>1 DEF Protects
      <4>3. JobsKept(v)
        BY <4>1, <4>2, JobFrame
      <4>4. status'[v] = status[v] \/ {status[v], status'[v]} \subseteq {"none", "queued"}
        BY <2>2, <2>4, <3>2
      <4>5. QED
        BY <1>1, <4>3, <4>4, StillKeeps
    <3>3. QED
      BY <3>1, <3>2
  <2>5. QED
    BY <1>3, <2>3, <2>4 DEF InsertBatch
<1>4. QED
  BY <1>2, <1>3

\* The dispatching jobs: a promoted row has an orchestrator or is in hand, and
\* one let go of was sent, or is left to the replay.
LEMMA JobStepKeeps ==
    ASSUME TypeInv, Born, Shape, ExcusesStay, WireKept, RowsKept,
           NEW w \in Workers, JobStep(w), NEW v \in Updates
    PROVE  RowKept(v)'
<1> USE SomeWorkers, IdleIsTyped
<1>1. RowKept(v) /\ UNCHANGED <<owner, orch, link, toCtl, cur>>
  BY DEF RowsKept, JobStep, DispatchQueued, SpawnQueued, DispatchDirect, DirectProceed,
         DirectFail, net, agent
<1>2. /\ status \in [Updates -> Unfinished \cup Terminal \cup {"none"}]
      /\ spawned \in [Updates -> Nat]
      /\ work \in [Workers -> JobType]
  BY DEF TypeInv, TypeOK, JobType
<1>3. After(w).op \in {"idle", "replay"} /\ (w \in Recoveries => After(w).op = "replay")
  BY JobOps
<1>4. CASE DispatchQueued(w)
  <2>1. work[w].op = "queue" /\ UNCHANGED <<net, spawned>>
    BY <1>4 DEF DispatchQueued
  <2>2. w \notin Recoveries
    BY <2>1 DEF WireKept, RecoveryOps
  <2>3. CASE UNCHANGED status /\ Goto(w, Idle)
    <3>1. JobsKept(v)
      BY <2>1, <2>2, <2>3, EmptyHands
    <3>2. QED
      BY <1>1, <2>1, <2>3, <3>1, StillKeeps
  <2>4. ASSUME NEW u \in Queued, status' = [status EXCEPT ![u] = "pending"],
               Goto(w, Job("load", u, None))
        PROVE  RowKept(v)'
    <3>1. CASE v = u
      <4>1. status[v] = "queued" /\ status'[v] = "pending"
        BY <1>2, <2>4, <3>1 DEF Queued
      <4>2. work'[w] = Job("load", v, None)
        BY <2>4, <3>1, OneMoves
      <4>3. Protects(w, v)'
        BY <4>2, JobOps DEF Protects
      <4>4. Attended(v)'
        BY <4>3 DEF Attended
      <4>5. QED
        BY <1>1, <4>1, <4>4, PromotedKept
    <3>2. CASE v # u
      <4>1. status'[v] = status[v]
        BY <1>2, <2>4, <3>2
      <4>2. ~Protects(w, v)
        BY <2>1 DEF Protects
      <4>3. JobsKept(v)
        BY <2>4, <3>2, <4>2, JobOps, JobFrame
      <4>4. QED
        BY <1>1, <2>1, <4>1, <4>3, StillKeeps
    <3>3. QED
      BY <3>1, <3>2
  <2>5. QED
    BY <1>4, <2>3, <2>4 DEF DispatchQueued
<1>5. CASE SpawnQueued(w)
  <2> DEFINE u == work[w].u
  <2>1. work[w].op = "load" /\ Goto(w, Idle) /\ UNCHANGED net
    BY <1>5 DEF SpawnQueued
  <2>2. w \notin Recoveries
    BY <2>1 DEF WireKept, RecoveryOps
  <2>3. u \in Updates /\ Protects(w, u)
    BY <2>1 DEF TypeInv, ProtectedRowsExist, Protects
  <2>4. \/ spawned' = [spawned EXCEPT ![u] = @ + 1] /\ UNCHANGED status
        \/ status' = [status EXCEPT ![u] = "failed"] /\ UNCHANGED spawned
    BY <1>5 DEF SpawnQueued
  <2>5. v # u => ~Protects(w, v)
    BY DEF Protects
  <2> HIDE DEF u
  <2>6. CASE v # u
    <3>1. JobsKept(v)
      BY <2>1, <2>2, <2>5, <2>6, JobFrame
    <3>2. status'[v] = status[v] /\ spawned'[v] = spawned[v]
      BY <1>2, <2>3, <2>4, <2>6
    <3>3. QED
      BY <1>1, <2>1, <3>1, <3>2, StillKeeps
  <2>7. CASE v = u
    <3>1. status[v] \notin {"none", "queued"}
      BY <1>1, <2>3, <2>7 DEF RowKept, Untouched
    <3>2. CASE status'[v] = "failed"
      BY <3>2, LeftFresh DEF Fresh
    <3>3. CASE status'[v] = status[v] /\ spawned'[v] > 0
      <4>1. Attended(v)'
        BY <3>3 DEF Attended
      <4>2. status[v] = "pending" => Announced(v)'
        BY <1>1, SameChannel DEF RowKept, Announced, Connected
      <4>3. QED
        BY <1>1, <3>1, <3>3, <4>1, <4>2, PendingKept, LeftFresh DEF Fresh
    <3>4. QED
      BY <1>2, <2>3, <2>4, <2>7, <3>2, <3>3
  <2>8. QED
    BY <2>6, <2>7
<1>6. CASE DispatchDirect(w)
  <2>1. work[w].op = "direct" /\ UNCHANGED <<net, spawned>>
    BY <1>6 DEF DispatchDirect
  <2>2. CASE Goto(w, After(w)) /\ UNCHANGED status
    <3>1. JobsKept(v)
      BY <1>3, <2>1, <2>2, EmptyHands
    <3>2. QED
      BY <1>1, <2>1, <2>2, <3>1, StillKeeps
  <2>3. ASSUME NEW u \in Queued, status' = [status EXCEPT ![u] = "pending"],
               Goto(w, Job("protect", u, work[w].b))
        PROVE  RowKept(v)'
    <3>1. CASE v = u
      <4>1. status[v] = "queued" /\ status'[v] = "pending"
        BY <1>2, <2>3, <3>1 DEF Queued
      <4>2. work'[w] = Job("protect", v, work[w].b)
        BY <1>2, <2>3, <3>1 DEF Goto
      <4>3. Protects(w, v)'
        BY <4>2, JobOps DEF Protects
      <4>4. Attended(v)'
        BY <4>3 DEF Attended
      <4>5. QED
        BY <1>1, <4>1, <4>4, PromotedKept
    <3>2. CASE v # u
      <4>1. status'[v] = status[v]
        BY <1>2, <2>3, <3>2
      <4>2. ~Protects(w, v)
        BY <2>1 DEF Protects
      <4>3. JobsKept(v)
        BY <2>3, <3>2, <4>2, JobOps, JobFrame
      <4>4. QED
        BY <1>1, <2>1, <4>1, <4>3, StillKeeps
    <3>3. QED
      BY <3>1, <3>2
  <2>4. ASSUME NEW u \in Queued, status' = [status EXCEPT ![u] = "failed"], UNCHANGED work
        PROVE  RowKept(v)'
    <3>1. status'[v] = "failed" \/ status'[v] = status[v]
      BY <1>2, <2>4
    <3>2. JobsKept(v)
      BY <2>4, SameJobs
    <3>3. QED
      BY <1>1, <2>1, <3>1, <3>2, StillKeeps, LeftFresh DEF Fresh
  <2>5. QED
    BY <1>6, <2>2, <2>3, <2>4 DEF DispatchDirect
<1>7. CASE DirectProceed(w)
  <2> DEFINE u == work[w].u
  <2>1. /\ work[w].op \in {"load", "protect", "create"}
        /\ Goto(w, After(w)) /\ UNCHANGED <<status, spawned>>
    BY <1>7 DEF DirectProceed
  <2>2. /\ w \in Recoveries => UNCHANGED toAgent
        /\ w \notin Recoveries => Send(u)
    BY <1>7 DEF DirectProceed
  <2>3. u \in Updates
    BY <2>1 DEF TypeInv, ProtectedRowsExist
  <2>4. Protects(w, u)
    BY <2>1 DEF Protects
  <2>5. work[w].u = u
    OBVIOUS
  <2> HIDE DEF u
  <2>6. CASE v # u
    <3>1. ~Protects(w, v)
      BY <2>5, <2>6 DEF Protects
    <3>2. JobsKept(v)
      BY <1>3, <2>1, <3>1, JobFrame
    <3>3. InTransit(v)' <=> InTransit(v)
      <4>1. CASE w \in Recoveries
        BY <2>2, <4>1 DEF InTransit
      <4>2. CASE w \notin Recoveries
        BY <2>2, <2>3, <2>6, <4>2, SendTransit
      <4>3. QED
        BY <4>1, <4>2
    <3>4. Unmoved(v)
      BY <1>1, <2>1, <3>2, <3>3, SameChannel DEF Unmoved
    <3>5. QED
      BY <1>1, <2>1, <3>4, UnmovedKeeps
  <2>7. CASE v = u
    <3>1. status[v] \notin {"none", "queued"}
      BY <1>1, <2>4, <2>7 DEF RowKept, Untouched
    <3>2. CASE status[v] = "pending"
      <4>1. Announced(v)'
        BY <1>1, <3>2, SameChannel DEF RowKept, Announced, Connected
      <4>2. Attended(v)'
        <5>1. CASE w \in Recoveries
          <6>1. work'[w].op = "replay"
            BY <1>3, <2>1, <5>1, OneMoves
          <6>2. QED
            BY <5>1, <6>1 DEF Attended
        <5>2. CASE w \notin Recoveries
          <6>1. ~Connected \/ InTransit(v)'
            BY <2>2, <2>3, <2>7, <5>2, SendTransit
          <6>2. QED
            BY <1>1, <6>1 DEF Attended, Connected
        <5>3. QED
          BY <5>1, <5>2
      <4>3. QED
        BY <1>1, <2>1, <3>2, <4>1, <4>2, PendingKept
    <3>3. QED
      BY <2>1, <3>1, <3>2, LeftFresh DEF Fresh
  <2>8. QED
    BY <2>6, <2>7
<1>8. CASE DirectFail(w)
  <2>1. /\ work[w].op \in {"load", "protect", "create"} /\ Goto(w, Job("direct", None, work[w].b))
        /\ UNCHANGED <<net, spawned>> /\ status' = [status EXCEPT ![work[w].u] = "failed"]
    BY <1>8 DEF DirectFail
  <2>2. CASE v = work[w].u
    BY <1>2, <2>1, <2>2, LeftFresh DEF Fresh
  <2>3. CASE v # work[w].u
    <3>1. ~Protects(w, v) /\ status'[v] = status[v]
      BY <1>2, <2>1, <2>3 DEF Protects
    <3>2. JobsKept(v)
      BY <2>1, <3>1, JobOps, JobFrame
    <3>3. QED
      BY <1>1, <2>1, <3>1, <3>2, StillKeeps
  <2>4. QED
    BY <2>2, <2>3
<1>9. QED
  BY <1>4, <1>6, <1>7, <1>8, <1>5 DEF JobStep

\* A row that was never dispatched stays so.
LEMMA UntouchedKept ==
    ASSUME NEW u \in Updates, RowKept(u), status[u] \in {"none", "queued"},
           status'[u] = status[u], owner'[u] = owner[u], Untouched(u) => Untouched(u)'
    PROVE  RowKept(u)'
BY DEF RowKept, Fresh

\* Recovery: what it promotes it replays, and the replay covers the Pending row.
LEMMA RecoverKeeps ==
    ASSUME TypeInv, Shape, ExcusesStay, OneActivePerHost, RowsKept,
           NEW w \in Recoveries, Recover(w), NEW v \in Updates
    PROVE  RowKept(v)'
<1> USE SomeWorkers, IdleIsTyped
<1>1. RowKept(v) /\ UNCHANGED <<owner, orch, toCtl, cur>>
  BY DEF RowsKept, Recover, InterruptOwned, FailOrphans, PromoteForReplay, ReplayPending,
         net, agent, table
<1>2. /\ status \in [Updates -> Unfinished \cup Terminal \cup {"none"}]
      /\ spawned \in [Updates -> Nat]
  BY DEF TypeInv, TypeOK
<1>3. CASE InterruptOwned(w) \/ FailOrphans(w)
  <2>1. /\ work[w].op \in {"interrupt", "orphans"}
        /\ UNCHANGED <<net, spawned>>
        /\ status'[v] = status[v] \/ status'[v] \notin Fresh
    BY <1>3 DEF InterruptOwned, FailOrphans, Fresh
  <2>2. \/ \E u : Goto(w, Job("orphans", u, None))
        \/ \E u : Goto(w, Successor(w, u))
        \/ Goto(w, After(w))
    BY <1>3 DEF InterruptOwned, FailOrphans
  <2>3. PICK job : Goto(w, job) /\ job.op \in {"orphans", "direct", "promote", "replay"}
    BY <2>2, JobOps
  <2>4. JobsKept(v)
    BY <2>1, <2>3, EmptyHands
  <2>5. QED
    BY <1>1, <2>1, <2>4, StillKeeps, LeftFresh
<1>4. CASE PromoteForReplay(w)
  <2>1. /\ work[w].op = "promote" /\ Goto(w, After(w))
        /\ UNCHANGED <<net, spawned>>
    BY <1>4 DEF PromoteForReplay
  <2>2. JobsKept(v)
    BY <2>1, JobOps, EmptyHands
  <2>3. CASE status'[v] = status[v]
    BY <1>1, <2>1, <2>2, <2>3, StillKeeps
  <2>4. CASE status'[v] # status[v]
    <3>1. \E u \in Queued : status' = [status EXCEPT ![u] = "pending"]
      BY <1>4, <2>4 DEF PromoteForReplay
    <3>2. status[v] = "queued" /\ status'[v] = "pending"
      BY <1>2, <2>4, <3>1 DEF Queued
    <3>3. work'[w].op = "replay"
      BY <2>1, OneMoves, JobOps
    <3>4. Attended(v)'
      BY <3>3 DEF Attended
    <3>5. QED
      BY <1>1, <3>2, <3>4, PromotedKept
  <2>5. QED
    BY <2>3, <2>4
<1>5. CASE ReplayPending(w)
  <2> DEFINE P == {u \in Updates : status[u] = "pending"}
  <2>1. /\ work[w].op = "replay" /\ Goto(w, Idle) /\ UNCHANGED status
        /\ link' = IF w = "recovery" /\ link = "setup" THEN "up" ELSE link
    BY <1>5 DEF ReplayPending, table
  <2>6. Connected' <=> Connected
    BY <2>1 DEF Connected
  <2>2. \/ P = {} /\ UNCHANGED <<spawned, toAgent>>
        \/ \E u \in P : spawned' = [spawned EXCEPT ![u] = @ + 1] /\ UNCHANGED toAgent
        \/ \E u \in P :
              /\ toAgent' = IF w = "recovery" /\ Connected THEN <<u>> \o toAgent ELSE toAgent
              /\ w # "recovery" => u \in lost'
              /\ UNCHANGED spawned
    BY <1>5 DEF ReplayPending
  <2>3. CASE status[v] \in {"none", "queued"}
    <3>1. v \notin P
      BY <2>3
    <3>2. spawned'[v] = spawned[v]
      BY <1>2, <2>2, <3>1
    <3>3. InTransit(v)' => InTransit(v)
      <4>1. CASE UNCHANGED toAgent
        BY <4>1 DEF InTransit
      <4>2. ASSUME NEW u \in P, toAgent' = <<u>> \o toAgent PROVE InTransit(v)' => InTransit(v)
        <5>1. toAgent \in Seq(Updates) /\ u \in Updates /\ u # v
          BY <3>1 DEF TypeInv, TypeOK
        <5>2. /\ Len(toAgent') = Len(toAgent) + 1 /\ Len(toAgent) \in Nat
              /\ \A i \in 2 .. Len(toAgent') : i - 1 \in 1 .. Len(toAgent)
                                              /\ toAgent'[i] = toAgent[i - 1]
              /\ toAgent'[1] = u
          BY <4>2, <5>1, PrependTransit
        <5>3. \A i \in 1 .. Len(toAgent') : i = 1 \/ i \in 2 .. Len(toAgent')
          BY <5>2
        <5>4. QED
          BY <5>1, <5>2, <5>3 DEF InTransit
      <4>3. QED
        BY <2>2, <4>1, <4>2
    <3>4. \A x \in Workers : Protects(x, v)' => Protects(x, v)
      BY <2>1, OneMoves DEF Protects
    <3>5. Untouched(v) => Untouched(v)'
      BY <1>1, <3>2, <3>3, <3>4, SameChannel DEF Untouched
    <3>6. QED
      BY <1>1, <2>1, <2>3, <3>5, UntouchedKept
  <2>4. CASE status[v] = "pending"
    <3>1. \A u \in P : u = v
      BY <2>4 DEF OneActivePerHost, HostBlocking
    <3>2. v \in P
      BY <2>4
    <3>3. Announced(v)'
      BY <1>1, <2>4, <2>6, SameChannel DEF RowKept, Announced
    <3>4. CASE spawned' = [spawned EXCEPT ![v] = @ + 1]
      <4>1. spawned'[v] > 0
        BY <1>2, <3>4
      <4>2. Attended(v)'
        BY <4>1 DEF Attended
      <4>3. QED
        BY <1>1, <2>1, <2>4, <3>3, <4>2, PendingKept
    <3>5. CASE /\ toAgent' = IF w = "recovery" /\ Connected THEN <<v>> \o toAgent ELSE toAgent
               /\ w # "recovery" => v \in lost'
      <4>1. CASE ~Connected \/ w # "recovery"
        <5>1. Attended(v)'
          BY <2>6, <3>5, <4>1 DEF Attended
        <5>2. QED
          BY <1>1, <2>1, <2>4, <3>3, <5>1, PendingKept
      <4>2. CASE Connected /\ w = "recovery"
        <5>1. toAgent \in Seq(Updates) /\ toAgent' = <<v>> \o toAgent
          BY <3>5, <4>2 DEF TypeInv, TypeOK
        <5>2. 1 \in 1 .. Len(toAgent') /\ toAgent'[1] = v
          BY <5>1, PrependTransit
        <5>3. Attended(v)'
          BY <5>2 DEF Attended, InTransit
        <5>4. QED
          BY <1>1, <2>1, <2>4, <3>3, <5>3, PendingKept
      <4>3. QED
        BY <4>1, <4>2
    <3>6. QED
      BY <2>2, <3>1, <3>2, <3>4, <3>5
  <2>5. QED
    BY <2>1, <2>3, <2>4, LeftFresh DEF Fresh
<1>6. QED
  BY <1>3, <1>4, <1>5 DEF Recover

\* The link goes, and with it all that was said.
LEMMA LostKeeps ==
    ASSUME NEW v \in Updates, RowKept(v), link' \in {"down", "dead"},
           toAgent' = <<>>, toCtl' = <<>>, status'[v] = status[v], owner'[v] = owner[v],
           spawned[v] = 0 => spawned'[v] = 0, v \in orch' => v \in orch, cur' = v => cur = v,
           \A w \in Workers : Protects(w, v)' => Protects(w, v)
    PROVE  RowKept(v)'
<1>1. ~Connected' /\ Len(toAgent') = 0 /\ Len(toCtl') = 0
  BY DEF Connected
<1>2. ~InTransit(v)' /\ ~Spoken(v)' /\ InOrder(v)'
  BY <1>1 DEF InTransit, Spoken, InOrder
<1>3. Announced(v)' /\ Attended(v)'
  BY <1>1, <1>2 DEF Announced, Attended
<1>4. Untouched(v) => Untouched(v)'
  BY <1>2 DEF Untouched
<1>5. QED
  BY <1>3, <1>4 DEF RowKept

LEMMA ConnectKeeps ==
    ASSUME TypeInv, RowsKept, WireKept, AgentConnect, NEW v \in Updates
    PROVE  RowKept(v)'
<1> USE SomeWorkers
<1>1. /\ RowKept(v) /\ ConnectMoves
      /\ UNCHANGED <<status, owner, spawned, orch, toAgent, cur>>
      /\ toCtl' = IF cur = None THEN <<>> ELSE <<[kind |-> "started", u |-> cur]>>
  BY ConnectJobs DEF AgentConnect, RowsKept, table, agent
<1>2. /\ work'["recovery"].op = "interrupt"
      /\ (\A w \in Workers : ~Protects(w, v)) => \A w \in Workers : ~Protects(w, v)'
  BY <1>1, JobOps, IdleIsTyped DEF ConnectMoves, Protects
<1>3. Attended(v)'
  BY <1>2 DEF Attended
<1>4. InTransit(v)' <=> InTransit(v)
  BY <1>1 DEF InTransit
<1>5. CASE cur = None
  <2>1. Len(toCtl') = 0 /\ cur' # v
    BY <1>1, <1>5, SetsAssumption
  <2>2. ~Spoken(v)' /\ Announced(v)'
    BY <2>1 DEF Spoken, Announced, InOrder
  <2>3. Untouched(v) => Untouched(v)'
    BY <1>1, <1>2, <1>4, <2>2 DEF Untouched
  <2>4. QED
    BY <1>1, <1>3, <2>2, <2>3 DEF RowKept
<1>6. CASE cur # None
  <2>1. Len(toCtl') = 1 /\ toCtl'[1].kind = "started" /\ toCtl'[1].u = cur
    BY <1>1, <1>6
  <2>2. 1 \in 1 .. Len(toCtl') /\ \A i \in 1 .. Len(toCtl') : i = 1
    BY <2>1
  <2>3. Spoken(v)' <=> cur = v
    BY <2>1, <2>2 DEF Spoken
  <2>4. cur = v => Answer(toCtl'[1], v)
    BY <2>1 DEF Answer
  <2>5. cur = v => Answered(v)'
    <3>1. cur = v => \E j \in 1 .. Len(toCtl') : Answer(toCtl'[j], v)
      BY <2>2, <2>4
    <3>2. QED
      BY <3>1 DEF Answered, Answer
  <2>6. InOrder(v)'
    <3>1. \A i \in 1 .. Len(toCtl') : toCtl'[i].u = v => \E j \in 1 .. i : Answer(toCtl'[j], v)
      BY <2>1, <2>2, <2>4
    <3>2. QED
      BY <3>1 DEF InOrder, Answer
  <2>7. Announced(v)'
    BY <1>1, <2>5, <2>6 DEF Announced
  <2>8. Untouched(v) => Untouched(v)'
    BY <1>1, <1>2, <1>4, <2>3 DEF Untouched
  <2>9. QED
    BY <1>1, <1>3, <2>7, <2>8 DEF RowKept
<1>7. QED
  BY <1>5, <1>6

\* The agent takes a message off its channel.
LEMMA TakeTransit ==
    ASSUME TypeInv, toAgent # <<>>, toAgent' = Tail(toAgent)
    PROVE  /\ Head(toAgent) \in Updates /\ InTransit(Head(toAgent))
           /\ \A v \in Updates \ {Head(toAgent)} : InTransit(v)' <=> InTransit(v)
<1>1. toAgent \in Seq(Updates)
  BY DEF TypeInv, TypeOK
<1>2. /\ Len(toAgent') = Len(toAgent) - 1 /\ Len(toAgent) \in Nat
      /\ Head(toAgent) = toAgent[1] /\ 1 \in 1 .. Len(toAgent)
      /\ \A i \in 1 .. Len(toAgent') : /\ i + 1 \in 2 .. Len(toAgent)
                                       /\ toAgent'[i] = toAgent[i + 1]
  BY <1>1, TailTransit
<1>3. Head(toAgent) \in Updates /\ InTransit(Head(toAgent))
  BY <1>1, <1>2 DEF InTransit
<1>4. ASSUME NEW v \in Updates \ {Head(toAgent)} PROVE InTransit(v)' <=> InTransit(v)
  <2>1. ASSUME NEW i \in 1 .. Len(toAgent), toAgent[i] = v PROVE InTransit(v)'
    <3>1. i # 1
      BY <1>2, <1>4, <2>1
    <3>2. i - 1 \in 1 .. Len(toAgent') /\ (i - 1) + 1 = i
      BY <1>2, <2>1, <3>1
    <3>3. toAgent'[i - 1] = v
      BY <1>2, <2>1, <3>2
    <3>4. QED
      BY <3>2, <3>3 DEF InTransit
  <2>2. ASSUME NEW i \in 1 .. Len(toAgent'), toAgent'[i] = v PROVE InTransit(v)
    <3>1. i + 1 \in 1 .. Len(toAgent) /\ toAgent[i + 1] = v
      BY <1>2, <2>2
    <3>2. QED
      BY <3>1 DEF InTransit
  <2>3. QED
    BY <2>1, <2>2 DEF InTransit
<1>5. QED
  BY <1>3, <1>4

\* The agent's steps on row u, seen from another row and from u itself.
LEMMA AgentKeeps ==
    ASSUME TypeInv, ExcusesStay, WireKept, RowsKept, AgentStep, ~AgentConnect, ~AgentRestart,
           NEW v \in Updates
    PROVE  RowKept(v)'
<1>1. /\ RowKept(v)
      /\ UNCHANGED <<status, owner, spawned, orch, work, link>>
  BY DEF RowsKept, AgentStep, AgentExecute, AgentGate, AgentEarlyResult, AgentFinish, table
<1>2. JobsKept(v)
  BY <1>1, SameJobs
<1>3. CASE status[v] \notin Fresh
  BY <1>1, <1>3, LeftFresh
<1>4. CASE AgentExecute
  <2> DEFINE u == Head(toAgent)
  <2>1. /\ u \in Updates /\ InTransit(u)
        /\ \A x \in Updates \ {u} : InTransit(x)' <=> InTransit(x)
    BY <1>4, TakeTransit DEF AgentExecute
  <2>2. PICK kind \in {"started", "failed"} : Tell(kind, u) /\ (cur' = cur \/ cur' = u)
    BY <1>4 DEF AgentExecute
  <2> HIDE DEF u
  <2>3. kind \in Kinds
    BY DEF Kinds
  <2>4. /\ Spoken(v)' <=> Spoken(v) \/ u = v
        /\ Answered(v) => Answered(v)'
        /\ u = v => Answered(v)'
        /\ InOrder(v) => InOrder(v)'
    BY <2>1, <2>2, <2>3, SpeakKeeps
  <2>5. CASE v # u
    <3>1. Unmoved(v)
      BY <1>1, <1>2, <2>1, <2>2, <2>4, <2>5 DEF Unmoved
    <3>2. QED
      BY <1>1, <3>1, UnmovedKeeps
  <2>6. CASE v = u
    <3>1. status[v] \notin {"none", "queued"}
      BY <1>1, <2>1, <2>6 DEF RowKept, Untouched
    <3>2. CASE status[v] = "pending"
      <4>1. Announced(v)' /\ Attended(v)'
        BY <1>1, <2>4, <2>6, <3>2 DEF RowKept, Announced, Attended, Connected
      <4>2. QED
        BY <1>1, <3>2, <4>1, PendingKept
    <3>3. QED
      BY <1>3, <3>1, <3>2 DEF Fresh
  <2>7. QED
    BY <2>5, <2>6
<1>5. CASE AgentGate
  <2> DEFINE u == Head(toAgent)
  <2>1. /\ u \in Updates /\ InTransit(u)
        /\ \A x \in Updates \ {u} : InTransit(x)' <=> InTransit(x)
    BY <1>5, TakeTransit DEF AgentGate
  <2> HIDE DEF u
  <2>2. UNCHANGED <<toCtl, cur>> /\ Fault("gated", MaxGated)
    BY <1>5 DEF AgentGate, agent
  <2>3. faults'["gated"] > 0
    BY <2>2 DEF Fault, Faults, TypeInv, TypeOK
  <2>4. CASE status[v] = "pending"
    <3>1. Announced(v)'
      BY <1>1, <2>2, <2>4, SameChannel DEF RowKept, Announced, Connected
    <3>2. Attended(v)'
      BY <2>3 DEF Attended
    <3>3. QED
      BY <1>1, <2>4, <3>1, <3>2, PendingKept
  <2>5. CASE status[v] \in {"none", "queued"}
    <3>1. v # u
      BY <1>1, <2>1, <2>5 DEF RowKept, Untouched
    <3>2. Unmoved(v)
      BY <1>1, <1>2, <2>1, <2>2, <3>1, SameChannel DEF Unmoved
    <3>3. QED
      BY <1>1, <3>2, UnmovedKeeps
  <2>6. QED
    BY <1>3, <2>4, <2>5 DEF Fresh
<1>6. ASSUME NEW kind \in Kinds, Connected, cur \in Updates, Tell(kind, cur),
             UNCHANGED toAgent, cur' = cur \/ cur' = None
      PROVE  RowKept(v)'
  <2>1. InTransit(v)' <=> InTransit(v)
    BY <1>6 DEF InTransit
  <2>2. /\ Spoken(v)' <=> Spoken(v) \/ cur = v
        /\ Answered(v) => Answered(v)'
        /\ InOrder(v) /\ (cur = v => Answered(v)) => InOrder(v)'
    BY <1>6, SpeakKeeps
  <2>3. cur' = v => cur = v
    BY <1>6, SetsAssumption
  <2>4. CASE cur # v
    <3>1. Unmoved(v)
      BY <1>1, <1>2, <2>1, <2>2, <2>3, <2>4 DEF Unmoved
    <3>2. QED
      BY <1>1, <3>1, UnmovedKeeps
  <2>5. CASE cur = v
    <3>1. status[v] \notin {"none", "queued"}
      BY <1>1, <2>5 DEF RowKept, Untouched
    <3>2. CASE status[v] = "pending"
      <4>1. InOrder(v) /\ Answered(v)
        BY <1>1, <1>6, <2>5, <3>2 DEF RowKept, Announced
      <4>2. Announced(v)' /\ Attended(v)'
        BY <2>2, <2>5, <4>1 DEF Announced, Attended
      <4>3. QED
        BY <1>1, <3>2, <4>2, PendingKept
    <3>3. QED
      BY <1>3, <3>1, <3>2 DEF Fresh
  <2>6. QED
    BY <2>4, <2>5
<1>7. cur # None => cur \in Updates
  BY DEF TypeInv, TypeOK
<1>8. CASE AgentEarlyResult
  <2>1. Connected /\ cur \in Updates /\ Tell("restart", cur) /\ UNCHANGED <<toAgent, cur>>
    BY <1>8, SetsAssumption DEF AgentEarlyResult
  <2>2. QED
    BY <1>6, <1>7, <2>1 DEF Kinds
<1>9. ASSUME NEW kind \in {"completed", "failed"}, AgentFinish(kind) PROVE RowKept(v)'
  <2>1. Connected /\ cur # None /\ UNCHANGED toAgent /\ cur' = None
    BY <1>9 DEF AgentFinish
  <2>2. CASE Tell(kind, cur)
    BY <1>6, <1>7, <2>1, <2>2 DEF Kinds
  <2>3. CASE UNCHANGED toCtl
    <3>1. InTransit(v)' <=> InTransit(v)
      BY <2>1 DEF InTransit
    <3>2. cur' # v
      BY <2>1, SetsAssumption
    <3>3. Unmoved(v)
      BY <1>1, <1>2, <2>3, <3>1, <3>2, SameChannel DEF Unmoved
    <3>4. QED
      BY <1>1, <3>3, UnmovedKeeps
  <2>4. QED
    BY <1>9, <2>2, <2>3 DEF AgentFinish
<1>10. QED
  BY <1>4, <1>5, <1>8, <1>9 DEF AgentStep

LEMMA RowsStayKept ==
    ASSUME TypeInv, Born, OneActivePerHost, WireKept, RowsKept, [Next]_vars
    PROVE  RowsKept'
<1> USE SomeWorkers, IdleIsTyped
<1> SUFFICES ASSUME NEW v \in Updates PROVE RowKept(v)'
  BY DEF RowsKept
<1>1. RowKept(v)
  BY DEF RowsKept
<1>2. ExcusesStay /\ Shape
  BY StepKeepsExcuses, StepHasShape
<1>3. ASSUME NEW u \in Updates, RowStep(u) PROVE RowKept(v)'
  <2>1. CASE v = u
    BY <1>1, <1>2, <1>3, <2>1, RowStepItself
  <2>2. CASE v # u
    BY <1>1, <1>2, <1>3, <2>2, RowStepOthers
  <2>3. QED
    BY <2>1, <2>2
<1>4. ASSUME NEW b \in Batches, CreateBatch(b) \/ InsertBatch(b) PROVE RowKept(v)'
  BY <1>2, <1>4, BatchStepKeeps
<1>5. ASSUME NEW w \in Workers, JobStep(w) PROVE RowKept(v)'
  BY <1>2, <1>5, JobStepKeeps
<1>6. ASSUME NEW w \in Recoveries, Recover(w) PROVE RowKept(v)'
  BY <1>2, <1>6, RecoverKeeps
<1>7. CASE AgentStep
  <2>1. CASE AgentConnect
    BY <2>1, ConnectKeeps
  <2>2. CASE AgentRestart
    <3>1. /\ link' \in {"down", "dead"} /\ toAgent' = <<>> /\ toCtl' = <<>>
          /\ UNCHANGED <<status, owner, spawned, orch, work>> /\ cur' # v
      BY <2>2, SetsAssumption DEF AgentRestart, LoseLink, table
    <3>2. \A w \in Workers : Protects(w, v)' => Protects(w, v)
      BY <3>1 DEF Protects
    <3>3. QED
      BY <1>1, <3>1, <3>2, LostKeeps
  <2>3. QED
    BY <1>2, <1>7, <2>1, <2>2, AgentKeeps
<1>8. CASE Disconnect
  <2>1. /\ link' \in {"down", "dead"} /\ toAgent' = <<>> /\ toCtl' = <<>>
        /\ UNCHANGED <<status, owner, spawned, orch, work, cur>>
    BY <1>8 DEF Disconnect, LoseLink, table, agent
  <2>2. \A w \in Workers : Protects(w, v)' => Protects(w, v)
    BY <2>1 DEF Protects
  <2>3. QED
    BY <1>1, <2>1, <2>2, LostKeeps
<1>9. CASE ControllerCrash
  <2>1. /\ link' = "down" /\ toAgent' = <<>> /\ toCtl' = <<>>
        /\ UNCHANGED <<status, owner, cur>> /\ spawned'[v] = 0 /\ orch' = {}
    BY <1>9 DEF ControllerCrash, table, agent
  <2>2. \A w \in Workers : work'[w].op \in {"rollout", "idle"}
    BY <1>9, JobOps DEF ControllerCrash
  <2>3. \A w \in Workers : ~Protects(w, v)'
    BY <2>2 DEF Protects
  <2>4. QED
    BY <1>1, <2>1, <2>3, LostKeeps
<1>10. CASE RolloutCleanup
  <2>1. /\ work["startup"].op = "rollout" /\ UNCHANGED <<owner, spawned, orch, net, cur>>
        /\ status'[v] = status[v] \/ status'[v] \notin Fresh
        /\ Goto("startup", Idle) \/ \E b : Goto("startup", Job("direct", None, b))
    BY <1>10 DEF RolloutCleanup, Fresh, agent
  <2>2. JobsKept(v)
    BY <2>1, JobOps, EmptyHands
  <2>3. QED
    BY <1>1, <1>2, <2>1, <2>2, StillKeeps, LeftFresh
<1>11. CASE UNCHANGED vars
  <2>1. UNCHANGED <<status, owner, spawned, orch, work, net, cur>>
    BY <1>11 DEF vars, table, net, agent
  <2>2. QED
    BY <1>1, <1>2, <2>1, SameJobs, StillKeeps
<1>12. CASE EndSession
  <2>1. /\ link' = "down" /\ UNCHANGED <<status, owner, spawned, orch, cur, toAgent, toCtl>>
        /\ link = "dead" /\ Goto("processor", Idle)
    BY <1>12 DEF EndSession, table, agent
  <2>2. toAgent = <<>> /\ toCtl = <<>>
    BY <2>1 DEF WireKept, Connected
  <2>3. \A w \in Workers : Protects(w, v)' => Protects(w, v)
    BY <2>1, OneMoves DEF Protects
  <2>4. QED
    BY <1>1, <2>1, <2>2, <2>3, LostKeeps
<1>13. ASSUME NEW w \in OldProcessors, CancelProcessor(w) PROVE RowKept(v)'
  <2>1. /\ UNCHANGED <<status, owner, spawned, orch, net, cur>> /\ Goto(w, Idle)
        /\ lost' = IF work[w].op \in {"load", "protect"} THEN lost \cup {work[w].u} ELSE lost
    BY <1>13 DEF CancelProcessor, table, agent
  <2>2. CASE ~Protects(w, v)
    <3>1. JobsKept(v)
      BY <2>1, <2>2, JobFrame
    <3>2. QED
      BY <1>1, <1>2, <2>1, <3>1, StillKeeps
  <2>3. CASE Protects(w, v)
    <3>1. work[w].op # "create"
      BY DEF WireKept
    <3>2. v \in lost'
      BY <2>1, <2>3, <3>1 DEF Protects
    <3>3. status[v] \notin {"none", "queued"}
      BY <1>1, <2>3 DEF RowKept, Untouched
    <3>4. CASE status[v] = "pending"
      <4>1. Announced(v)'
        BY <1>1, <2>1, <3>4, SameChannel DEF RowKept, Announced, Connected, net
      <4>2. Attended(v)'
        BY <3>2 DEF Attended
      <4>3. QED
        BY <1>1, <2>1, <3>4, <4>1, <4>2, PendingKept
    <3>5. QED
      BY <2>1, <3>3, <3>4, LeftFresh DEF Fresh
  <2>4. QED
    BY <2>2, <2>3
<1>14. QED
  BY <1>3, <1>4, <1>5, <1>6, <1>7, <1>8, <1>9, <1>10, <1>11, <1>12, <1>13 DEF Next

\* Every Pending row of a connected host is attended to: reconnect recovery, an
\* orchestrator, a dispatching job or a message has it, through every promotion,
\* lost connection and crash, except where the agent's gate dropped a dispatch or
\* a superseded session was ended with the row in hand, for any number of these.
THEOREM PendingRowsAreAttended == Spec => []PendingIsAttended
<1>1. Init => WireKept /\ RowsKept
  <2> SUFFICES ASSUME Init PROVE WireKept /\ RowsKept
    OBVIOUS
  <2>1. /\ link = "down" /\ Len(toAgent) = 0 /\ Len(toCtl) = 0
        /\ toAgent = <<>> /\ toCtl = <<>> /\ cur = None /\ orch = {}
        /\ \A w \in Workers : work[w].op = "idle"
    BY IdleIsTyped DEF Init
  <2>2. WireKept
    BY <2>1, SomeWorkers DEF WireKept, RecoveryOps, Connected
  <2>3. ASSUME NEW u \in Updates PROVE RowKept(u)
    <3>1. status[u] = "none" /\ owner[u] = None /\ spawned[u] = 0 /\ cur # u
      BY <2>1, SetsAssumption DEF Init
    <3>2. ~InTransit(u) /\ ~Spoken(u)
      BY <2>1 DEF InTransit, Spoken
    <3>3. Untouched(u)
      BY <2>1, <3>1, <3>2 DEF Untouched, Protects
    <3>4. QED
      BY <3>1, <3>3 DEF RowKept
  <2>4. QED
    BY <2>2, <2>3 DEF RowsKept
<1>2. /\ TypeInv /\ Born /\ OneActivePerHost /\ WireKept /\ RowsKept /\ [Next]_vars
      => WireKept' /\ RowsKept'
  BY StepKeepsWire, RowsStayKept
<1>3. TypeInv /\ RowsKept => PendingIsAttended
  <2> SUFFICES ASSUME TypeInv, RowsKept, NEW u \in Updates, status[u] = "pending"
               PROVE  \/ ~Connected
                      \/ faults["gated"] > 0 \/ u \in lost
                      \/ \E w \in Recoveries : work[w] # Idle
                      \/ spawned[u] > 0
                      \/ \E w \in Workers :
                            work[w].op \in {"load", "protect", "create"} /\ work[w].u = u
                      \/ \E i \in DOMAIN toAgent : toAgent[i] = u
                      \/ \E i \in DOMAIN toCtl : toCtl[i].u = u
    BY DEF PendingIsAttended
  <2>1. Attended(u)
    BY DEF RowsKept, RowKept
  <2>2. toAgent \in Seq(Updates) /\ toCtl \in Seq([kind : Kinds, u : Updates])
    BY DEF TypeInv, TypeOK
  <2>3. DOMAIN toAgent = 1 .. Len(toAgent) /\ DOMAIN toCtl = 1 .. Len(toCtl)
    BY <2>2
  <2>4. \A w \in Recoveries : work[w].op # "idle" => work[w] # Idle
    BY IdleIsTyped
  <2>5. QED
    BY <2>1, <2>3, <2>4 DEF Attended, Protects, InTransit, Spoken
<1>4. QED
  BY <1>1, <1>2, <1>3, BornAlways, HostSlotIsExclusive, PTL DEF Spec
=============================================================================
