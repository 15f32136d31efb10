---------------------------- MODULE SchedulerProofs ----------------------------
(***************************************************************************)
(* The scheduler's lease, for every number of instances and tasks and all  *)
(* values of the timing constants that satisfy LeaseAssumption.            *)
(***************************************************************************)
EXTENDS Scheduler, TLAPS

USE DEF table, pulse

\* Every variable keeps its type.
THEOREM TypeCorrect == Spec => []TypeOK
<1> USE SetsAssumption, NumbersAssumption DEF Modes, ExecStates
<1>1. Init => TypeOK
  BY DEF Init, TypeOK
<1>2. TypeOK /\ [Next]_vars => TypeOK'
  <2> SUFFICES ASSUME TypeOK, [Next]_vars PROVE TypeOK'
    OBVIOUS
  <2> USE DEF TypeOK
  <2>1. ASSUME NEW c \in Controllers, PollStep(c) PROVE TypeOK'
    <3>1. CASE PollTick(c)
      BY <3>1 DEF PollTick
    <3>2. CASE recover_stale_claims(c)
      BY <3>2 DEF recover_stale_claims
    <3>3. CASE RecoverFails(c)
      BY <3>3 DEF RecoverFails, StatementFails
    <3>4. CASE find_due_tasks(c)
      BY <3>4 DEF find_due_tasks
    <3>5. CASE FindFails(c)
      BY <3>5 DEF FindFails, StatementFails
    <3>6. CASE BreakClaiming(c)
      BY <3>6 DEF BreakClaiming
    <3>7. CASE JoinAll(c)
      BY <3>7 DEF JoinAll
    <3>8. ASSUME NEW t \in Tasks, SkipTask(c, t) PROVE TypeOK'
      BY <3>8 DEF SkipTask, Visit
    <3>9. ASSUME NEW t \in Tasks, try_claim(c, t) PROVE TypeOK'
      BY <3>9 DEF try_claim, Visit
    <3>10. ASSUME NEW t \in Tasks, ClaimFails(c, t) PROVE TypeOK'
      BY <3>10 DEF ClaimFails, Visit, StatementFails
    <3>11. QED
      BY <2>1, <3>1, <3>2, <3>3, <3>4, <3>5, <3>6, <3>7, <3>8, <3>9, <3>10
         DEF PollStep
  <2>2. ASSUME NEW c \in Controllers, HeartbeatStep(c) PROVE TypeOK'
    <3>1. CASE BeatSnapshot(c)
      BY <3>1 DEF BeatSnapshot, live_tasks
    <3>2. CASE refresh_claims(c)
      BY <3>2 DEF refresh_claims
    <3>3. CASE BeatFails(c)
      BY <3>3 DEF BeatFails
    <3>4. QED
      BY <2>2, <3>1, <3>2, <3>3 DEF HeartbeatStep
  <2>3. ASSUME NEW c \in Controllers, StopStep(c) PROVE TypeOK'
    <3>1. CASE StopAndReleaseAll(c)
      BY <3>1 DEF StopAndReleaseAll
    <3>2. CASE ReleaseAllFails(c)
      BY <3>2 DEF ReleaseAllFails, StatementFails
    <3>3. QED
      BY <2>3, <3>1, <3>2 DEF StopStep
  <2>4. ASSUME NEW c \in Controllers, Fault(c) PROVE TypeOK'
    <3>1. ASSUME NEW m \in {"drain", "abort"}, Cancel(c, m) PROVE TypeOK'
      BY <3>1 DEF Cancel
    <3>2. CASE ForceStop(c)
      BY <3>2 DEF ForceStop, DropRun
    <3>3. CASE Crash(c)
      BY <3>3 DEF Crash, DropRun
    <3>4. QED
      BY <2>4, <3>1, <3>2, <3>3 DEF Fault, Drain, Abort
  <2>5. ASSUME NEW c \in Controllers, Restart(c) PROVE TypeOK'
    BY <2>5 DEF Restart
  <2>6. ASSUME NEW c \in Controllers, NEW t \in Tasks, TaskStep(c, t)
        PROVE TypeOK'
    <3>1. CASE StartTask(c, t)
      BY <3>1 DEF StartTask
    <3>2. CASE FinishTask(c, t)
      BY <3>2 DEF FinishTask
    <3>3. CASE release_claim(c, t)
      <4>1. CASE locked_by[t] = c
        <5>1. PICK n \in compute_next_run_at :
                 next_run_at' = [next_run_at EXCEPT ![t] = n]
          BY <3>3, <4>1 DEF release_claim
        <5>2. n \in 0 .. Interval + Jitter
          BY DEF compute_next_run_at
        <5>3. /\ locked_by' = [locked_by EXCEPT ![t] = None]
              /\ locked_at' = [locked_at EXCEPT ![t] = 0]
              /\ exec' = [exec EXCEPT ![c][t] = "none"]
          BY <3>3, <4>1 DEF release_claim
        <5>4. UNCHANGED <<enabled, mode, pc, due_tasks, pulse,
                          stops, errors, edits>>
          BY <3>3 DEF release_claim
        <5>5. QED
          BY <5>1, <5>2, <5>3, <5>4
      <4>2. CASE locked_by[t] # c
        BY <3>3, <4>2 DEF release_claim
      <4>3. QED
        BY <4>1, <4>2
    <3>4. CASE ReleaseFails(c, t)
      BY <3>4 DEF ReleaseFails, StatementFails
    <3>5. QED
      BY <2>6, <3>1, <3>2, <3>3, <3>4 DEF TaskStep
  <2>7. ASSUME NEW t \in Tasks, ApiStep(t) PROVE TypeOK'
    <3>1. CASE trigger_scheduled_task(t)
      BY <3>1 DEF trigger_scheduled_task
    <3>2. CASE UpdateSchedule(t)
      BY <3>2 DEF UpdateSchedule, compute_next_run_at
    <3>3. CASE ToggleEnabled(t)
      BY <3>3 DEF ToggleEnabled
    <3>4. QED
      BY <2>7, <3>1, <3>2, <3>3 DEF ApiStep
  <2>8. CASE Tick
    BY <2>8 DEF Tick, Settled
  <2>9. CASE UNCHANGED vars
    BY <2>9 DEF vars
  <2>10. QED
    BY <2>1, <2>2, <2>3, <2>4, <2>5, <2>6, <2>7, <2>8, <2>9 DEF Next
<1>3. QED
  BY <1>1, <1>2, PTL DEF Spec

-----------------------------------------------------------------------------

\* What the timing assumption gives: the age bound of LeaseInv stays below the
\* threshold of recover_stale_claims, and a failed beat keeps the bound.
LEMMA AgeBound ==
    ASSUME NEW l \in 0 .. MaxLost
    PROVE  /\ l * Beat \in Nat
           /\ l * Beat + Beat <= Stale
           /\ (l + 1) * Beat = l * Beat + Beat
<1> USE NumbersAssumption
<1>1. l * Beat \in Nat /\ (l + 1) * Beat = l * Beat + Beat
  OBVIOUS
<1>2. (l + 1) * Beat <= (MaxLost + 1) * Beat
  OBVIOUS
<1>3. QED
  BY <1>1, <1>2, LeaseAssumption

\* LeaseInv is inductive relative to the types.
LEMMA LeaseStep == TypeOK /\ LeaseInv /\ [Next]_vars => LeaseInv'
<1> SUFFICES ASSUME TypeOK, LeaseInv, [Next]_vars,
                    NEW d \in Controllers, NEW s \in Tasks
             PROVE  LeaseOf(d, s)'
  BY DEF LeaseInv
<1> USE SetsAssumption, NumbersAssumption DEF TypeOK, Modes, ExecStates, Running, Stopping
<1> USE DEF LeaseOf
<1>0. LeaseOf(d, s)
  BY DEF LeaseInv
<1>1. ASSUME NEW c \in Controllers, PollStep(c) PROVE LeaseOf(d, s)'
  <2>1. CASE PollTick(c)
    BY <1>0, <2>1 DEF PollTick
  <2>2. CASE recover_stale_claims(c)
    <3>1. mode[d] = "up" /\ exec[d][s] # "none" => ~IsStale(s)
      <4>1. lost[d] \in 0 .. MaxLost /\ beat[d] \in 0 .. Beat /\ locked_at[s] \in Nat
        OBVIOUS
      <4>2. lost[d] * Beat \in Nat /\ lost[d] * Beat + Beat <= Stale
        BY <4>1, AgeBound
      <4>3. QED
        BY <1>0, <4>1, <4>2 DEF IsStale
    <3>2. QED
      BY <1>0, <2>2, <3>1 DEF recover_stale_claims
  <2>3. CASE RecoverFails(c) \/ FindFails(c) \/ BreakClaiming(c) \/ find_due_tasks(c)
    BY <1>0, <2>3 DEF RecoverFails, FindFails, BreakClaiming, find_due_tasks
  <2>4. CASE JoinAll(c)
    BY <1>0, <2>4 DEF JoinAll, InFlight
  <2>5. ASSUME NEW t \in Tasks, SkipTask(c, t) \/ ClaimFails(c, t)
        PROVE  LeaseOf(d, s)'
    BY <1>0, <2>5 DEF SkipTask, ClaimFails, Visit
  <2>6. ASSUME NEW t \in Tasks, try_claim(c, t) PROVE LeaseOf(d, s)'
    <3>1. lost[d] * Beat \in Nat /\ beat[d] \in Nat
      BY AgeBound
    <3>2. CASE s = t
      <4>1. CASE d = c
        BY <2>6, <3>1, <3>2, <4>1 DEF try_claim, Visit
      <4>2. CASE d # c
        BY <1>0, <2>6, <3>2, <4>2 DEF try_claim, Visit
      <4>3. QED
        BY <4>1, <4>2
    <3>3. CASE s # t
      BY <1>0, <2>6, <3>3 DEF try_claim, Visit
    <3>4. QED
      BY <3>2, <3>3
  <2>7. QED
    BY <1>1, <2>1, <2>2, <2>3, <2>4, <2>5, <2>6 DEF PollStep
<1>2. ASSUME NEW c \in Controllers, HeartbeatStep(c) PROVE LeaseOf(d, s)'
  <2>1. CASE BeatSnapshot(c)
    BY <1>0, <2>1 DEF BeatSnapshot, live_tasks
  <2>2. CASE refresh_claims(c)
    BY <1>0, <2>2 DEF refresh_claims
  <2>3. CASE BeatFails(c)
    BY <1>0, <2>3, AgeBound DEF BeatFails
  <2>4. QED
    BY <1>2, <2>1, <2>2, <2>3 DEF HeartbeatStep
<1>3. ASSUME NEW c \in Controllers, StopStep(c) PROVE LeaseOf(d, s)'
  BY <1>0, <1>3 DEF StopStep, StopAndReleaseAll, ReleaseAllFails
<1>4. ASSUME NEW c \in Controllers, Fault(c) PROVE LeaseOf(d, s)'
  <2>1. ASSUME NEW m \in {"drain", "abort"}, Cancel(c, m) PROVE LeaseOf(d, s)'
    BY <1>0, <2>1 DEF Cancel
  <2>2. CASE ForceStop(c)
    <3>1. CASE d = c
      BY <2>2, <3>1 DEF ForceStop, DropRun
    <3>2. CASE d # c
      BY <1>0, <2>2, <3>2 DEF ForceStop, DropRun
    <3>3. QED
      BY <3>1, <3>2
  <2>3. CASE Crash(c)
    <3>1. CASE d = c
      BY <2>3, <3>1 DEF Crash, DropRun
    <3>2. CASE d # c
      BY <1>0, <2>3, <3>2 DEF Crash, DropRun
    <3>3. QED
      BY <3>1, <3>2
  <2>4. QED
    BY <1>4, <2>1, <2>2, <2>3 DEF Fault, Drain, Abort
<1>5. ASSUME NEW c \in Controllers, Restart(c) PROVE LeaseOf(d, s)'
  BY <1>0, <1>5 DEF Restart
<1>6. ASSUME NEW c \in Controllers, NEW t \in Tasks, TaskStep(c, t)
      PROVE  LeaseOf(d, s)'
  <2>1. CASE StartTask(c, t)
    BY <1>0, <2>1 DEF StartTask
  <2>2. CASE FinishTask(c, t)
    BY <1>0, <2>2 DEF FinishTask
  <2>3. CASE ReleaseFails(c, t)
    BY <1>0, <2>3 DEF ReleaseFails
  <2>4. CASE release_claim(c, t)
    <3>1. CASE locked_by[t] = c
      BY <1>0, <2>4, <3>1 DEF release_claim
    <3>2. CASE locked_by[t] # c
      BY <1>0, <2>4, <3>2 DEF release_claim
    <3>3. QED
      BY <3>1, <3>2
  <2>5. QED
    BY <1>6, <2>1, <2>2, <2>3, <2>4 DEF TaskStep
<1>7. ASSUME NEW t \in Tasks, ApiStep(t) PROVE LeaseOf(d, s)'
  BY <1>0, <1>7 DEF ApiStep, trigger_scheduled_task, UpdateSchedule, ToggleEnabled
<1>8. CASE Tick
  BY <1>0, <1>8, AgeBound DEF Tick, Settled
<1>9. CASE UNCHANGED vars
  BY <1>0, <1>9 DEF vars
<1>10. QED
  BY <1>1, <1>2, <1>3, <1>4, <1>5, <1>6, <1>7, <1>8, <1>9 DEF Next

\* The lease invariant holds in every reachable state.
THEOREM LeaseHolds == Spec => []LeaseInv
<1>1. Init => LeaseInv
  BY DEF Init, LeaseInv, LeaseOf
<1>2. QED
  BY <1>1, LeaseStep, TypeCorrect, PTL DEF Spec

\* An instance that heartbeats keeps the claims of what it executes, as long as
\* no more than MaxLost of its beats fail in a row.
THEOREM LeaseSafety == Spec => []HeartbeatKeepsClaim
<1>1. LeaseInv => HeartbeatKeepsClaim
  BY DEF LeaseInv, LeaseOf, HeartbeatKeepsClaim
<1>2. QED
  BY <1>1, LeaseHolds, PTL

\* Two instances that heartbeat never execute the same task.
ExclusiveExecution ==
    \A c, d \in Controllers, t \in Tasks :
        /\ mode[c] = "up" /\ exec[c][t] # "none"
        /\ mode[d] = "up" /\ exec[d][t] # "none"
        => c = d

\* Mutual exclusion of executions follows from the lease.
THEOREM MutualExclusion == Spec => []ExclusiveExecution
<1>1. HeartbeatKeepsClaim => ExclusiveExecution
  BY DEF HeartbeatKeepsClaim, ExclusiveExecution
<1>2. QED
  BY <1>1, LeaseSafety, PTL

-----------------------------------------------------------------------------

\* The variables of the abstract lease, as the refinement mapping gives them.
Work == [c \in Controllers |-> {t \in Tasks : exec[c][t] # "none"}]
Keeping == {c \in Controllers : mode[c] = "up"}

\* What a step of one execution does to the work of its instance.
LEMMA WorkOfOne ==
    ASSUME TypeOK, NEW c \in Controllers, NEW t \in Tasks, NEW x \in ExecStates,
           exec' = [exec EXCEPT ![c][t] = x]
    PROVE  Work' = [Work EXCEPT ![c] = IF x = "none" THEN @ \ {t} ELSE @ \cup {t}]
<1> DEFINE W(d) == {s \in Tasks : exec[d][s] # "none"}
           V(d) == {s \in Tasks : exec'[d][s] # "none"}
<1>1. \A d \in Controllers, s \in Tasks :
         exec'[d][s] = IF d = c /\ s = t THEN x ELSE exec[d][s]
  BY DEF TypeOK
<1>2. \A d \in Controllers : d # c => V(d) = W(d)
  BY <1>1
<1>3. V(c) = IF x = "none" THEN W(c) \ {t} ELSE W(c) \cup {t}
  BY <1>1
<1>4. Work = [d \in Controllers |-> W(d)] /\ Work' = [d \in Controllers |-> V(d)]
  BY DEF Work
<1> HIDE DEF W, V
<1>5. QED
  BY <1>2, <1>3, <1>4

\* Dropping the join set of an instance drops its work.
LEMMA WorkDropped ==
    ASSUME TypeOK, NEW c \in Controllers,
           exec' = [exec EXCEPT ![c] = [t \in Tasks |-> "none"]]
    PROVE  Work' = [Work EXCEPT ![c] = {}]
<1> DEFINE W(d) == {s \in Tasks : exec[d][s] # "none"}
           V(d) == {s \in Tasks : exec'[d][s] # "none"}
<1>1. \A d \in Controllers : d # c => V(d) = W(d)
  BY DEF TypeOK
<1>2. V(c) = {}
  BY DEF TypeOK
<1>3. Work = [d \in Controllers |-> W(d)] /\ Work' = [d \in Controllers |-> V(d)]
  BY DEF Work
<1> HIDE DEF W, V
<1>4. QED
  BY <1>1, <1>2, <1>3

\* Each step of the scheduler is a step of the abstract lease or leaves it alone.
LEMMA LeaseRefined == TypeOK /\ LeaseInv /\ [Next]_vars => [Lease!Next]_(Lease!vars)
<1> SUFFICES ASSUME TypeOK, LeaseInv, [Next]_vars
             PROVE  Lease!Next \/ UNCHANGED <<locked_by, Work, Keeping>>
  BY DEF Lease!vars, Work, Keeping
<1> DEFINE Goal == Lease!Next \/ UNCHANGED <<locked_by, Work, Keeping>>
<1> USE SetsAssumption, NumbersAssumption DEF TypeOK, Modes, ExecStates
<1>a. ASSUME UNCHANGED <<locked_by, exec, mode>> PROVE Goal
  BY <1>a DEF Work, Keeping
<1>b. ASSUME NEW c \in Controllers, Lease!Leave(c) PROVE Goal
  BY <1>b DEF Lease!Next
<1>c. ASSUME NEW S \in SUBSET Tasks, \A t \in S : ~Lease!Kept(t),
             locked_by' = [t \in Tasks |-> IF t \in S THEN None ELSE locked_by[t]],
             UNCHANGED <<Work, Keeping>>
      PROVE  Goal
  BY <1>c DEF Lease!Next, Lease!Expire, Work, Keeping
<1> SUFFICES Goal
  OBVIOUS
<1> HIDE DEF Goal
<1>1. ASSUME NEW c \in Controllers, PollStep(c) PROVE Goal
  <2>1. CASE recover_stale_claims(c)
    <3> DEFINE S == {t \in Tasks : IsStale(t)}
    <3>1. ASSUME NEW t \in S PROVE ~Lease!Kept(t)
      <4> SUFFICES ASSUME NEW d \in Controllers, mode[d] = "up", exec[d][t] # "none"
                   PROVE  FALSE
        BY DEF Lease!Kept
      <4>1. lost[d] \in 0 .. MaxLost /\ beat[d] \in 0 .. Beat /\ locked_at[t] \in Nat
        OBVIOUS
      <4>2. lost[d] * Beat \in Nat /\ lost[d] * Beat + Beat <= Stale
        BY <4>1, AgeBound
      <4>3. locked_at[t] <= lost[d] * Beat + beat[d]
        BY DEF LeaseInv, LeaseOf
      <4>4. QED
        BY <4>1, <4>2, <4>3 DEF IsStale
    <3>2. locked_by' = [t \in Tasks |-> IF t \in S THEN None ELSE locked_by[t]]
      BY <2>1 DEF recover_stale_claims
    <3>3. UNCHANGED <<Work, Keeping>>
      BY <2>1 DEF recover_stale_claims, Work, Keeping
    <3>4. QED
      BY <1>c, <3>1, <3>2, <3>3
  <2>2. ASSUME NEW t \in Tasks, try_claim(c, t) PROVE Goal
    <3>1. locked_by[t] = None /\ mode[c] = "up"
      BY <2>2 DEF try_claim, Visit
    <3>2. exec[c][t] = "none"
      BY <3>1 DEF LeaseInv, LeaseOf
    <3>3. Work' = [Work EXCEPT ![c] = @ \cup {t}]
      BY <2>2, WorkOfOne DEF try_claim
    <3>4. Lease!Acquire(c, t)
      BY <2>2, <3>1, <3>2, <3>3 DEF try_claim, Lease!Acquire, Work
    <3>5. QED
      BY <3>4 DEF Lease!Next, Goal
  <2>3. CASE \/ PollTick(c) \/ RecoverFails(c) \/ find_due_tasks(c) \/ FindFails(c)
             \/ BreakClaiming(c) \/ JoinAll(c)
    BY <1>a, <2>3 DEF PollTick, RecoverFails, find_due_tasks, FindFails,
                      BreakClaiming, JoinAll
  <2>4. ASSUME NEW t \in Tasks, SkipTask(c, t) \/ ClaimFails(c, t) PROVE Goal
    BY <1>a, <2>4 DEF SkipTask, ClaimFails
  <2>5. QED
    BY <1>1, <2>1, <2>2, <2>3, <2>4 DEF PollStep
<1>2. ASSUME NEW c \in Controllers, HeartbeatStep(c) PROVE Goal
  BY <1>a, <1>2 DEF HeartbeatStep, BeatSnapshot, refresh_claims, BeatFails
<1>3. ASSUME NEW c \in Controllers, StopStep(c) PROVE Goal
  <2>1. CASE StopAndReleaseAll(c)
    <3> DEFINE S == {t \in Tasks : locked_by[t] = c}
    <3>1. mode[c] # "up"
      BY <2>1 DEF StopAndReleaseAll, Stopping
    <3>2. \A t \in S : ~Lease!Kept(t)
      BY <3>1 DEF Lease!Kept
    <3>3. locked_by' = [t \in Tasks |-> IF t \in S THEN None ELSE locked_by[t]]
      BY <2>1 DEF StopAndReleaseAll
    <3>4. UNCHANGED <<Work, Keeping>>
      BY <2>1, <3>1 DEF StopAndReleaseAll, Work, Keeping
    <3>5. QED
      BY <1>c, <3>2, <3>3, <3>4
  <2>2. CASE ReleaseAllFails(c)
    BY <2>2 DEF ReleaseAllFails, Stopping, Work, Keeping, Goal
  <2>3. QED
    BY <1>3, <2>1, <2>2 DEF StopStep
<1>4. ASSUME NEW c \in Controllers, Fault(c) PROVE Goal
  <2>1. ASSUME NEW m \in {"drain", "abort"}, Cancel(c, m) PROVE Goal
    <3>1. Keeping' = Keeping \ {c} /\ Work' = Work /\ locked_by' = locked_by
      BY <2>1 DEF Cancel, Keeping, Work
    <3>2. QED
      BY <1>b, <3>1 DEF Lease!Leave, Keeping, Work
  <2>2. CASE ForceStop(c) \/ Crash(c)
    <3>1. Keeping' = Keeping \ {c} /\ locked_by' = locked_by
      BY <2>2 DEF ForceStop, Crash, Stopping, Running, DropRun, Keeping
    <3>2. Work' = [Work EXCEPT ![c] = {}]
      BY <2>2, WorkDropped DEF ForceStop, Crash, DropRun
    <3>3. QED
      BY <1>b, <3>1, <3>2 DEF Lease!Leave, Keeping, Work
  <2>3. QED
    BY <1>4, <2>1, <2>2 DEF Fault, Drain, Abort
<1>5. ASSUME NEW c \in Controllers, Restart(c) PROVE Goal
  <2>1. Work[c] = {}
    BY <1>5 DEF Restart, LeaseInv, LeaseOf, Work
  <2>2. Keeping' = Keeping \cup {c} /\ Work' = Work /\ locked_by' = locked_by
    BY <1>5 DEF Restart, Keeping, Work
  <2>3. Lease!Join(c)
    BY <2>1, <2>2 DEF Lease!Join, Keeping, Work
  <2>4. QED
    BY <2>3 DEF Lease!Next, Goal
<1>6. ASSUME NEW c \in Controllers, NEW t \in Tasks, TaskStep(c, t) PROVE Goal
  <2>1. CASE StartTask(c, t) \/ FinishTask(c, t)
    <3>1. t \in Work[c] /\ Work' = [Work EXCEPT ![c] = @ \cup {t}]
      BY <2>1, WorkOfOne DEF StartTask, FinishTask, Work
    <3>2. Work' = Work
      <4>1. Work[c] \cup {t} = Work[c]
        BY <3>1
      <4>2. Work = [d \in Controllers |-> Work[d]]
        BY DEF Work
      <4>3. QED
        BY <3>1, <4>1, <4>2
    <3>3. UNCHANGED <<locked_by, Keeping>>
      BY <2>1 DEF StartTask, FinishTask, Keeping
    <3>4. QED
      BY <3>2, <3>3 DEF Goal
  <2>2. CASE release_claim(c, t) \/ ReleaseFails(c, t)
    <3>1. t \in Work[c] /\ Work' = [Work EXCEPT ![c] = @ \ {t}]
      BY <2>2, WorkOfOne DEF release_claim, ReleaseFails, Work
    <3>2. \/ locked_by[t] = c /\ locked_by' = [locked_by EXCEPT ![t] = None]
          \/ UNCHANGED locked_by
      BY <2>2 DEF release_claim, ReleaseFails
    <3>3. UNCHANGED Keeping
      BY <2>2 DEF release_claim, ReleaseFails, Keeping
    <3>4. Lease!Finish(c, t)
      BY <3>1, <3>2, <3>3 DEF Lease!Finish, Work, Keeping
    <3>5. QED
      BY <3>4 DEF Lease!Next, Goal
  <2>3. QED
    BY <1>6, <2>1, <2>2 DEF TaskStep
<1>7. ASSUME NEW t \in Tasks, ApiStep(t) PROVE Goal
  BY <1>a, <1>7 DEF ApiStep, trigger_scheduled_task, UpdateSchedule, ToggleEnabled
<1>8. CASE Tick
  BY <1>a, <1>8 DEF Tick
<1>9. CASE UNCHANGED vars
  BY <1>a, <1>9 DEF vars
<1>10. QED
  BY <1>1, <1>2, <1>3, <1>4, <1>5, <1>6, <1>7, <1>8, <1>9 DEF Next, Goal

\* The scheduler, with its table, clocks, heartbeats, faults and failed
\* statements, implements the abstract lease.
THEOREM SchedulerImplementsLease == Spec => ImplementsLease
<1>1. Init => Lease!Init
  BY DEF Init, Lease!Init
<1>2. QED
  BY <1>1, LeaseRefined, TypeCorrect, LeaseHolds, PTL DEF Spec, Lease!Spec, ImplementsLease

-----------------------------------------------------------------------------

\* A step that gives d no claim on s and ends no execution of s at d.
LEMMA NoNewOrphan ==
    ASSUME NEW d \in Controllers, NEW s \in Tasks,
           locked_by'[s] = d => locked_by[s] = d,
           exec'[d][s] = "none" => exec[d][s] = "none"
    PROVE  Orphan(d, s)' => Orphan(d, s)
BY DEF Orphan

\* Which steps leave a claim behind without an execution.
LEMMA OrphanStep ==
    ASSUME TypeOK, [Next]_vars, NEW d \in Controllers, NEW s \in Tasks,
           Orphan(d, s)', ~Orphan(d, s)
    PROVE  Crash(d) \/ ForceStop(d) \/ ReleaseFails(d, s)
<1> USE SetsAssumption
<1>1. /\ locked_by \in [Tasks -> Controllers \cup {None}]
      /\ exec \in [Controllers -> [Tasks -> ExecStates]]
  BY DEF TypeOK
<1>2. CASE UNCHANGED <<locked_by, exec>>
  BY <1>2, NoNewOrphan
<1>3. ASSUME NEW t \in Tasks, NEW c \in Controllers, NEW e \in ExecStates,
             exec' = [exec EXCEPT ![c][t] = e]
      PROVE  exec'[d][s] = IF c = d /\ t = s THEN e ELSE exec[d][s]
  BY <1>1, <1>3
<1>4. ASSUME NEW c \in Controllers, PollStep(c) PROVE FALSE
  <2>1. CASE recover_stale_claims(c)
    <3>1. locked_by'[s] = d => locked_by[s] = d
      BY <2>1 DEF recover_stale_claims
    <3>2. UNCHANGED exec
      BY <2>1 DEF recover_stale_claims
    <3>3. QED
      BY <3>1, <3>2, NoNewOrphan
  <2>2. ASSUME NEW t \in Tasks, try_claim(c, t) PROVE FALSE
    <3>1. locked_by' = [locked_by EXCEPT ![t] = c] /\ exec' = [exec EXCEPT ![c][t] = "claimed"]
      BY <2>2 DEF try_claim
    <3>2. exec'[d][s] = IF c = d /\ t = s THEN "claimed" ELSE exec[d][s]
      BY <1>3, <3>1 DEF ExecStates
    <3>3. locked_by'[s] = IF t = s THEN c ELSE locked_by[s]
      BY <1>1, <3>1
    <3>4. QED
      BY <3>2, <3>3 DEF Orphan
  <2>3. CASE /\ ~recover_stale_claims(c)
             /\ \A t \in Tasks : ~try_claim(c, t)
    <3>1. UNCHANGED <<locked_by, exec>>
      BY <1>4, <2>3 DEF PollStep, PollTick, RecoverFails, find_due_tasks, FindFails,
                        BreakClaiming, JoinAll, SkipTask, ClaimFails
    <3>2. QED
      BY <3>1, NoNewOrphan
  <2>4. QED
    BY <2>1, <2>2, <2>3
<1>5. ASSUME NEW c \in Controllers, StopAndReleaseAll(c) PROVE FALSE
  <2>1. UNCHANGED exec /\ (locked_by'[s] = d => locked_by[s] = d)
    BY <1>5 DEF StopAndReleaseAll
  <2>2. QED
    BY <2>1, NoNewOrphan
<1>6. ASSUME NEW c \in Controllers, ForceStop(c) \/ Crash(c) PROVE ForceStop(d) \/ Crash(d)
  <2>1. UNCHANGED locked_by /\ exec' = [exec EXCEPT ![c] = [t \in Tasks |-> "none"]]
    BY <1>6 DEF ForceStop, Crash, DropRun
  <2>2. CASE c # d
    <3>1. exec'[d] = exec[d]
      BY <1>1, <2>1, <2>2
    <3>2. QED
      BY <2>1, <3>1, NoNewOrphan
  <2>3. QED
    BY <1>6, <2>2
<1>7. ASSUME NEW c \in Controllers, NEW t \in Tasks, TaskStep(c, t) PROVE ReleaseFails(d, s)
  <2>1. CASE ReleaseFails(c, t)
    <3>1. UNCHANGED locked_by /\ exec' = [exec EXCEPT ![c][t] = "none"]
      BY <2>1 DEF ReleaseFails
    <3>2. CASE ~(c = d /\ t = s)
      BY <1>3, <3>1, <3>2, NoNewOrphan DEF ExecStates
    <3>3. QED
      BY <2>1, <3>2
  <2>2. CASE release_claim(c, t)
    <3>1. /\ exec' = [exec EXCEPT ![c][t] = "none"]
          /\ \/ locked_by[t] = c /\ locked_by' = [locked_by EXCEPT ![t] = None]
             \/ locked_by[t] # c /\ UNCHANGED locked_by
      BY <2>2 DEF release_claim
    <3>2. exec'[d][s] = IF c = d /\ t = s THEN "none" ELSE exec[d][s]
      BY <1>3, <3>1 DEF ExecStates
    <3>3. \/ locked_by[t] = c /\ locked_by'[s] = IF t = s THEN None ELSE locked_by[s]
          \/ locked_by[t] # c /\ locked_by'[s] = locked_by[s]
      BY <1>1, <3>1
    <3>4. QED
      BY <3>2, <3>3 DEF Orphan
  <2>3. CASE StartTask(c, t) \/ FinishTask(c, t)
    <3>1. PICK e \in {"live", "done"} : exec' = [exec EXCEPT ![c][t] = e] /\ UNCHANGED locked_by
      BY <2>3 DEF StartTask, FinishTask
    <3>2. exec'[d][s] = IF c = d /\ t = s THEN e ELSE exec[d][s]
      BY <1>3, <3>1 DEF ExecStates
    <3>3. QED
      BY <3>1, <3>2, NoNewOrphan
  <2>4. QED
    BY <1>7, <2>1, <2>2, <2>3 DEF TaskStep
<1>8. ASSUME NEW c \in Controllers,
             HeartbeatStep(c) \/ ReleaseAllFails(c) \/ Drain(c) \/ Abort(c) \/ Restart(c)
      PROVE  UNCHANGED <<locked_by, exec>>
  BY <1>8 DEF HeartbeatStep, BeatSnapshot, refresh_claims, BeatFails, ReleaseAllFails,
              Drain, Abort, Cancel, Restart
<1>9. (\E t \in Tasks : ApiStep(t)) \/ Tick \/ UNCHANGED vars => UNCHANGED <<locked_by, exec>>
  BY DEF ApiStep, trigger_scheduled_task, UpdateSchedule, ToggleEnabled, Tick, vars
<1>10. QED
  BY <1>2, <1>4, <1>5, <1>6, <1>7, <1>8, <1>9 DEF Next, StopStep, Fault

\* A claim stays in the table without an execution only after a crash, a forced
\* stop or a release that the database refused: poll_cycle, the stop of run()
\* and the recovery of other instances' claims leave none behind.
THEOREM OnlyFaultsLeaveClaims == Spec => ClaimsAreReturned
<1> DEFINE Returned ==
      \A c \in Controllers, t \in Tasks :
          Orphan(c, t)' /\ ~Orphan(c, t) =>
              Crash(c) \/ ForceStop(c) \/ ReleaseFails(c, t)
<1>1. TypeOK /\ [Next]_vars => Returned
  BY OrphanStep
<1> HIDE DEF Returned
<1>2. Spec => [][Returned]_vars
  BY <1>1, TypeCorrect, PTL DEF Spec
<1>3. QED
  BY <1>2 DEF ClaimsAreReturned, Returned
=============================================================================
