------------------------------- MODULE Scheduler -------------------------------
(***************************************************************************)
(* The database-backed scheduler (crates/core/scheduler-runtime): several   *)
(* instances, embedded in controllers or standalone, share the table       *)
(* scheduled_tasks and use the columns locked_by / locked_at as a lease    *)
(* kept alive by a heartbeat.                                              *)
(*                                                                         *)
(* Time is relative: locked_at[t] is the age of the claim on t (now -      *)
(* locked_at, saturating just above Stale) and next_run_at[t] the time     *)
(* left until t is due.  One Tick is one unit of time.  A database         *)
(* statement and the start of a spawned future take less than one unit,    *)
(* or fail: Tick waits for them.                                           *)
(***************************************************************************)
EXTENDS Integers, FiniteSets

CONSTANTS
    Controllers,   \* ids of the scheduler instances
    External,      \* those of them that are standalone uptrakit-scheduler services
    Tasks,         \* rows of scheduled_tasks
    Internal,      \* the tasks only a controller can execute
    None,          \* SQL NULL
    Stale,         \* STALE_CLAIM_SECONDS
    Beat,          \* HEARTBEAT_INTERVAL
    Interval,      \* interval_seconds
    Jitter,        \* jitter_seconds
    MaxLost,       \* consecutive heartbeats of one instance that may fail
    MaxStops,      \* crashes, aborts and drains in a behaviour
    MaxErrors,     \* failed statements other than heartbeats in a behaviour
    MaxEdits       \* schedule changes through the API in a behaviour

ASSUME SetsAssumption ==
    /\ External \subseteq Controllers
    /\ Internal \subseteq Tasks
    /\ None \notin Controllers

ASSUME NumbersAssumption ==
    /\ Stale \in Nat /\ Beat \in Nat \ {0} /\ MaxLost \in Nat
    /\ Interval \in Nat \ {0} /\ Jitter \in Nat
    /\ MaxStops \in Nat /\ MaxErrors \in Nat /\ MaxEdits \in Nat

\* With the shipped constants (600 s and 60 s) nine failed beats in a row
\* are covered: (9 + 1) * 60 = 600.
ASSUME LeaseAssumption == (MaxLost + 1) * Beat <= Stale

VARIABLES
    locked_by, locked_at, next_run_at, enabled,    \* table scheduled_tasks
    mode,        \* the instance: its shutdown tokens, or whether it runs at all
    pc,          \* where its poll loop is
    due_tasks,   \* the rows find_due_tasks returned and the loop has not visited
    exec,        \* its JoinSet: what became of each task it claimed
    beat,        \* time since its last heartbeat
    snap,        \* live_ids of the heartbeat that is under way, or None
    lost,        \* consecutive heartbeats that failed
    stops, errors, edits                           \* what the bounds count

table == <<locked_by, locked_at, next_run_at, enabled>>
pulse == <<beat, snap, lost>>
vars == <<table, mode, pc, due_tasks, exec, pulse, stops, errors, edits>>

\* "drain" and "abort": that token is cancelled.  "stopped": run() returned or
\* its JoinHandle was aborted.  "crashed": the process is gone.
Modes == {"up", "drain", "abort", "stopped", "crashed"}

\* "claimed": try_claim succeeded, the future is spawned but has not run.
\* "live": in live_tasks, executing.  "done": execution over, release to come.
ExecStates == {"none", "claimed", "live", "done"}

TypeOK ==
    /\ locked_by \in [Tasks -> Controllers \cup {None}]
    /\ locked_at \in [Tasks -> 0 .. Stale + 1]
    /\ next_run_at \in [Tasks -> 0 .. Interval + Jitter]
    /\ enabled \in [Tasks -> BOOLEAN]
    /\ mode \in [Controllers -> Modes]
    /\ pc \in [Controllers -> {"idle", "recover", "find", "claim"}]
    /\ due_tasks \in [Controllers -> SUBSET Tasks]
    /\ exec \in [Controllers -> [Tasks -> ExecStates]]
    /\ beat \in [Controllers -> 0 .. Beat]
    /\ snap \in [Controllers -> (SUBSET Tasks) \cup {None}]
    /\ lost \in [Controllers -> 0 .. MaxLost]
    /\ stops \in 0 .. MaxStops
    /\ errors \in 0 .. MaxErrors
    /\ edits \in 0 .. MaxEdits

\* Migrations seed every row with next_run_at = now.
Init ==
    /\ locked_by = [t \in Tasks |-> None]
    /\ locked_at = [t \in Tasks |-> 0]
    /\ next_run_at = [t \in Tasks |-> 0]
    /\ enabled = [t \in Tasks |-> TRUE]
    /\ mode = [c \in Controllers |-> "up"]
    /\ pc = [c \in Controllers |-> "idle"]
    /\ due_tasks = [c \in Controllers |-> {}]
    /\ exec = [c \in Controllers |-> [t \in Tasks |-> "none"]]
    /\ beat = [c \in Controllers |-> 0]
    /\ snap = [c \in Controllers |-> None]
    /\ lost = [c \in Controllers |-> 0]
    /\ stops = 0
    /\ errors = 0
    /\ edits = 0

-----------------------------------------------------------------------------
(* Reading the state *)

Running(c) == mode[c] \in {"up", "drain", "abort"}
Stopping(c) == mode[c] \in {"drain", "abort"}

\* Ids in the in-process live set: inserted when the spawned future first
\* runs, removed by the guard's Drop after release_claim returned.
live_tasks(c) == {t \in Tasks : exec[c][t] \in {"live", "done"}}

\* Some execution of the current poll cycle is not joined yet.
InFlight(c) == \E t \in Tasks : exec[c][t] # "none"

\* The embedded scheduler defers tasks while a standalone one is connected.
should_yield_external(c) ==
    c \notin External /\ \E x \in External : Running(x)

\* A standalone scheduler registers no executor for internal tasks.
HasExecutor(c, t) == c \in External => t \notin Internal

\* Fault: the jitter range is inclusive one too far.
JitterTooFar == Interval .. Interval + Jitter + 1

\* The values compute_next_run_at may return: now + interval + rand(0..=jitter).
compute_next_run_at == Interval .. Interval + Jitter

\* Fault: the cutoff is compared with <= instead of <.
StaleTooEarly(t) == locked_by[t] # None /\ locked_at[t] >= Stale

\* The predicates of the WHERE clauses of find_due_tasks and of
\* recover_stale_claims.
Due(t) == enabled[t] /\ locked_by[t] = None /\ next_run_at[t] = 0
IsStale(t) == locked_by[t] # None /\ locked_at[t] > Stale

\* Statements may fail; the budget is spent only when they do.
StatementFails == errors < MaxErrors /\ errors' = errors + 1

-----------------------------------------------------------------------------
(* The poll loop of an instance *)

\* interval.tick() wins the biased select only if no token is cancelled.
PollTick(c) ==
    /\ mode[c] = "up" /\ pc[c] = "idle"
    /\ pc' = [pc EXCEPT ![c] = "recover"]
    /\ UNCHANGED <<table, mode, due_tasks, exec, pulse, stops,
                   errors, edits>>

\* Fault: the recovery resets locked_at and forgets locked_by.
RecoverTimeOnly(c) ==
    /\ pc[c] = "recover"
    /\ locked_at' = [t \in Tasks |-> IF IsStale(t) THEN 0 ELSE locked_at[t]]
    /\ pc' = [pc EXCEPT ![c] = "find"]
    /\ UNCHANGED <<locked_by, next_run_at, enabled, mode, due_tasks, exec,
                   pulse, stops, errors, edits>>

\* UPDATE ... SET locked_by = NULL WHERE locked_at < now - STALE: any owner's.
recover_stale_claims(c) ==
    /\ pc[c] = "recover"
    /\ locked_by' = [t \in Tasks |-> IF IsStale(t) THEN None ELSE locked_by[t]]
    /\ locked_at' = [t \in Tasks |-> IF IsStale(t) THEN 0 ELSE locked_at[t]]
    /\ pc' = [pc EXCEPT ![c] = "find"]
    /\ UNCHANGED <<next_run_at, enabled, mode, due_tasks, exec, pulse, stops, errors, edits>>

\* An error is logged and the cycle goes on.
RecoverFails(c) ==
    /\ pc[c] = "recover"
    /\ StatementFails
    /\ pc' = [pc EXCEPT ![c] = "find"]
    /\ UNCHANGED <<table, mode, due_tasks, exec, pulse, stops,
                   edits>>

find_due_tasks(c) ==
    /\ pc[c] = "find"
    /\ due_tasks' = [due_tasks EXCEPT ![c] = {t \in Tasks : Due(t)}]
    /\ pc' = [pc EXCEPT ![c] = "claim"]
    /\ UNCHANGED <<table, mode, exec, pulse, stops, errors,
                   edits>>

\* An error ends the cycle.
FindFails(c) ==
    /\ pc[c] = "find"
    /\ StatementFails
    /\ pc' = [pc EXCEPT ![c] = "idle"]
    /\ UNCHANGED <<table, mode, due_tasks, exec, pulse, stops,
                   edits>>

\* A token is cancelled before the next claim: break out of the loop.
BreakClaiming(c) ==
    /\ pc[c] = "claim" /\ due_tasks[c] # {} /\ Stopping(c)
    /\ due_tasks' = [due_tasks EXCEPT ![c] = {}]
    /\ UNCHANGED <<table, mode, pc, exec, pulse, stops, errors,
                   edits>>

\* Fault: the tokens are checked once per cycle, not before every claim.
VisitWhileStopping(c, t) ==
    /\ pc[c] = "claim" /\ t \in due_tasks[c]
    /\ due_tasks' = [due_tasks EXCEPT ![c] = @ \ {t}]

\* The loop visits t: no token is cancelled.
Visit(c, t) ==
    /\ pc[c] = "claim" /\ t \in due_tasks[c] /\ mode[c] = "up"
    /\ due_tasks' = [due_tasks EXCEPT ![c] = @ \ {t}]

Skips(c, t) ==
    \/ should_yield_external(c) /\ t \notin Internal
    \/ ~HasExecutor(c, t)

\* Deferred, no executor, or another instance holds the claim by now.
SkipTask(c, t) ==
    /\ Visit(c, t)
    /\ Skips(c, t) \/ locked_by[t] # None
    /\ UNCHANGED <<table, mode, pc, exec, pulse, stops, errors,
                   edits>>

\* UPDATE ... WHERE id = t AND locked_by IS NULL affects one row.  Whether t
\* is still enabled and due is not asked again.
try_claim(c, t) ==
    /\ Visit(c, t)
    /\ ~Skips(c, t) /\ locked_by[t] = None
    /\ locked_by' = [locked_by EXCEPT ![t] = c]
    /\ locked_at' = [locked_at EXCEPT ![t] = 0]
    /\ exec' = [exec EXCEPT ![c][t] = "claimed"]
    /\ UNCHANGED <<next_run_at, enabled, mode, pc, pulse, stops,
                   errors, edits>>

ClaimFails(c, t) ==
    /\ Visit(c, t)
    /\ ~Skips(c, t)
    /\ StatementFails
    /\ UNCHANGED <<table, mode, pc, exec, pulse, stops, edits>>

\* The join set is empty and the list exhausted; the tick executors run (they
\* touch no scheduled task) and the loop waits for its next tick.
JoinAll(c) ==
    /\ pc[c] = "claim" /\ due_tasks[c] = {} /\ ~InFlight(c)
    /\ pc' = [pc EXCEPT ![c] = "idle"]
    /\ UNCHANGED <<table, mode, due_tasks, exec, pulse, stops,
                   errors, edits>>

-----------------------------------------------------------------------------
(* The execution of one claimed task *)

\* The spawned future runs for the first time: LiveTaskGuard::insert.
StartTask(c, t) ==
    /\ exec[c][t] = "claimed"
    /\ exec' = [exec EXCEPT ![c][t] = "live"]
    /\ UNCHANGED <<table, mode, pc, due_tasks, pulse, stops,
                   errors, edits>>

\* Fault: the abort branch returns without releasing.
FinishWithoutRelease(c, t) ==
    /\ exec[c][t] = "live"
    /\ exec' = [exec EXCEPT ![c][t] = IF mode[c] = "abort" THEN "none" ELSE "done"]
    /\ UNCHANGED <<table, mode, pc, due_tasks, pulse, stops,
                   errors, edits>>

\* The executor returns, fails or times out; or the abort token is seen.
FinishTask(c, t) ==
    /\ exec[c][t] = "live"
    /\ exec' = [exec EXCEPT ![c][t] = "done"]
    /\ UNCHANGED <<table, mode, pc, due_tasks, pulse, stops,
                   errors, edits>>

\* UPDATE ... WHERE id = t AND locked_by = c; no row matches if the claim was
\* taken over, and the guard is dropped either way.
release_claim(c, t) ==
    /\ exec[c][t] = "done"
    /\ exec' = [exec EXCEPT ![c][t] = "none"]
    /\ \/ /\ locked_by[t] = c
          /\ locked_by' = [locked_by EXCEPT ![t] = None]
          /\ locked_at' = [locked_at EXCEPT ![t] = 0]
          /\ \E n \in compute_next_run_at :
                next_run_at' = [next_run_at EXCEPT ![t] = n]
       \/ /\ locked_by[t] # c
          /\ UNCHANGED <<locked_by, locked_at, next_run_at>>
    /\ UNCHANGED <<enabled, mode, pc, due_tasks, pulse, stops,
                   errors, edits>>

\* An error is logged; the claim stays in the table with nothing behind it.
ReleaseFails(c, t) ==
    /\ exec[c][t] = "done"
    /\ StatementFails
    /\ exec' = [exec EXCEPT ![c][t] = "none"]
    /\ UNCHANGED <<table, mode, pc, due_tasks, pulse, stops,
                   edits>>

-----------------------------------------------------------------------------
(* The heartbeat *)

\* The beat is due: the live set is copied under its mutex.
BeatSnapshot(c) ==
    /\ mode[c] = "up" /\ beat[c] = Beat /\ snap[c] = None
    /\ snap' = [snap EXCEPT ![c] = live_tasks(c)]
    /\ UNCHANGED <<table, mode, pc, due_tasks, exec, beat, lost, stops, errors, edits>>

\* UPDATE ... SET locked_at = now WHERE locked_by = c AND id IN live_ids.
refresh_claims(c) ==
    /\ snap[c] # None
    /\ locked_at' = [t \in Tasks |->
          IF locked_by[t] = c /\ t \in snap[c] THEN 0 ELSE locked_at[t]]
    /\ snap' = [snap EXCEPT ![c] = None]
    /\ beat' = [beat EXCEPT ![c] = 0]
    /\ lost' = [lost EXCEPT ![c] = 0]
    /\ UNCHANGED <<locked_by, next_run_at, enabled, mode, pc, due_tasks,
                   exec, stops, errors, edits>>

\* The write fails: logged, and tried again at the next beat.
BeatFails(c) ==
    /\ snap[c] # None
    /\ lost[c] < MaxLost
    /\ lost' = [lost EXCEPT ![c] = @ + 1]
    /\ snap' = [snap EXCEPT ![c] = None]
    /\ beat' = [beat EXCEPT ![c] = 0]
    /\ UNCHANGED <<table, mode, pc, due_tasks, exec, stops,
                   errors, edits>>

-----------------------------------------------------------------------------
(* Shutdown, crash and restart *)

\* The run() future is dropped, and with it the join set.
DropRun(c) ==
    /\ pc' = [pc EXCEPT ![c] = "idle"]
    /\ due_tasks' = [due_tasks EXCEPT ![c] = {}]
    /\ exec' = [exec EXCEPT ![c] = [t \in Tasks |-> "none"]]

\* A token is cancelled: the heartbeat loop takes no further beat (one under
\* way completes); the poll loop notices where it checks.
Cancel(c, m) ==
    /\ stops < MaxStops /\ stops' = stops + 1
    /\ mode' = [mode EXCEPT ![c] = m]
    /\ UNCHANGED <<table, pc, due_tasks, exec, pulse, errors,
                   edits>>

Drain(c) == mode[c] = "up" /\ Cancel(c, "drain")
Abort(c) == mode[c] \in {"up", "drain"} /\ Cancel(c, "abort")

\* Back at the select with a token cancelled: release_all_claims, then return.
StopAndReleaseAll(c) ==
    /\ Stopping(c) /\ pc[c] = "idle"
    /\ locked_by' = [t \in Tasks |-> IF locked_by[t] = c THEN None ELSE locked_by[t]]
    /\ locked_at' = [t \in Tasks |-> IF locked_by[t] = c THEN 0 ELSE locked_at[t]]
    /\ mode' = [mode EXCEPT ![c] = "stopped"]
    /\ UNCHANGED <<next_run_at, enabled, pc, due_tasks, exec, pulse, stops, errors, edits>>

ReleaseAllFails(c) ==
    /\ Stopping(c) /\ pc[c] = "idle"
    /\ StatementFails
    /\ mode' = [mode EXCEPT ![c] = "stopped"]
    /\ UNCHANGED <<table, pc, due_tasks, exec, pulse, stops,
                   edits>>

\* STOP_SCHEDULER_TIMEOUT passed: the JoinHandle is aborted, which drops the
\* executions before any of them could release.  The heartbeat is a task of its
\* own: a beat that is under way completes.  An aborted execution returns at
\* once, so after an abort the timeout can only meet a release that hangs.
ForceStop(c) ==
    /\ c \in External /\ Stopping(c) /\ pc[c] # "idle"
    /\ \A t \in Tasks :
          /\ exec[c][t] # "claimed"
          /\ exec[c][t] = "live" => mode[c] = "drain"
    /\ mode' = [mode EXCEPT ![c] = "stopped"]
    /\ DropRun(c)
    /\ UNCHANGED <<table, pulse, stops, errors, edits>>

Crash(c) ==
    /\ Running(c)
    /\ stops < MaxStops /\ stops' = stops + 1
    /\ mode' = [mode EXCEPT ![c] = "crashed"]
    /\ DropRun(c)
    /\ beat' = [beat EXCEPT ![c] = 0]
    /\ snap' = [snap EXCEPT ![c] = None]
    /\ lost' = [lost EXCEPT ![c] = 0]
    /\ UNCHANGED <<table, errors, edits>>

\* The same id comes back with an empty live set and a new heartbeat loop.
Restart(c) ==
    /\ ~Running(c) /\ snap[c] = None
    /\ mode' = [mode EXCEPT ![c] = "up"]
    /\ beat' = [beat EXCEPT ![c] = 0]
    /\ lost' = [lost EXCEPT ![c] = 0]
    /\ UNCHANGED <<table, pc, due_tasks, exec, snap, stops,
                   errors, edits>>

-----------------------------------------------------------------------------
(* The REST API, and time *)

\* The manual trigger: next_run_at = now, claimed or not.
trigger_scheduled_task(t) ==
    /\ next_run_at' = [next_run_at EXCEPT ![t] = 0]
    /\ UNCHANGED <<locked_by, locked_at, enabled, mode, pc, due_tasks,
                   exec, pulse, stops, errors, edits>>

\* A PATCH that changes the schedule recomputes next_run_at; one that only
\* flips enabled does not.
UpdateSchedule(t) ==
    /\ edits < MaxEdits /\ edits' = edits + 1
    /\ \E n \in compute_next_run_at :
          next_run_at' = [next_run_at EXCEPT ![t] = n]
    /\ UNCHANGED <<locked_by, locked_at, enabled, mode, pc, due_tasks,
                   exec, pulse, stops, errors>>

ToggleEnabled(t) ==
    /\ enabled' = [enabled EXCEPT ![t] = ~@]
    /\ UNCHANGED <<locked_by, locked_at, next_run_at, mode, pc,
                   due_tasks, exec, pulse, stops, errors, edits>>

\* A beat that is due, a beat under way and a future that was just spawned
\* come before the next unit of time.
Settled(c) ==
    /\ mode[c] = "up" => beat[c] < Beat
    /\ snap[c] = None
    /\ \A t \in Tasks : exec[c][t] # "claimed"

Tick ==
    /\ \A c \in Controllers : Settled(c)
    /\ locked_at' = [t \in Tasks |->
          IF locked_by[t] # None /\ locked_at[t] <= Stale
          THEN locked_at[t] + 1 ELSE locked_at[t]]
    /\ next_run_at' = [t \in Tasks |->
          IF next_run_at[t] > 0 THEN next_run_at[t] - 1 ELSE 0]
    /\ beat' = [c \in Controllers |->
          IF mode[c] = "up" THEN beat[c] + 1 ELSE beat[c]]
    /\ UNCHANGED <<locked_by, enabled, mode, pc, due_tasks, exec, snap,
                   lost, stops, errors, edits>>

-----------------------------------------------------------------------------

PollStep(c) ==
    \/ PollTick(c)
    \/ recover_stale_claims(c) \/ RecoverFails(c)
    \/ find_due_tasks(c) \/ FindFails(c)
    \/ BreakClaiming(c) \/ JoinAll(c)
    \/ \E t \in Tasks : SkipTask(c, t) \/ try_claim(c, t) \/ ClaimFails(c, t)

TaskStep(c, t) ==
    StartTask(c, t) \/ FinishTask(c, t) \/ release_claim(c, t) \/ ReleaseFails(c, t)

HeartbeatStep(c) == BeatSnapshot(c) \/ refresh_claims(c) \/ BeatFails(c)

StopStep(c) == StopAndReleaseAll(c) \/ ReleaseAllFails(c)

Fault(c) == Drain(c) \/ Abort(c) \/ ForceStop(c) \/ Crash(c)

ApiStep(t) == trigger_scheduled_task(t) \/ UpdateSchedule(t) \/ ToggleEnabled(t)

Next ==
    \/ \E c \in Controllers :
          \/ PollStep(c) \/ HeartbeatStep(c)
          \/ StopStep(c) \/ Fault(c) \/ Restart(c)
          \/ \E t \in Tasks : TaskStep(c, t)
    \/ \E t \in Tasks : ApiStep(t)
    \/ Tick

Spec == Init /\ [][Next]_vars

\* Every loop of an instance keeps running, executions end (there is a timeout
\* on them) and a stopped instance is started again.  Time passes however often
\* something that takes no time delays it, hence SF.
Fairness ==
    /\ SF_vars(Tick)
    /\ \A c \in Controllers :
          /\ WF_vars(PollStep(c))
          /\ WF_vars(HeartbeatStep(c))
          /\ WF_vars(StopStep(c))
          /\ WF_vars(Restart(c))
          /\ \A t \in Tasks : WF_vars(TaskStep(c, t))

FairSpec == Spec /\ Fairness

-----------------------------------------------------------------------------
(* Properties *)

\* "HA-safe": an instance whose heartbeat loop runs never loses the claim of a
\* task it executes, however its beats, the stale recovery of its peers, its own
\* claims and up to MaxLost failed beats in a row interleave.  So no two such
\* instances execute one task.
HeartbeatKeepsClaim ==
    \A c \in Controllers, t \in Tasks :
        mode[c] = "up" /\ exec[c][t] # "none" => locked_by[t] = c

\* Why: between two beats the claim of an executing task ages by at most one
\* interval, plus one for each beat that failed; a task the beat under way does
\* not know of was claimed within the current unit of time; and nothing executes
\* outside the claiming phase of a poll cycle.
LeaseOf(c, t) ==
    /\ exec[c][t] # "none" => Running(c) /\ pc[c] = "claim"
    /\ exec[c][t] = "claimed" /\ locked_by[t] = c => locked_at[t] = 0
    /\ mode[c] = "up" /\ exec[c][t] # "none" =>
          /\ locked_by[t] = c
          /\ locked_at[t] <= lost[c] * Beat + beat[c]
          /\ snap[c] # None /\ t \notin snap[c] => locked_at[t] = 0

LeaseInv == \A c \in Controllers, t \in Tasks : LeaseOf(c, t)

\* The scheduler implements the abstract lease: an instance works on what its
\* join set holds and keeps its leases up while no token of it is cancelled.
Lease == INSTANCE TaskLease WITH
    Participants <- Controllers,
    Nobody <- None,
    holder <- locked_by,
    working <- [c \in Controllers |-> {t \in Tasks : exec[c][t] # "none"}],
    keeping <- {c \in Controllers : mode[c] = "up"}

\* In particular: no statement of a recovery, a release or a shutdown takes away
\* the claim of a task that an instance with a running heartbeat executes, and
\* nothing is claimed by an instance that is told to stop.
ImplementsLease == Lease!Spec

\* The table says c holds t but c does not execute it.
Orphan(c, t) == locked_by[t] = c /\ exec[c][t] = "none"

\* A claim is left behind without an execution only by a crash, by the forced
\* stop of a standalone scheduler or by a release the database refused; every
\* other way out of poll_cycle gives the claim back.
ClaimsAreReturned ==
    [][\A c \in Controllers, t \in Tasks :
          Orphan(c, t)' /\ ~Orphan(c, t) =>
              Crash(c) \/ ForceStop(c) \/ ReleaseFails(c, t)]_vars

\* Whatever crashed, was stopped or failed to release, an enabled task is
\* executed again and again: stale claims are recovered, deferred tasks are
\* taken up by whoever is left.
EnabledTasksRun ==
    \A t \in Tasks :
        []<>(~enabled[t] \/ \E c \in Controllers : exec[c][t] = "live")
=============================================================================
