# A TLA+ model of uptrakit

uptrakit tracks installed software on many hosts, finds out which of it is
outdated and updates it. One or more **controllers** (web API, UI backend,
scheduler, database) talk over mutually authenticated WebSockets to **services**
(agents on hosts, an agentless SSH agent, an MQTT bridge, a standalone
scheduler). The controllers share one database and, in HA deployments, a NATS
bus; there is no other coordination. Almost everything that is hard about the
program follows from that: rows of the database are the only locks, messages to
services are lost, delayed or repeated when a connection drops, and every
process may stop between two statements.

This directory models the parts that carry that logic, checks them with TLC on
small instances and proves every safety property of the passing runs with TLAPS
for every instance.

| File | What it is |
|---|---|
| `Scheduler.tla`, `MCScheduler*.{tla,cfg}` | the database-backed scheduler, and its instances for TLC |
| `TaskLease.tla` | the abstract lease the scheduler implements, with its own theorem |
| `SchedulerProofs.tla` | the lease invariant of the scheduler, the refinement and the return of claims, proved |
| `UpdateLifecycle.tla`, `MCUpdate*.{tla,cfg}` | the life of the updates of a host, and its instances |
| `UpdateLifecycleProofs.tla` | the safety properties of updates, proved |
| `ServiceSessions.tla`, `ServiceSessionsProofs.tla` | connections of services and the registry of each controller, the base of the next two; what its operations preserve |
| `WorkloadClaims.tla`, `MCWorkloadClaims.tla`, `MC*Claims*.cfg` | exclusive config keys over several controllers, and its instances |
| `WorkloadClaimsProofs.tla` | sessions, indexes and arbitration of claims, proved |
| `SurfaceProxy.tla`, `MCSurface*.{tla,cfg}` | invocations of surfaces through the controller, and its instances |
| `SurfaceProxyProofs.tla` | budgets, reservations and the provider registry, proved |
| `AgentLoop.tla`, `MCAgentLoop.{tla,cfg}` | the event loop and the background operations of an agent |
| `AgentLoopProofs.tla` | when runs overlap and when they are cancelled, proved |
| `Enrollment.tla`, `MCEnrollment.{tla,cfg}` | how a service comes to its certificate, and its instance |
| `EnrollmentProofs.tla` | secrets, identities and requests of the enrollment, proved |
| `PROJECT.json` | components, runs, mutants, source map, findings, hazards, theorems |

A definition in snake case (`try_claim`, `maybe_complete_batch`) has the name of
the function it models. An operator commented "Mutant"
is not used by any specification; put in the place of the definition that
follows it, it makes a property fail, which shows that the property depends on
that piece of code.

## Inventory

Components with state that several actors share:

| Component | State | Operations | Hard because | What makes it correct |
|---|---|---|---|---|
| Scheduler (`core/scheduler-runtime`) | `scheduled_tasks.locked_by / locked_at / next_run_at`, the live set of each instance | poll, recover stale claims, claim, execute, release, heartbeat, drain, abort | several instances, lost beats, crashes between claim and release | one instance executes a task at a time; every enabled task keeps running |
| Update lifecycle (`ui/web-api-queries`, `ui/web-api`, `ui/controller-core`) | `update_history` rows: status, owner, protection; `update_batches` | trigger, queue, protect, dispatch, start, finish, recover, reap, replay | controller tasks, agents, reconnects and reapers write the same row; messages are lost and repeated | one active update per host; success is never invented; nothing blocks a host for ever |
| Agent update execution (`core/agent-runtime`, `shared/agent-core`) | `in_flight_update`, `early_sent`, the update gate | execute, gate, early and final result, repeat UpdateStarted, shut down | answers are sent once and are lost with the connection | an update it accepted is executed once |
| Agent background operations (`shared/agent-core/client.rs`) | entries per host and kind, the result channel | dispatch, suppress, finish, time out, cancel, send | two clocks per run, a full channel, a loop that is down | no run of the same scope beside a live one, no entry left, no result dropped that was due |
| Event loop of a service (`shared/service-sdk`) | ping timer, outstanding pings, event budget | service event, ping, receive, signal, reconnect | a biased select with one very busy arm, links that die silently | a dead link is noticed |
| Workload claims (`ui/controller-core/workload_claims.rs`, `service_ws/handler/workload.rs`) | per controller, in memory: owner of each key, two indexes, wishes | claim, release, disconnect, announce, apply, offer again | awaits between registry operations, overlapping sessions, lost and repeated announcements | one owner per key, indexes that agree with it |
| Service connections (`ui/service-connections`, `session_authenticated.rs`) | sender, cancel token and connection id per service | register, replace, force off, clean up, send | an old connection ends after its successor registered | the newest connection stays registered, and none is left |
| Surfaces (`ui/surface-proxy`) | provider maps; pending calls, two budgets, idempotency keys, failures | register, rotate, unregister; invoke, answer, time out, drop, sweep | six parties end a call; services call each other from inside their processors | budgets and keys follow what is in flight; every call ends |
| Configuration reload (`shared/config-reload`, `controller-runtime/reload`) | current snapshot, pending change, per-subsystem result | load, diff, apply, roll back | a second change during an application; one subsystem fails | subsystems agree with the recorded snapshot |
| Service enrollment (`service-sdk`, `service_ws`, `routes/agents.rs`, `routes/services`) | rows of services, secrets, redirects, certificates; the state directory and the process of each service | enrol, decide, merge, sign, resume, log in, clear | the row is read several times with awaits in between; two files written one after the other; operators decide meanwhile | an approved service gets its certificate, and only its own identity |
| PKI (`controller-runtime/pki.rs`, `crl_manager.rs`, `service-sdk`) | CA, CRL, certificates of services | issue, renew, rotate, revoke | renewal races rotation and revocation | a connected service always has an accepted certificate |
| Multi-controller transport (`shared/nats`, `nats_transport.rs`) | subjects, who is connected where | publish, deliver | messages to a peer are lost | a message reaches the controller that holds the connection |
| Embedded services (`controller-runtime/embedded`) | running, yielded | start, yield, resume | an external service comes and goes | someone serves each role |
| OAuth and login (`web-api/oauth`, `web-api-auth`) | codes, refresh tokens, sessions | issue, redeem, rotate | a code or token used twice | single use |

Without shared state of their own, or outside the program: access control,
notifications, audit log, output streams, interactive sessions, plugins, migrations, command line, MCP server, frontend. `PROJECT.json`
lists every component with its status and the reason.

How they interact: API requests and the scheduler write `update_history`;
orchestrators (tokio tasks of the controller) and the message processor of each
agent connection read and write it and send over the connection registry; the
agent answers on the same connection; a sweep in every controller (the reaper)
and a tick of the scheduler (restart timeouts) write the rows that nobody else
finished. The table is the only thing all of them see. Services hold one
WebSocket to one controller; its session registers in the connection registry,
forwards messages to one processor task, and on its end releases the service's
workload claims, fails the calls to its surfaces and unregisters. Controllers
tell each other about claims over NATS and about nothing else that is modelled.
Before all that a service enrols: over a connection of its own kind, which is
registered like any other, it gets an id and a secret, waits for an operator and
is given the certificate it then connects with.

## Scheduler

`Scheduler.tla` models `crates/core/scheduler-runtime`: `scheduler.rs` (poll
loop, heartbeat, shutdown), `claim.rs` (the SQL), `interval.rs` and the stop
timeout of `runtime.rs`. Each instance has the phase of its poll loop (`pc`),
the due list it read (`due_tasks`), what became of each task it claimed
(`exec`), the phase of its heartbeat (`beat`, `snap`, `lost`) and its shutdown
tokens (`mode`). Every SQL statement is one action; a statement that can fail
has a second action for the error path. The columns are kept relative to now:
`locked_at` is the age of a claim, `next_run_at` the time left. `Tick` is one
unit of time and waits for a beat that is due or under way, and for a future
that was just spawned: these take less than a unit. Executors are reduced to
starting and ending.

Not in the model: `release_and_stop_if_heartbeat_dead` (the heartbeat loop has
no path that ends it before shutdown) and the tick executors, which touch no
scheduled task (one of them, the restart timeout, is an action of
`UpdateLifecycle`).

`HeartbeatKeepsClaim` is what makes the claim a lease: while the heartbeat loop
of an instance runs, no task it executes is claimed by anybody else.
`ClaimsAreReturned` says where a claim may be left without an execution behind
it: only where a statement failed, a process died or a stop timed out.
`EnabledTasksRun` (liveness) says an enabled task runs again and again whatever
is left behind.

`TaskLease.tla` states what the claims promise without clocks, heartbeats and
SQL: a lease per task that a participant acquires if it is free, that nobody can
take from one who keeps it up and works, and that may expire in every other
case. `ImplementsLease` says that the scheduler implements it, with
`holder` = `locked_by`, `working` = the tasks an instance executes, and
`keeping` = the instances whose heartbeat loop runs.

| Run | Instance | Shows |
|---|---|---|
| `scheduler_lease` | an embedded and a standalone instance, one task, `Stale = 2`, one lost beat, two stops, one error, one edit | type invariant, lease, claims returned, refinement of `TaskLease` |
| `scheduler_liveness` | two tasks, one only for controllers, one stop | `EnabledTasksRun`, with yielding, missing executors and a join set of two |

Two instances are enough for every race the code has: claims are pairwise, and a
third instance can only play one of the two roles again. `Stale = 2, Beat = 1,
MaxLost = 1` is the smallest lease in which a failed beat is survived exactly at
the limit. The bounds on stops, errors and edits let each happen before, between
and after the others.

Fairness: the loops are tokio tasks and keep running, executions have a timeout,
time passes, and a stopped instance is started again (a deployment restarts its
services; without that nobody executes anything). `Tick` has strong fairness:
it is disabled while a beat is due or a future was just spawned, so with two
tasks weak fairness would allow a behaviour in which infinitely many triggers
and spawns happen within one unit of time. Nothing is assumed of faults,
API calls, or which instance wins a claim.

## Update lifecycle

`UpdateLifecycle.tla` models the rows of one host. A host has one agent and the
indexes of `update_history` are per host, so hosts are independent except for
batches over several hosts, which then settle as the model's batch does, by
rows. The code is spread over `web-api-queries` (`update_triggers.rs`,
`update_dispatch.rs`, `update_batches/`, `update_reaper.rs`), the message
handlers (`service_ws/handler/`), the orchestrator
(`controller-core/update/controller.rs`), the restart timeout, startup recovery
and the agent.

| Variables | Code |
|---|---|
| `status`, `owner`, `prot`, `batch` | the columns of the two tables; `owner` is the runtime instance of the agent that claimed the row |
| `req`, `work["api"]` | requests between reading `host_busy` and the INSERT |
| `spawned`, `orch` | orchestrator tasks before their CAS, and those that run protection |
| `work[w]` | the place of the jobs that take several statements: message processor and recovery of the current session and of superseded ones, reaper, restart timeout, startup |
| `inst` | the runtime instance of the agent whose connection a recovery serves |
| `link`, `toAgent`, `toCtl` | the registered session and its WebSocket: in setup while it recovers, up, or dead when the connection is lost and the loop has not noticed; what is on it is lost with it |
| `boot`, `cur`, `early` | the agent process, its `in_flight_update` and `early_sent` |
| `succeeded`, `runs`, `pushed`, `protected`, `lost` | history, read by properties only |

A row has three ways to the agent, and the differences between them are where
the properties are interesting:

* an **orchestrator** takes the row from Pending to InProgress by a CAS, runs
  protection and sends ExecuteUpdate (`OrchestratorBegin/Proceed/Fail`);
* the **direct** loop `dispatch_next_queued_for_host` and `create_batch` run
  protection and send while the row is still Pending (`DispatchDirect`,
  `DirectProceed`, `DirectFail`); the agent's UpdateStarted makes it InProgress;
* **replay** on connect resends a Pending row whose protection is recorded, and
  gives one without it to a new orchestrator (`ReplayPending`).

A row ends by the agent's result, by a version check after a restart, by
recovery on connect (`InterruptOwned`, `FailOrphans`), by startup recovery
(`RolloutCleanup`), by the reaper or the restart timeout, or by a failed
protection. Each of these continues the queue of the host in its own way:
`Successor`, `After` and `AfterReap`.

A session may outlive its connection. `Disconnect` and `AgentRestart` leave it
registered but dead; its loop notices later (`EndSession`: the processor is
cancelled wherever it is, then the registration goes), or the agent connects
first and the new session takes its place at once (`AgentConnect`). What the old
one is doing then goes on beside the new one: its recovery to its end, its
processor until `CancelProcessor` ends it, also between the promotion of a row and
the dispatch of it. `OldRecoveries` and `OldProcessors` are the places for such
jobs, and their number bounds how many sessions may be superseded at work.

Abstractions: one controller; clocks are left out, so the reaper and the restart
timeout may find any row of their kind overdue, at any time; the read and the
conditional UPDATE of one row in the same helper are one step, as the UPDATE
repeats the condition; a graceful shutdown of the agent is `AgentFinish("failed")`
followed by `AgentRestart`; a version report that does not answer whether the
update took effect changes nothing and is no action; host-level batch commands,
output lines and notifications are left out.

| Property | Says |
|---|---|
| `OneActivePerHost` | at most one row is Pending, InProgress or AwaitingRestart, though most statements never ask the index |
| `OneUnfinishedPerItem` | requests and batches that race give an item at most one unfinished row |
| `CompletedMeansDone` | Completed or AwaitingRestart only after a successful execution |
| `PendingIsAttended` | while the agent's connection works, somebody is about to act on a Pending row, unless the agent's gate dropped it or a superseded session was ended with the row in hand |
| `RunsOnce` | an update that orchestrators send is executed once; only rows sent while Pending may run again |
| `ReplayIsProtected` | a Pending row that a reconnect would send without protecting it again was protected, although five writers set that status |
| `SettledBatchHasEnded` | a settled batch has no unfinished row, then or later |
| `EndedStaysEnded` | an ended row is not revived, a Failed one stays Failed |
| `SlotFrees` (liveness) | a row does not block its host for ever, unless it is one of those two, Pending with a connected agent |

| Run | Instance | Shows |
|---|---|---|
| `update_faults` | two single updates, one drop, one agent restart, one gated message, places for one superseded recovery and one superseded processor | `PendingIsAttended`, `RunsOnce`, `SlotFrees` |
| `update_mixed` | a single update and a batch of two, one for the same item, the single one resumable; one controller restart, one error | type invariant, `OneActivePerHost`, `OneUnfinishedPerItem`, `CompletedMeansDone`, `PendingIsAttended`, `ReplayIsProtected`, `SettledBatchHasEnded`, `EndedStaysEnded` |
| `update_blip_doc` | one update, one drop | violated: `LiveUpdateNotFailed` (finding) |

Two rows are needed for a successor and for competition, three for a single
update against a batch. One of each fault is the point up to which faults
interact: a second drop or restart meets the same rows as the first. A lost
connection, a restart of the agent, the gate and superseded sessions are in the
first run (a drop and a restart make two reconnects; a third session waits until
the place of a superseded job is free), a restart of the controller, a
failing protection or target and an update that ends in a restart in the second;
the safety properties of both are proved for any number of all of them. `SlotFrees` is thus
checked without a restart of the controller and without batches, with which the
liveness check takes too long. The runs reach half a million and 1.6 million
states. The system may stop (nothing is owed when no row is unfinished), so
deadlock is not checked.

Fairness: what the controller has begun goes on (tasks), a session whose
connection is lost notices it and a superseded one ends its processor, the
agent's runtime and its reconnect loop go on, the reaper and the restart timeout
sweep for ever. Requests, faults, version reports and early results are not owed.
The sweep of stalled Pending rows is not owed either: it looks only at rows whose
agent is not connected, and the agent reconnects.

## Sessions and workload claims

`ServiceSessions.tla` is the part of `crates/ui/service-connections` and
`session_authenticated.rs` that others depend on: `connections` (per controller,
the current connection id of each service), `phase` (a session is live, in its
cleanup, or gone) and `cancelled` (cancel tokens). A session ends in several
steps: the loop exits, `Finalize` reads who owns the registration, the cleanup
runs with awaits in it, `Unregister` compares the connection id once more. The
service may reconnect at any point. The module has no `Next` of its own:
`WorkloadClaims` and `SurfaceProxy` extend it and decide when a session ends and
what the cleanup does.

`WorkloadClaims.tla` puts the claim registry of every controller on top of it,
with all four maps of `ClaimRegistryInner` (`registry[c]`), the handlers of
`workload.rs`, the NATS consumer of `event_delivery.rs` and the MQTT runtime as
the service. The registry is locked per operation, so an operation is one step
(`TryClaim`, `ReleaseAll`, `ReleaseKeys`, `ApplyAnnouncement`); what a handler
does after it (announce, reply, offer the released keys, one `try_claim` per
wish) is a list of steps in `todo`, one list per session and one per consumer.
A session that ends drops its processor wherever it is. Announcements (`bus`)
are lost when a publish fails, repeated when an acknowledgement is lost, and
gone when the controller restarts, because it then has a new consumer that
starts with new messages. Time is a clock that all controllers read; two claims
may have the same time.

| Property | Says |
|---|---|
| `IndexConsistent` | by_service lists exactly the keys a service owns, on every controller |
| `RoutingIsExact` | the tenant index names exactly the services that own a key of the tenant |
| `NoTheft` | a key passes directly from one service to another only by an announcement of an earlier claim |
| `LiveIsRegistered` | the cleanup of an old session never evicts a live replacement |
| `RegisteredIsAlive` | a registration belongs to a session that will remove it |

| Run | Instance | Shows |
|---|---|---|
| `claims_single` | one controller, two services, two keys of two tenants, two connections, two events | `RoutingIsExact`, `LiveIsRegistered`, `RegisteredIsAlive` with overlapping sessions, crashes, edits and releases |
| `claims_cluster` | two controllers, two services, one key, two times, one event | type invariant, `IndexConsistent`, `RoutingIsExact`, `NoTheft` with announcements in flight |
| `claims_exclusive_doc` | one controller, two services, three connections, no faults but lost links | violated: `ServedByOne` (finding) |

Two services are needed for a conflict and a third would meet the same
arbitration; two keys of two tenants tell the routing index from the claims; two
connections of one service are an old and a new session. An event is a config
edit, a release, a deactivation, a restart or a lost publish. The clock stops at
`MaxTime`, and a system at rest may stay so: deadlock is not checked.

Abstractions: a config update is the whole stored set, not a difference; the
states pushed to newly served tenants are left out (they read the registry and
change nothing); the sync request and response are left out, as nothing in the
repository publishes a request; a service does not yield.

## Surfaces

`SurfaceProxy.tla` models one surface and its interactions. `px` is the
`PendingState` of the proxy under its lock, `serves` and `boundTo` are the two
maps of the provider registry. A call runs through `stage`: resolved, registered
(admitted under one lock), sending, waiting, expired, timed out, cancelling, done;
a local call is executed by a plugin of the controller without a time limit. It is
ended by the answer (`HandleResponse`, then `Wake`), by its timer (`Expire`,
`TimeOut`, `Cancelled`), by a failed send, by the end of the provider's session
(`FailSurfaces`), by the drop of its future (`DropCall`, `EndSession`) or by the
sweep (`Cleaned`, which is part of every operation that calls
`cleanup_expired`). Sessions are those of `ServiceSessions`. Deadlines, retention
and cooldowns end in `Lapse`.

Three bounded channels lie between the loop of a session, its message processor
and the rest of the controller, and whoever sends into one waits for room without
a time limit:

| Variable | Channel | Written by | Read by |
|---|---|---|---|
| `push[n]` | pushes to the service (`PUSH_CHANNEL_CAPACITY`) | calls (`Send`, `Cancelled`), others (`Notify`) | the loop (`Deliver`) |
| `inbox[n]` | messages to the processor (`PROCESSOR_CHANNEL_CAPACITY`) | the loop (`Say`) | the processor (`Takes`) |
| `replies[n]` | its replies (`RESPONSE_CHANNEL_CAPACITY`) | the processor (`Takes`) | the loop (`ReadReply`) |

A sender takes the channel of the session that is registered (`Lookup`) and
waits on it from then on (`via`), whatever the registry says later; its timeout
begins only once the request is in. The loop that waits for room in the
processor's queue (`~LoopFree`) does nothing else, and does not notice that it
should end. The processor takes one message at a time and awaits the call a
service makes inside it (`busy`).

| Property | Says |
|---|---|
| `BudgetsExact` | both counters equal what is in flight, whoever gives a share back first |
| `ReservationsHeld` | no idempotency key is stuck, and none is lost while its call is in flight |
| `RegistryIsInverse` | the two provider maps are inverse, through rotations and late removals |
| `ListedIsServed` | a listed provider has a session that still lives or has its cleanup ahead |
| `EveryCallEnds` (liveness) | every call ends, even when its answer waits behind the processor that awaits it; only one that waits for room at a session in a circle of waiting sessions (`Circle`) does not |

| Run | Instance | Shows |
|---|---|---|
| `surfaces_calls` | one service with two connections and two provider ids, a call of a user and the user's retry under one key, universal targeting | the safety properties |
| `surfaces_services` | two services, one connection each, two providers, two calls that service 1 makes, one of them local; one service may be deactivated, one other push | `EveryCallEnds` when a service calls another one or itself |

The budget of a provider is one and the failure limit two, so that a second call
is refused and a provider is blocked. The tenant's budget is two, and with two
calls that limit is not reached; that the counter is right at every limit is the
theorem `BudgetsStayExact`. Each channel has one place instead of 32: full ones
are what matters. The circle that these bounds reach is a service that calls itself: its call
waits for room among the pushes, and the loop that would make room waits for the
processor that awaits the call. The one through `replies` (a processor that cannot
hand over its reply while the loop cannot hand over a message) needs more messages
than the run has; `Circle` allows for it.

Fairness: a future that can go on is polled, its timer fires, a plugin's executor
returns; the loop and the processor of a session go on with what is in their
channels unless they wait for room, a write to the service has a time limit, and a
session that ends cleans up. Nothing is assumed of the services, nor that a session
ends. A system without calls is at rest, so deadlock is not checked.

## The agent's loop and background operations

`AgentLoop.tla` models an agent process: the biased select of
`run_event_loop_connected` with its arms in order (an arm runs when it is ready
and no earlier one is), and `spawn_background_guarded` with the tasks it spawns.
A run has an age, the age at which its setup ended, and perhaps an entry in the
map; the deadline of the operation counts from the end of the setup (for the SSH
agent, the session it acquires), the dedup window and the cancellation from the
dispatch. A hung setup never ends. The result channel is bounded, and the loop
empties it one event at a time, after the output of an update.

| Property | Says |
|---|---|
| `OverlapOnlyLate` | a run is overlapped by one it covers only when it has no more time left than its setup took |
| `CancelledWasHung` | only a hung run is dropped without a result |
| `EntriesGo` (liveness) | an entry is removed, even with a full channel and a loop that is down |
| `DeadLinkNoticed` (liveness) | once pings are on, a link that died silently is noticed, whatever the update prints |

One run, `agent_loop`: two slots, a version check of two items and one of one of
them (a discovery has a key of its own and behaves like a check of one fixed set),
a budget and a grace of one tick, a channel of one, a budget of one service event, one
missed pong. These are the smallest values at which each limit is met and
passed; `AbortGrace = 2` and `MaxSetup = 1` keep the code's order (a session is
acquired well within the 120 s of grace). Fairness: timers, tasks whose timer is
due, and the loop. The controller, the network and the plugins owe nothing.

## Enrollment

`Enrollment.tla` models both sides of the enrollment protocol and the operators
who decide on it.

| Variables | Code |
|---|---|
| `rows`, `redirect`, `issued`, `revoked`, `expired` | `services` (status, `deactivated_at`, hash of the secret), `service_merge_redirect`, `service_certificates`; a secret is named after the row it was issued for |
| `todo`, `checked` | what an operator's request has still to do after its commit, and a merge between the look at the registry and its transaction |
| `current`, `cancelled`, `sess`, `push`, `request`, `down` | the connection registry, the handler of each connection (stage, `approved`), its push channel, and the WebSocket in both directions |
| `disk`, `pc`, `link` | `service.json` and `service.crt`, the place of the process, its connection |

The service runs `run_service_lifecycle`: `Start`, then `Enroll` or `Resume`,
`ReceiveEnrolled`, `ReceiveApproved`, `ReceiveCertificate` and `FinishSaving`
(the two writes of `save_certificate`), `Login`, and `ClearState`,
`ClearCertificate` when the certificate has expired. The controller's handler
goes through `EnrollService` or `Decide`, `Setup` (register), `Recheck` (read the
status again) and the loop (`ForwardPush`, `Poll`, `RequestCertificate`,
`Superseded`, `Hangup`); signing is two more steps, `RecordCertificate` and
`InvalidateSecret`, between which an operator may decide, and each of which may
fail (`SigningFails`: an Error, and the secret stays valid). The second read of the
status may fail too: `RecheckFails` leaves the session not approved. A decision commits
first and is pushed, or disconnects, afterwards (`AfterCommit`). With `Cluster`
the request may reach another controller than the one the service is connected
to: its registry does not show the connection, and its push may be lost.
Faults stop a process, lose a connection, fail a query, let a certificate expire or
restart the controller, at any point. `Existing` are services that were enrolled
before, whose machines lost their state: they have no process, and are what an
operator merges a new enrolment into.

| Property | Says |
|---|---|
| `RequestIsGranted` | a request for a certificate never meets a session that does not know of the approval, unless that session's read after the registration failed (a refusal ends the client) |
| `RequestNamesSession` | a CSR names the service of its session, also after a merge |
| `NeverStranded` | a stored id always has a secret or a certificate beside it, wherever the process was stopped; whether the controller accepts the secret is not claimed |
| `SecretFollowsMerge` | however merges interleave, a secret is at the service it was issued to or at the one that service was last merged into, where `lookup_by_secret` finds it |
| `ApprovedGetsCertificate` (liveness) | an approved service whose secret is accepted does not wait for ever |

One run, `enrollment`: one service that may be started with an enrollment token
(an argument of the process, chosen at each enrolment), four rows of which two exist
before, two connections, two requests of operators, one fault, and operators whose
request may reach another controller. The two existing services are what two merges
of one source can be prepared for at the same time; the other two rows are an
identity and its successor; two connections are the live one and one whose handler
has not noticed its loss. One fault stops the process between any two writes of
`save_certificate`; stopping it halfway through clearing an identity takes two, as
the certificate must expire first, and is beyond this run. Enrolling waits for a
free row. The run has half a million states. The system may rest, with everything
decided or a service refused, so deadlock is not checked.

Fairness: weak, for each process (its supervisor starts it again, as the
documented systemd units do), each handler and what follows a commit. Operators and faults
owe nothing. `ApprovalTimeout` is 30 minutes against 5 seconds of the poll, so it
is enabled only when nothing else is coming (`Quiet`).

Abstractions: secrets and CSRs are names; the certificate check at login and the
status check are one read, the registration another; tokens are accepted or not,
without counts and expiry; system services, whose table has the same flow without
merges, are not told apart; `Rejected` and `Approved` for a service that is
already online are ignored there; renewal and the key pair are left out.

## What the code and its documentation disagree about

Two runs that TLC refutes, with the line they quote in `PROJECT.json`:

* **Two services run the same MQTT client** (`claims_exclusive_doc`): the cleanup
  of an old session releases claims by service id, also those the service has
  made again over its next connection; the key is then granted to another
  service, and the first is not told.
* **A reconnect fails an update that is running** (`update_blip_doc`): recovery
  on connect fails every InProgress row without an owner, also one whose
  orchestrator sends it a moment later or has just sent it.

Observed while modelling, without a run. Scheduler:

* A task may run twice for one due time: `try_claim` (`claim.rs:55`) does not ask
  whether the task is still due, so an instance that read the due list before a
  peer ran it runs it again. `docs/architecture/scheduler.md:9` says periodic work
  "runs exactly once".
* A manual trigger during an execution is lost: `release_claim` overwrites
  `next_run_at` (`claim.rs:105`).
* The stop timeout of a standalone scheduler leaves claims behind until they are
  stale (`runtime.rs:224`).

Updates:

* A batch may stay in progress for ever: the reaper does not advance the batch of
  a row nobody claimed (`web-api/src/update_reaper.rs:192`), and the recovery it
  leaves it to does not look at Interrupted rows.
* Completed may be overwritten with Failed (`update_dispatch.rs:577`): a batch row
  taken by a replay orchestrator while `create_batch` protects it.
* The row promoted after a restart timeout is sent without protection
  (`controller-runtime/src/scheduler/mod.rs:246`).
* A Queued row can wait on a free host: the request read `host_busy` before the
  active update ended (`update_triggers.rs:157`), the reaper advances only
  batches, and a failed orchestrator has no successor
  (`controller-core/src/update/controller.rs:372`). It moves with the next update
  that ends on that host.
* The agent answers a repeated ExecuteUpdate of the update it is running with
  Failed under the same id (`client.rs:645`), which may end the row while it
  runs; and a Failed answer for a row that is InProgress without an owner is
  dropped (`result.rs:334`) and left to the reaper.
* The agent's gate drops ExecuteUpdate without an answer
  (`agent-runtime/src/lib.rs:580`). A row that was sent while Pending then stays so
  and blocks its host until the agent's next connection: the sweep of stalled
  Pending rows passes over hosts whose agent is connected.
* A superseded session may leave a Pending row behind in the same way: it promotes
  the row after the new session has looked for Pending rows
  (`session_authenticated.rs:446`-`466` lets both recover at once) and is cancelled
  before it dispatches it (`:662`), or replays it to its own closed socket.
* `maybe_complete_batch` counts Interrupted rows as success, which ADR-0024
  accepts.
* With several controllers, the startup recovery of one interrupts rows another
  one is executing (`boot/recovery.rs:36`).

Claims and surfaces:

* An offer of released keys calls `try_claim` with the wish alone
  (`workload.rs:345`); since a claim replaces the whole set, the keys the service
  holds are dropped, neither announced nor told.
* A wish that was snapshot before a claim changed, a push that overtakes a reply,
  a processor cancelled between claim and announcement, and a lost publish leave
  registries of two controllers, or a service and its controller, with different
  owners; nothing asks for a sync.
* An ending session unregisters the surfaces of its service by service id, also
  when it was replaced and its successor has registered already
  (`session_authenticated.rs:569`, `:697`), while the registration next to it is
  compared by connection id.
* Between the answer and `store_cached_response` the idempotency key is free and
  the answer not yet cached: a retry in that window is executed again.
* The end of a session with k calls in flight records k + 1 failures, one for the
  provider and one per call.
* A session may wait for itself: the loop waits without a time limit for room in the
  processor's queue (`session_authenticated.rs:796`), the processor in
  `SurfaceProxy::invoke` for room among the pushes that this loop would write
  (`service-connections/src/lib.rs:262`), where the call's timeout does not run yet
  (`dispatch.rs:143`, and `:204` for the cancellation), or for room among its own
  replies (`message_processor.rs:104`). Two sessions may wait for each other. Nothing
  but a restart of the controller ends it: the loop notices neither the peer's close
  nor its cancellation. Each channel has 32 places, so a service must be fast or
  misbehave.

Agent:

* A repeated dispatch may overlap a run that is within its time, by as much as
  its setup took (`agent-ssh-runtime/src/client.rs:893`; the comment at
  `agent-core/src/client.rs:351` has the deadline fire at the window's end).
* Before ServiceSettings there is no ping timer, so a link that dies then is not
  noticed; an unread pong does not save a link, as the ping arm comes first; a
  background result whose send fails is lost.

Enrollment:

* An approval may be told to nobody: committed between the handler's first read of
  the status and its registration, it is pushed to no connection, and the second
  read marks the session approved, which turns off the poll
  (`session_enrolled.rs:397`). The service waits for 30 minutes and its process ends, while
  `docs/api/wire-protocol.md:41` has the approval pushed to a connected service.
  `ApprovalTimeout` is what keeps `ApprovedGetsCertificate` true.
* A failed read is taken for a missing approval: when the second read of the status
  fails (`session_enrolled.rs:187`) the session goes on as not approved although the
  client was told Approved before (`connection.rs:604`); it refuses the client's
  request (`cert.rs:134`), which is fatal to the client's process. The next start
  resumes.
* A secret is used up before the certificate arrives: `do_sign_csr` invalidates it
  (`routes/agents.rs:390`) before the certificate is sent; when the connection or
  the process is lost in between, every later attempt is refused and only a new
  identity (`--force-enroll`) helps.
* A process stopped between the removal of `service.json` and of `service.crt`
  enrols anew with the old certificate beside its new identity: when its
  connection drops before the new one is stored it counts as certified, finds the
  certificate expired and clears the new identity too, leaving a row behind.
* `do_sign_csr` does not look at `deactivated_at`, and writes the invalidated hash
  over whatever the row has by then: a deactivated service may still be issued a
  certificate (refused at login), and a merge into a service that is being signed
  loses the secret it moved.

## Proofs

TLAPS checks the modules that end in `Proofs`, and `TaskLease.tla`, for all values
of the constants that satisfy the assumptions. These are the types of the
constants and that the marks for "nobody" are none of the values they stand
beside (`NoneOwnsNothing`, `None` and `User` in `ProxyAssumption`); for the lease,
`(MaxLost + 1) * Beat <= Stale` (`LeaseAssumption`), which the shipped 600 s and
60 s satisfy for up to nine lost beats in a row; for the agent's loop,
`MaxSetup < AbortGrace` (an SSH session is acquired within the 120 s of grace).
The bounds on faults are arbitrary naturals. Every safety property of a passing
run is the property of a theorem.

**Scheduler.** `TypeCorrect`; `LeaseSafety` (`HeartbeatKeepsClaim`) and its
corollary `MutualExclusion`. The lease is not inductive by itself: whether a
claim can be found stale depends on its age. `LeaseInv` therefore bounds the age
of the claim of an executing task by the time since the last beat plus one
interval per lost beat, says that a task the beat under way does not know of was
claimed within the current unit of time, and that nothing executes outside the
claiming phase. TLC would meet these only in small numbers; the proof covers any
number of instances and any timing.

`LeaseExcludes` is the theorem of the abstract lease: participants that keep
their leases up never work on one task, because each holds what it works on.
`SchedulerImplementsLease` (`ImplementsLease`) shows that every step of the
scheduler is one of the lease or leaves it alone. The step that needs `LeaseInv`
is the stale recovery: it may be an `Expire` only if nothing it frees is kept up.
`OnlyFaultsLeaveClaims` (`ClaimsAreReturned`) goes through the steps once: only
those three end an execution and leave `locked_by` alone, and only `try_claim`
sets it, together with an execution.

**Updates.** `TypeCorrect` with the strengthening that a job which protects a row
knows which. The next theorems follow one argument. `Shape` states what any step
may do to the table: statuses move as unconditional statements move them
(`Ordinary`: keep or free the slot, end, stay ended), or one Queued row is
promoted while the host is free, or new rows are inserted that the indexes allow;
batches settle only on ended rows. `Born`, the inductive part, says that requests
and batches under way have no rows yet and that whatever works on a row works on
an inserted one; without it an INSERT could revive an ended row and a write by id
could create one. `StepHasShape` goes through all actions once. From the shape:
`HostSlotIsExclusive` (`OneActivePerHost`), `ItemIsExclusive`
(`OneUnfinishedPerItem`), `EndedIsFinal` (`EndedStaysEnded`) and
`SettledBatchStaysEnded` (`SettledBatchHasEnded`). `SuccessIsReal`
(`CompletedMeansDone`) needs one more invariant, `ResultsAreTrue`: a result on the
wire that claims success is of a row that succeeded.

`ReplaysAreProtected` (`ReplayIsProtected`): while a row is fresh (not inserted,
Queued or Pending) its mark implies its protection (`GuardedWhileFresh`). The other
writers of the mark write it with a status that is not fresh, and no row becomes
fresh again (`FreshStep`).

`UpdatesRunOnce` (`RunsOnce`): of a row that was never pushed while Pending there
is at most one permission to execute (`SentOnce`): the fresh row itself, its
orchestrator, one message to the agent, or the execution that has begun. Every
step moves it on or loses it (`SendShape`), and none doubles it.

`PendingRowsAreAttended` (`PendingIsAttended`) has the largest invariant.
`WireKept`: nothing is on a lost connection, a connection in setup has a recovery
under way, and no recovery, superseded or not, runs the orchestrators' queue.
`StepKeepsExcuses`: a dropped message and a lost row stay on record. `RowsKept`, of each
row: before it is Pending nobody has it in hand and nothing about it is on the
wire; while it is fresh it has no owner; and while it is Pending what the agent
says of it begins with UpdateStarted or a failure (`Announced`), the two messages
the processor takes a Pending row out of Pending with. Without `Announced` the
processor could drop the last message about a row and leave it Pending.
`OneActivePerHost` is needed for the replay, which looks at one Pending row. The
proof holds for any number of superseded sessions: a job that another session takes
the place of moves as it is (`AgentConnect`), so whoever has a row keeps it, and a
cancelled one puts the row it had in hand on record.

**Sessions and claims.** `ServiceSessionsProofs` has no specification of its own:
`SessionsPreserved` says that each operation on sessions and registrations keeps
`SessionsInv`, and both modules above use it. Its two properties are inductive
only together: a cleanup leaves a live session alone because the registration it
finds belongs to somebody alive. `ClaimsInv` adds the types (an operation is known
to keep a registry consistent only for keys and services that exist, and these
come out of messages) and `Consistent` of every registry: owners, `by_service` and
the tenant index agree. The lemmas are one per operation of the registry, with
`RoutedBut` for the moment when a few services are not yet indexed again. Theorems:
`LiveSessionsAreRegistered`, `RegistrationsAreAlive`, `IndexesAgree`
(`IndexConsistent`), `RoutingStaysExact` (`RoutingIsExact`), `NothingIsStolen`
(`NoTheft`, an action property) and `ClaimsTypeCorrect`.

**Surfaces.** `BudgetsStayExact` and `ReservationsAreHeld` are about cardinalities
of sets of calls that six parties shrink; the lemmas state for each operation on
`PendingState` what it takes out and that it does so once. They need each other,
the target of every call on its way (`Targeted`), that an answer in a channel was
taken out of the pending calls (`ResponsesKept`) and that a request is read once
(`RequestsQueued`): a call begun twice would overwrite the target its entry is
counted under. Where a sender waits and how full a channel is does not matter to
them, so they hold for channels of any size. `RegistryStaysInverse` and `ListedAreServed` rest on
`SessionsPreserved`. `ProxyTypeCorrect` includes that no budget leaves its range.

**Agent.** `OverlapsAreLate` (`OverlapOnlyLate`) and `OnlyHungAreCancelled`
(`CancelledWasHung`) are arithmetic on three clocks: the setup of a run that is not
hung takes at most `MaxSetup`, work is not older than its run (`TimersKept`), a run
has its entry as long as it runs, and one that is overlapped is older than the dedup
window (`OverlappedIsOld`).

**Enrollment.** `EnrollmentInv` has a part for each place a name can be. Of rows: one
that does not exist has nothing, and one that was merged is deactivated, so that
none is merged twice; no two rows have the same secret, so the UNIQUE index never
refuses a merge; from this `SecretsFollowMerges`. Of connections: nothing
outlives one, its handler, messages and request name one service, and what the client
was told the handler knows, will read before its loop or could not read
(`ApprovalKnown`); from this
`RequestsNameSession` and `RequestsAreGranted`. Of the state directory: which of its
files exist at each place of the process; from this `NobodyIsStranded`.

Only model-checked, and why:

* `EnabledTasksRun`, `SlotFrees`, `EveryCallEnds`, `EntriesGo`, `DeadLinkNoticed` and
  `ApprovedGetsCertificate`: liveness under fairness, which needs `ENABLED` and
  well-founded measures that the prover does not offer;
* that every action can happen (coverage), and that no other state than a resting one
  is stuck, where deadlock is checked: `ENABLED` again;
* the two properties that the code breaks: TLC gives the behaviours.

Every operator that a theorem depends on is free of recursion, so nothing had to be
left out for that reason.

## Not modelled

The repository has some 440,000 lines, most of them queries, API handlers,
plugins, parsing, UI descriptors and tests; the model covers the parts with
shared state and their protocols. Left out, and why:

* configuration reload, use counts of enrollment tokens, certificate renewal and
  CA rotation, embedded services that yield, OAuth: state of their own, changed in
  one transaction or by one process under a lock;
* host-level batch commands (`ExecuteBatchUpdate`) and updates with several
  controllers: the same rows and guards as in `UpdateLifecycle`, with instances
  beyond what TLC can explore;
* discovery and software items: reconciliation inside one transaction;
* access control: a decision per request; notifications, audit log, output
  streams, interactive sessions: nothing modelled reads what they write;
* plugins, migrations, command line, MCP server, frontend: external commands,
  one-off programs and clients.

## Plan

The model is complete as far as this project takes it, and its safety properties are
proved. What is left:

1. An abstract specification of the slot of a host (taken by a row that was queued or
   new, freed when the row ends) that `UpdateLifecycle` implements, proved from `Shape`
   as `SchedulerImplementsLease` is from `LeaseInv`.
2. The same for the claims of one controller: an owner per key, which `WorkloadClaims`
   implements for each registry; `NoTheft` is most of it.
3. The steps that the liveness properties rest on, as far as they are safety: that the
   recovery of a connection always ends in a replay, and that a run in its setup or at
   work has a timer that is due before its entry is.
