---------------------------- MODULE UpdateLifecycle ----------------------------
(***************************************************************************)
(* The life of the update_history rows of one host: API requests and       *)
(* batches insert them, orchestrators and direct dispatchers send          *)
(* ExecuteUpdate to the host's agent, the agent answers with UpdateStarted *)
(* and UpdateResult, and reconnect recovery, the reaper and the restart    *)
(* timeout clean up after lost connections and dead processes.             *)
(*                                                                         *)
(* A database statement or transaction is one step; a job that runs        *)
(* several of them keeps its place in work.  Clocks are left out: the      *)
(* reaper and the restart timeout may find any row of their kind overdue.  *)
(* Updates are ordered as their ids (UUIDv7) are.                          *)
(***************************************************************************)
EXTENDS Integers, Sequences, FiniteSets

CONSTANTS
    Updates,       \* ids of the rows that may be created
    Batches,       \* ids of the batches that may be created
    None,          \* SQL NULL, or nobody
    ItemOf,        \* software_item_id of each row
    BatchOf,       \* batch_id of each row, or None
    Resumable,     \* rows whose update ends in a restart of the agent
    OldRecoveries, \* places for superseded sessions that still recover
    OldProcessors, \* places for superseded sessions whose processor still runs
    Protection,    \* whether a controller update protection plugin is installed
    MaxDrops,      \* connection losses in a behaviour
    MaxBoots,      \* agent restarts
    MaxCrashes,    \* controller restarts
    MaxErrors,     \* failed protections and dispatch targets that do not load
    MaxGated       \* ExecuteUpdate messages the agent's update gate drops

ASSUME SetsAssumption ==
    /\ Updates \subseteq Nat
    /\ None \notin Nat /\ None \notin Batches
    /\ BatchOf \in [Updates -> Batches \cup {None}]
    /\ Resumable \subseteq Updates

\* The jobs of the current session and of the controller's own tasks.
Tasks == {"api", "processor", "recovery", "reaper", "restart", "startup"}

ASSUME PlacesAssumption ==
    /\ OldRecoveries \cap Tasks = {} /\ OldProcessors \cap Tasks = {}
    /\ OldRecoveries \cap OldProcessors = {}

ASSUME BoundsAssumption ==
    /\ Protection \in BOOLEAN
    /\ MaxDrops \in Nat /\ MaxBoots \in Nat /\ MaxCrashes \in Nat
    /\ MaxErrors \in Nat /\ MaxGated \in Nat

VARIABLES
    status,      \* update_history.status, "none" before the INSERT
    owner,       \* execution_owner_instance_id (the service is the host's agent)
    prot,        \* pre_update_protection_status IS NOT NULL
    batch,       \* update_batches.status, "none" before the INSERT
    req,         \* single-update requests: what host_busy was when it was read
    spawned,     \* orchestrators spawned for the row that have not looked at it
    orch,        \* the rows whose orchestrator runs protection
    work,        \* the controller's jobs that take several steps
    inst,        \* runtime_instance_id given to each session that recovers
    link,        \* the registered session: "setup" while it recovers, "dead" when
                 \* its connection is lost and its loop has not noticed
    toAgent,     \* ExecuteUpdate messages on the connection
    toCtl,       \* UpdateStarted and UpdateResult messages on the connection
    boot,        \* runtime_instance_id of the agent
    cur,         \* its in_flight_update
    early,       \* early_sent: the resumable result was sent
    succeeded,   \* history: rows an execution of which succeeded on the agent
    runs,        \* history: executions of the row, capped at two
    pushed,      \* history: rows sent to the agent while still Pending
    protected,   \* history: rows whose protection was carried out
    lost,        \* history: rows whose dispatch ended with a superseded session
    faults       \* what the bounds count

table == <<status, owner, prot, batch>>
agent == <<boot, cur, early, succeeded, runs>>
net == <<link, toAgent, toCtl>>
history == <<pushed, protected, lost>>
vars == <<table, req, spawned, orch, work, inst, net, agent, history, faults>>

Terminal == {"completed", "failed", "interrupted"}
HostBlocking == {"pending", "in_progress", "awaiting_restart"}
Unfinished == HostBlocking \cup {"queued"}

\* Who has a job: create_batch, the message processor of the current session, its
\* recovery on connect, the reaper sweep, the AwaitingRestart tick of the
\* scheduler, the recovery of a starting controller, and the recoveries and
\* processors of sessions that another one has superseded.
Recoveries == {"recovery"} \cup OldRecoveries
Workers == Tasks \cup OldRecoveries \cup OldProcessors

\* "queue": dispatch_next_queued_update.  "load": it has promoted row u and loads
\* its dispatch target.  "direct": at the head of the loop of
\* dispatch_next_queued_for_host.  "protect", "create": protection of row u is
\* running in that loop, in create_batch.  "interrupt", "orphans", "promote",
\* "replay": stages of recovery.  "rollout": startup has not begun.
Ops == {"idle", "busy", "free", "queue", "load", "direct", "protect", "create",
        "interrupt", "orphans", "promote", "replay", "rollout"}
Job(op, u, b) == [op |-> op, u |-> u, b |-> b]
Idle == Job("idle", None, None)

Kinds == {"started", "completed", "failed", "restart"}
Faults == {"drops", "crashes", "errors", "gated"}

TypeOK ==
    /\ status \in [Updates -> Unfinished \cup Terminal \cup {"none"}]
    /\ owner \in [Updates -> Nat \cup {None}]
    /\ prot \in [Updates -> BOOLEAN]
    /\ batch \in [Batches -> {"none", "in_progress", "completed", "partially_completed"}]
    /\ req \in [Updates -> {"none", "busy", "free"}]
    /\ spawned \in [Updates -> Nat]
    /\ orch \in SUBSET Updates
    /\ work \in [Workers -> [op : Ops, u : Updates \cup {None}, b : Batches \cup {None}]]
    /\ inst \in [Recoveries -> Nat]
    /\ link \in {"down", "setup", "up", "dead"}
    /\ toAgent \in Seq(Updates)
    /\ toCtl \in Seq([kind : Kinds, u : Updates])
    /\ boot \in Nat
    /\ cur \in Updates \cup {None}
    /\ early \in BOOLEAN
    /\ succeeded \in SUBSET Updates
    /\ runs \in [Updates -> 0 .. 2]
    /\ pushed \in SUBSET Updates
    /\ protected \in SUBSET Updates
    /\ lost \in SUBSET Updates
    /\ faults \in [Faults -> Nat]

Init ==
    /\ status = [u \in Updates |-> "none"]
    /\ owner = [u \in Updates |-> None]
    /\ prot = [u \in Updates |-> FALSE]
    /\ batch = [b \in Batches |-> "none"]
    /\ req = [u \in Updates |-> "none"]
    /\ spawned = [u \in Updates |-> 0]
    /\ orch = {}
    /\ work = [w \in Workers |-> Idle]
    /\ inst = [w \in Recoveries |-> 0]
    /\ link = "down" /\ toAgent = <<>> /\ toCtl = <<>>
    /\ boot = 0 /\ cur = None /\ early = FALSE
    /\ succeeded = {}
    /\ runs = [u \in Updates |-> 0]
    /\ pushed = {} /\ protected = {} /\ lost = {}
    /\ faults = [f \in Faults |-> 0]

-----------------------------------------------------------------------------
(* The table and its two unique partial indexes. *)

\* Mutant: an index that does not cover Pending.
HostFreeWhilePending ==
    \A v \in Updates : status[v] \notin {"in_progress", "awaiting_restart"}

\* uix_update_history_host_active lets a row become Pending.
HostFree == \A v \in Updates : status[v] \notin HostBlocking

\* Mutant: the item's index with the statuses of the host's.
ItemFreeWhileQueued(u) ==
    \A v \in Updates : ItemOf[v] = ItemOf[u] => status[v] \notin HostBlocking

\* The index on (host_id, software_item_id) lets row u be inserted.
ItemFree(u) == \A v \in Updates : ItemOf[v] = ItemOf[u] => status[v] \notin Unfinished

Queued == {u \in Updates : status[u] = "queued"}
IsOldestQueued(u) == u \in Queued /\ \A v \in Queued : u <= v

RowsOf(b) == {u \in Updates : BatchOf[u] = b}

\* Mutant: a Pending row is not counted as unfinished.
CompleteBatchDespitePending(b, st) ==
    IF /\ b # None
       /\ batch[b] = "in_progress"
       /\ \A u \in RowsOf(b) : st[u] \in Terminal \cup {"pending"}
    THEN [batch EXCEPT ![b] = "completed"]
    ELSE batch

\* maybe_complete_batch, after statuses became st.  Interrupted items do not
\* count as failed.
maybe_complete_batch(b, st) ==
    IF /\ b # None
       /\ batch[b] = "in_progress"
       /\ \A u \in RowsOf(b) : st[u] \in Terminal
    THEN [batch EXCEPT ![b] = IF \E u \in RowsOf(b) : st[u] = "failed"
                              THEN "partially_completed" ELSE "completed"]
    ELSE batch

Fault(f, max) == faults[f] < max /\ faults' = [faults EXCEPT ![f] = @ + 1]
Error == Fault("errors", MaxErrors)

Goto(w, job) == work' = [work EXCEPT ![w] = job]

\* The controller serves and its background tasks run only after startup.
Serving == work["startup"] = Idle

\* Where a job goes when its dispatching is over: recovery still replays.
After(w) == IF w \in Recoveries THEN Job("replay", None, None) ELSE Idle

\* The successor job of a row that has just ended, by the row's batch_id.
Successor(w, u) ==
    IF BatchOf[u] # None THEN Job("direct", None, BatchOf[u])
    ELSE Job(IF w \in Recoveries THEN "promote" ELSE "queue", None, None)

\* The agent has a connection that works.
Connected == link \in {"setup", "up"}

\* ConnectionRegistry::send: queued for the registered session, whichever session
\* the sender belongs to; what a dead one has queued is lost.
Send(u) == toAgent' = IF Connected THEN Append(toAgent, u) ELSE toAgent

-----------------------------------------------------------------------------
(* API requests. *)

\* trigger_update_for_host up to the read of host_busy; with an unfinished row
\* for the item it answers 409 and changes nothing.
TriggerUpdate(u) ==
    /\ Serving
    /\ BatchOf[u] = None /\ status[u] = "none" /\ req[u] = "none"
    /\ ItemFree(u)
    /\ req' = [req EXCEPT ![u] = IF HostFree THEN "free" ELSE "busy"]
    /\ UNCHANGED <<table, spawned, orch, work, inst, net, agent, history, faults>>

\* The rest of it: Queued behind a busy host; else Pending, or Queued when a
\* concurrent insert took the slot.  A second row for the item is refused.
InsertUpdate(u) ==
    /\ req[u] # "none"
    /\ req' = [req EXCEPT ![u] = "none"]
    /\ \/ /\ ~ItemFree(u)
          /\ UNCHANGED <<status, spawned>>
       \/ /\ ItemFree(u) /\ (req[u] = "busy" \/ ~HostFree)
          /\ status' = [status EXCEPT ![u] = "queued"]
          /\ UNCHANGED spawned
       \/ /\ ItemFree(u) /\ req[u] = "free" /\ HostFree
          /\ status' = [status EXCEPT ![u] = "pending"]
          /\ spawned' = [spawned EXCEPT ![u] = @ + 1]
    /\ UNCHANGED <<owner, prot, batch, orch, work, inst, net, agent, history, faults>>

\* create_batch up to the read of externally_busy_hosts.
CreateBatch(b) ==
    /\ Serving /\ work["api"] = Idle /\ batch[b] = "none"
    /\ Goto("api", Job(IF HostFree THEN "free" ELSE "busy", None, b))
    /\ UNCHANGED <<table, req, spawned, orch, inst, net, agent, history, faults>>

\* Its transaction: every row Queued behind a busy host; else the first one
\* Pending.  A violated index rolls everything back and the request fails.
InsertBatch(b) ==
    LET busy == work["api"].op = "busy"
        ok == /\ busy \/ HostFree
              /\ \A u \in RowsOf(b) : ItemFree(u)
              /\ \A u, v \in RowsOf(b) : ItemOf[u] = ItemOf[v] => u = v
        First(u) == \A v \in RowsOf(b) : u <= v
    IN  /\ work["api"].op \in {"busy", "free"} /\ work["api"].b = b
        /\ \/ /\ ~ok
              /\ Goto("api", Idle)
              /\ UNCHANGED <<status, batch>>
           \/ /\ ok
              /\ batch' = [batch EXCEPT ![b] = "in_progress"]
              /\ status' = [u \in Updates |->
                              IF u \notin RowsOf(b) THEN status[u]
                              ELSE IF First(u) /\ ~busy THEN "pending" ELSE "queued"]
              /\ \/ busy /\ Goto("api", Idle)
                 \/ ~busy /\ \E u \in RowsOf(b) :
                                First(u) /\ Goto("api", Job("create", u, b))
        /\ UNCHANGED <<owner, prot, req, spawned, orch, inst, net, agent, history, faults>>

-----------------------------------------------------------------------------
(* Orchestrators: run_protection_and_dispatch. *)

\* Mutant: the orchestrator takes over a row that is InProgress already.
TakesActiveRow(u) == link # "down" /\ status[u] \in {"pending", "in_progress"}

\* The agent is connected and the CAS Pending -> InProgress succeeds, which at
\* most one orchestrator of a row sees.
TakesRow(u) == link # "down" /\ status[u] = "pending"

\* An offline agent, or a row that is no longer Pending, is left alone.
OrchestratorBegin(u) ==
    /\ spawned[u] > 0
    /\ spawned' = [spawned EXCEPT ![u] = @ - 1]
    /\ \/ /\ ~TakesRow(u)
          /\ UNCHANGED <<status, owner, prot, orch>>
       \/ /\ TakesRow(u)
          /\ status' = [status EXCEPT ![u] = "in_progress"]
          /\ owner' = [owner EXCEPT ![u] = None]
          /\ prot' = [prot EXCEPT ![u] = TRUE]
          /\ orch' = orch \cup {u}
    /\ UNCHANGED <<batch, req, work, inst, net, agent, history, faults>>

\* Protection is over and ExecuteUpdate is sent; nothing asks whether the row
\* is still InProgress, and an agent that is gone leaves it so.
OrchestratorProceed(u) ==
    /\ u \in orch
    /\ orch' = orch \ {u}
    /\ protected' = protected \cup {u}
    /\ Send(u)
    /\ UNCHANGED <<table, req, spawned, work, inst, link, toCtl, agent, pushed, lost, faults>>

\* fail_before_agent_dispatch after a failed protection or a dispatch error: an
\* UPDATE by id with no condition on the status, and no successor.
OrchestratorFail(u) ==
    /\ u \in orch
    /\ Error
    /\ orch' = orch \ {u}
    /\ status' = [status EXCEPT ![u] = "failed"]
    /\ UNCHANGED <<owner, prot, batch, req, spawned, work, inst, net, agent, history>>

-----------------------------------------------------------------------------
(* Successor dispatch. *)

\* dispatch_next_queued_update: the oldest Queued row becomes Pending; the job
\* ends when the index refuses the promotion.
DispatchQueued(w) ==
    /\ work[w].op = "queue"
    /\ \/ /\ Queued = {} \/ ~HostFree
          /\ Goto(w, Idle)
          /\ UNCHANGED status
       \/ /\ HostFree
          /\ \E u \in Queued :
                /\ IsOldestQueued(u)
                /\ status' = [status EXCEPT ![u] = "pending"]
                /\ Goto(w, Job("load", u, None))
    /\ UNCHANGED <<owner, prot, batch, req, spawned, orch, inst, net, agent, history, faults>>

\* Then it gets an orchestrator.  If its target does not load it is Failed by id
\* and the job ends without trying another row.
SpawnQueued(w) ==
    LET u == work[w].u
    IN  /\ work[w].op = "load"
        /\ Goto(w, Idle)
        /\ \/ /\ spawned' = [spawned EXCEPT ![u] = @ + 1]
              /\ UNCHANGED <<status, faults>>
           \/ /\ Error
              /\ status' = [status EXCEPT ![u] = "failed"]
              /\ UNCHANGED spawned
        /\ UNCHANGED <<owner, prot, batch, req, orch, inst, net, agent, history>>

\* The head of the loop of dispatch_next_queued_for_host.  Nothing queued: the
\* caller's batch is settled.  Index refuses: the error skips even that.  Target
\* does not load: the row is Failed, its batch settled, the loop goes on.
DispatchDirect(w) ==
    /\ work[w].op = "direct"
    /\ \/ /\ Queued = {}
          /\ batch' = maybe_complete_batch(work[w].b, status)
          /\ Goto(w, After(w))
          /\ UNCHANGED <<status, faults>>
       \/ /\ Queued # {} /\ ~HostFree
          /\ Goto(w, After(w))
          /\ UNCHANGED <<status, batch, faults>>
       \/ /\ HostFree
          /\ \E u \in Queued :
                /\ IsOldestQueued(u)
                /\ \/ /\ status' = [status EXCEPT ![u] = "pending"]
                      /\ Goto(w, Job("protect", u, work[w].b))
                      /\ UNCHANGED <<batch, faults>>
                   \/ /\ Error
                      /\ status' = [status EXCEPT ![u] = "failed"]
                      /\ batch' = maybe_complete_batch(BatchOf[u], status')
                      /\ UNCHANGED work
    /\ UNCHANGED <<owner, prot, req, spawned, orch, inst, net, agent, history>>

\* Mutant: the row is marked although no plugin protected it.
DirectProceedMarked(w) ==
    LET u == work[w].u
    IN  /\ work[w].op \in {"protect", "create"}
        /\ prot' = [prot EXCEPT ![u] = TRUE]
        /\ protected' = IF w = "restart" THEN protected ELSE protected \cup {u}
        /\ Send(u) /\ pushed' = pushed \cup {u}
        /\ batch' = maybe_complete_batch(work[w].b, status)
        /\ Goto(w, After(w))
        /\ UNCHANGED <<status, owner, req, spawned, orch, inst, link, toCtl, agent, lost,
                       faults>>

\* Protection passed while the row was Pending.  ExecuteUpdate is sent and the
\* row left Pending, except by recovery, whose notifier sends nothing.  The
\* AwaitingRestart tick passes no protection plugin.
DirectProceed(w) ==
    LET u == work[w].u
        guarded == Protection /\ w # "restart"
    IN  /\ work[w].op \in {"protect", "create"}
        /\ prot' = [prot EXCEPT ![u] = @ \/ guarded]
        /\ protected' = IF w = "restart" THEN protected ELSE protected \cup {u}
        /\ IF w \in Recoveries THEN UNCHANGED <<toAgent, pushed>>
           ELSE Send(u) /\ pushed' = pushed \cup {u}
        /\ batch' = IF work[w].op = "create" THEN batch
                    ELSE maybe_complete_batch(work[w].b, status)
        /\ Goto(w, After(w))
        /\ UNCHANGED <<status, owner, req, spawned, orch, inst, link, toCtl, agent, lost,
                       faults>>

\* Protection, or the dispatch itself, failed: Failed by id whatever the row has
\* become meanwhile, then the loop goes on (create_batch enters it).
DirectFail(w) ==
    LET u == work[w].u
    IN  /\ work[w].op \in {"protect", "create"}
        /\ Error
        /\ status' = [status EXCEPT ![u] = "failed"]
        /\ prot' = [prot EXCEPT ![u] = @ \/ (Protection /\ w # "restart")]
        /\ batch' = IF work[w].op = "create" THEN batch
                    ELSE maybe_complete_batch(BatchOf[u], status')
        /\ Goto(w, Job("direct", None, work[w].b))
        /\ UNCHANGED <<owner, req, spawned, orch, inst, net, agent, history>>

-----------------------------------------------------------------------------
(* Connecting, and recovery on connect. *)

\* Where the job of a session goes when another session takes its place.
Places(w, old) == IF work[w] = Idle THEN {w} ELSE {x \in old : work[x] = Idle}

\* on_connected sends Register and repeats UpdateStarted of the update in
\* flight.  The controller registers the session before it recovers, in place of
\* one whose loss it has not noticed: what that one is doing goes on beside it.
AgentConnect ==
    /\ Serving /\ ~Connected
    /\ link' = "setup"
    /\ toCtl' = IF cur = None THEN <<>> ELSE <<[kind |-> "started", u |-> cur]>>
    /\ \E r \in Places("recovery", OldRecoveries), p \in Places("processor", OldProcessors) :
          /\ work' = [work EXCEPT ![r] = work["recovery"], ![p] = work["processor"],
                                  !["processor"] = Idle,
                                  !["recovery"] = Job("interrupt", None, None)]
          /\ inst' = [inst EXCEPT ![r] = inst["recovery"], !["recovery"] = boot]
    /\ UNCHANGED <<table, req, spawned, orch, toAgent, agent, history, faults>>

\* mark_owned_in_progress_as_interrupted_on_reconnect: the rows of other
\* instances of the agent than the one that connected.
InterruptOwned(w) ==
    LET S == {u \in Updates : /\ status[u] = "in_progress"
                              /\ owner[u] \notin {None, inst[w]}}
    IN  /\ work[w].op = "interrupt"
        /\ status' = [u \in Updates |-> IF u \in S THEN "interrupted" ELSE status[u]]
        /\ \/ S = {} /\ Goto(w, Job("orphans", None, None))
           \/ \E u \in S : Goto(w, Job("orphans", u, None))
        /\ UNCHANGED <<owner, prot, batch, req, spawned, orch, inst, net, agent, history, faults>>

\* mark_orchestrator_inprogress_as_failed_on_reconnect: the InProgress rows that
\* nobody owns, an orchestrator at work on them or not; no successor for these.
FailOrphans(w) ==
    LET S == {u \in Updates : status[u] = "in_progress" /\ owner[u] = None}
        done == work[w].u
    IN  /\ work[w].op = "orphans"
        /\ status' = [u \in Updates |-> IF u \in S THEN "failed" ELSE status[u]]
        /\ prot' = [u \in Updates |-> prot[u] \/ u \in S]
        /\ Goto(w, IF done = None THEN After(w) ELSE Successor(w, done))
        /\ UNCHANGED <<owner, batch, req, spawned, orch, inst, net, agent, history, faults>>

\* dispatch_next_queued_update_for_replay.
PromoteForReplay(w) ==
    /\ work[w].op = "promote"
    /\ Goto(w, After(w))
    /\ \/ /\ Queued = {} \/ ~HostFree
          /\ UNCHANGED status
       \/ /\ HostFree
          /\ \E u \in Queued : /\ IsOldestQueued(u)
                               /\ status' = [status EXCEPT ![u] = "pending"]
    /\ UNCHANGED <<owner, prot, batch, req, spawned, orch, inst, net, agent, history, faults>>

\* Mutant: a Pending row that was not protected yet is not replayed.
ReplayProtected(w) ==
    LET P == {u \in Updates : status[u] = "pending" /\ prot[u]}
    IN  /\ work[w].op = "replay"
        /\ Goto(w, Idle)
        /\ link' = IF w = "recovery" /\ link = "setup" THEN "up" ELSE link
        /\ \/ P = {} /\ UNCHANGED <<toAgent, pushed>>
           \/ \E u \in P : Send(u) /\ pushed' = pushed \cup {u}
        /\ UNCHANGED <<table, req, spawned, orch, inst, toCtl, agent, protected, lost, faults>>

\* prepare_pending_replay_messages for the host's Pending row: an orchestrator
\* if protection has not run, else ExecuteUpdate, written to the session's own
\* socket ahead of what the registry has queued.  Then the message processor
\* starts; that of a superseded session ends at once.
ReplayPending(w) ==
    LET P == {u \in Updates : status[u] = "pending"}
    IN  /\ work[w].op = "replay"
        /\ Goto(w, Idle)
        /\ link' = IF w = "recovery" /\ link = "setup" THEN "up" ELSE link
        /\ \/ P = {} /\ UNCHANGED <<spawned, toAgent, pushed, lost>>
           \/ \E u \in P :
                \/ /\ ~prot[u]
                   /\ spawned' = [spawned EXCEPT ![u] = @ + 1]
                   /\ UNCHANGED <<toAgent, pushed, lost>>
                \/ /\ prot[u]
                   /\ toAgent' = IF w = "recovery" /\ Connected THEN <<u>> \o toAgent
                                 ELSE toAgent
                   /\ pushed' = pushed \cup {u}
                   /\ lost' = IF w = "recovery" THEN lost ELSE lost \cup {u}
                   /\ UNCHANGED spawned
        /\ UNCHANGED <<table, req, orch, inst, toCtl, agent, protected, faults>>

\* fail_unreplayable_pending_update: the target of the Pending row does not load.
FailUnreplayable(w, u) ==
    /\ work[w].op = "replay" /\ status[u] = "pending"
    /\ Error
    /\ status' = [status EXCEPT ![u] = "failed"]
    /\ Goto(w, Successor(w, u))
    /\ UNCHANGED <<owner, prot, batch, req, spawned, orch, inst, net, agent, history>>

-----------------------------------------------------------------------------
(* The end of a session, of the controller and of the agent.  What the agent
   had sent and the processor not begun to handle is lost with the connection. *)

\* The connection is gone; a registration stays until its loop notices.
LoseLink ==
    /\ link' = IF link = "down" THEN link ELSE "dead"
    /\ toAgent' = <<>> /\ toCtl' = <<>>

\* The connection breaks, and what is under way on it is lost.
Disconnect ==
    /\ Connected /\ Fault("drops", MaxDrops)
    /\ LoseLink
    /\ UNCHANGED <<table, req, spawned, orch, work, inst, agent, history>>

\* cleanup_authenticated_session, once the loop runs and sees the loss: the
\* processor is cancelled wherever it is, then the registration removed.
EndSession ==
    /\ link = "dead" /\ work["recovery"] = Idle
    /\ link' = "down"
    /\ Goto("processor", Idle)
    /\ UNCHANGED <<table, req, spawned, orch, inst, toAgent, toCtl, agent, history, faults>>

\* finalize_authenticated_session of a superseded session does the same to its
\* processor, also between a promotion and the dispatch of the promoted row.
CancelProcessor(w) ==
    /\ work[w] # Idle
    /\ Goto(w, Idle)
    /\ lost' = IF work[w].op \in {"load", "protect"} THEN lost \cup {work[w].u} ELSE lost
    /\ UNCHANGED <<table, req, spawned, orch, inst, net, agent, pushed, protected, faults>>

\* The controller dies and starts again: its tasks are gone, the tables stay.
ControllerCrash ==
    /\ Fault("crashes", MaxCrashes)
    /\ link' = "down" /\ toAgent' = <<>> /\ toCtl' = <<>>
    /\ req' = [u \in Updates |-> "none"]
    /\ spawned' = [u \in Updates |-> 0]
    /\ orch' = {}
    /\ work' = [w \in Workers |-> IF w = "startup" THEN Job("rollout", None, None) ELSE Idle]
    /\ UNCHANGED <<table, inst, agent, history>>

\* mark_all_in_progress_as_interrupted_for_rollout and what recovery::run does
\* with the row: every InProgress row, alive on its agent or not, ends before
\* the agent can connect, and the host's queue is dispatched.
RolloutCleanup ==
    LET S == {u \in Updates : status[u] = "in_progress"}
    IN  /\ work["startup"].op = "rollout"
        /\ status' = [u \in Updates |-> IF u \in S THEN "interrupted" ELSE status[u]]
        /\ \/ S = {} /\ Goto("startup", Idle)
           \/ \E u \in S : Goto("startup", Job("direct", None, BatchOf[u]))
        /\ UNCHANGED <<owner, prot, batch, req, spawned, orch, inst, net, agent, history, faults>>

-----------------------------------------------------------------------------
(* The agent: its runtime handles controller messages and events one by one. *)

Tell(kind, u) == toCtl' = Append(toCtl, [kind |-> kind, u |-> u])

\* handle_execute_update: any update in flight, this very one included, makes
\* the agent answer Failed; otherwise it starts and says so.
AgentExecute ==
    LET u == Head(toAgent)
    IN  /\ toAgent # <<>>
        /\ toAgent' = Tail(toAgent)
        /\ \/ /\ cur # None
              /\ Tell("failed", u)
              /\ UNCHANGED <<cur, early, runs>>
           \/ /\ cur = None
              /\ cur' = u /\ early' = FALSE
              /\ runs' = [runs EXCEPT ![u] = IF @ < 2 THEN @ + 1 ELSE @]
              /\ Tell("started", u)
        /\ UNCHANGED <<table, req, spawned, orch, work, inst, link, boot, succeeded, history,
                       faults>>

\* The update gate (freeze file, cooldown): the message is dropped unanswered.
AgentGate ==
    /\ toAgent # <<>> /\ Fault("gated", MaxGated)
    /\ toAgent' = Tail(toAgent)
    /\ UNCHANGED <<table, req, spawned, orch, work, inst, link, toCtl, agent, history>>

\* UpdateEvent::EarlyResult of a resumable update.
AgentEarlyResult ==
    /\ Connected /\ cur \in Resumable /\ ~early
    /\ early' = TRUE
    /\ succeeded' = succeeded \cup {cur}
    /\ Tell("restart", cur)
    /\ UNCHANGED <<table, req, spawned, orch, work, inst, link, toAgent, boot, cur, runs,
                   history, faults>>

\* UpdateEvent::Completed: in_flight_update is taken and the result sent, unless
\* an early one was.  Events are handled while a session is open.
AgentFinish(kind) ==
    /\ Connected /\ cur # None
    /\ cur' = None /\ early' = FALSE
    /\ IF early THEN UNCHANGED <<toCtl, succeeded>>
       ELSE /\ Tell(kind, cur)
            /\ succeeded' = IF kind = "completed" THEN succeeded \cup {cur} ELSE succeeded
    /\ UNCHANGED <<table, req, spawned, orch, work, inst, link, toAgent, boot, runs,
                   history, faults>>

\* The process dies with whatever it executes and returns as a new instance.
AgentRestart ==
    /\ boot < MaxBoots
    /\ boot' = boot + 1 /\ cur' = None /\ early' = FALSE
    /\ LoseLink
    /\ UNCHANGED <<table, req, spawned, orch, work, inst, succeeded, runs, history, faults>>

-----------------------------------------------------------------------------
(* The message processor of the connection. *)

Receive(kinds, u) ==
    /\ link = "up" /\ work["processor"] = Idle
    /\ toCtl # <<>>
    /\ Head(toCtl).kind \in kinds /\ Head(toCtl).u = u
    /\ toCtl' = Tail(toCtl)

\* Mutant: any row without an owner can be claimed.
ClaimableWhenUnowned(u) == owner[u] = None

\* claim_or_replay_update_start_db: Pending, or InProgress with no owner.
Claimable(u) == status[u] \in {"pending", "in_progress"} /\ owner[u] = None

\* handle_update_started: the row is claimed for this instance of the agent; a
\* repetition, and a start of a row that has ended, change nothing.
HandleStarted(u) ==
    /\ Receive({"started"}, u)
    /\ status' = [status EXCEPT ![u] = IF Claimable(u) THEN "in_progress" ELSE @]
    /\ owner' = [owner EXCEPT ![u] = IF Claimable(u) THEN boot ELSE @]
    /\ UNCHANGED <<prot, batch, req, spawned, orch, work, inst, link, toAgent, agent,
                   history, faults>>

\* transition_to_awaiting_restart applies to a resumable result.
CanAwaitRestart(u) == status[u] = "in_progress" /\ owner[u] # None

\* owned_finalizable_condition: Interrupted rows included, so that a late result
\* replaces what the reaper assumed.
Finalizable(u) == status[u] \in {"in_progress", "interrupted"} /\ owner[u] = boot

\* Mutant: no fallback for a row the agent never started.
NeverUnstarted(u) == FALSE

\* fail_pending_unowned_update applies to a failure.
Unstarted(u) == status[u] = "pending" /\ owner[u] = None

\* Mutants: the result's outcome is ignored, or stored under its own name.
AlwaysCompleted(kind) == "completed"
OutcomeAsStatus(kind) == kind

\* The status an applied result gives.
FinalStatus(kind) == IF kind = "failed" THEN "failed" ELSE "completed"

\* handle_update_result.  A result for a row that is none of these is dropped.
HandleResult(u) ==
    LET kind == Head(toCtl).kind
        applies == Finalizable(u) \/ (kind = "failed" /\ Unstarted(u))
    IN  /\ Receive({"completed", "failed", "restart"}, u)
        /\ \/ /\ kind = "restart" /\ CanAwaitRestart(u)
              /\ status' = [status EXCEPT ![u] = "awaiting_restart"]
              /\ UNCHANGED work
           \/ /\ ~(kind = "restart" /\ CanAwaitRestart(u)) /\ applies
              /\ status' = [status EXCEPT ![u] = FinalStatus(kind)]
              /\ Goto("processor", Successor("processor", u))
           \/ /\ ~(kind = "restart" /\ CanAwaitRestart(u)) /\ ~applies
              /\ UNCHANGED <<status, work>>
        /\ UNCHANGED <<owner, prot, batch, req, spawned, orch, inst, link, toAgent, agent,
                       history, faults>>

\* apply_awaiting_restart_version_check with a version that answers the question,
\* and the host progression that follows, which is direct in either case.
HandleVersionCheck(u) ==
    /\ link = "up" /\ work["processor"] = Idle
    /\ status[u] = "awaiting_restart"
    /\ \E final \in {"completed", "failed"} : status' = [status EXCEPT ![u] = final]
    /\ Goto("processor", Job("direct", None, BatchOf[u]))
    /\ UNCHANGED <<owner, prot, batch, req, spawned, orch, inst, net, agent, history, faults>>

-----------------------------------------------------------------------------
(* Background sweeps. *)

\* enforce_timeouts of the AwaitingRestart tick; signal_host_progression names
\* no batch.
RestartTimeout(u) ==
    /\ Serving /\ work["restart"] = Idle /\ status[u] = "awaiting_restart"
    /\ status' = [status EXCEPT ![u] = "failed"]
    /\ Goto("restart", Job("direct", None, None))
    /\ UNCHANGED <<owner, prot, batch, req, spawned, orch, inst, net, agent, history, faults>>

\* Only the batch of a reaped row is advanced, and for InProgress rows only if
\* they have an owner.
AfterReap(u, advance) ==
    Goto("reaper", IF BatchOf[u] # None /\ advance THEN Job("direct", None, BatchOf[u])
                   ELSE Idle)

\* Mutant: rows with an owner are left to reconnect recovery.
ReapableUnowned(u) == status[u] = "in_progress" /\ owner[u] = None

\* The rows the budget applies to.
Reapable(u) == status[u] = "in_progress"

\* reap_overdue_updates, on a row past its budget.
ReapOverdue(u) ==
    /\ Serving /\ work["reaper"] = Idle /\ Reapable(u)
    /\ status' = [status EXCEPT ![u] = "interrupted"]
    /\ AfterReap(u, owner[u] # None)
    /\ UNCHANGED <<owner, prot, batch, req, spawned, orch, inst, net, agent, history, faults>>

\* reap_stalled_pending_updates, on an old row whose agent is not connected.
ReapPending(u) ==
    /\ Serving /\ work["reaper"] = Idle /\ status[u] = "pending" /\ link = "down"
    /\ status' = [status EXCEPT ![u] = "interrupted"]
    /\ AfterReap(u, TRUE)
    /\ UNCHANGED <<owner, prot, batch, req, spawned, orch, inst, net, agent, history, faults>>

-----------------------------------------------------------------------------
RowStep(u) ==
    \/ TriggerUpdate(u) \/ InsertUpdate(u)
    \/ OrchestratorBegin(u) \/ OrchestratorProceed(u) \/ OrchestratorFail(u)
    \/ \E w \in Recoveries : FailUnreplayable(w, u)
    \/ HandleStarted(u) \/ HandleResult(u) \/ HandleVersionCheck(u)
    \/ RestartTimeout(u) \/ ReapOverdue(u) \/ ReapPending(u)

JobStep(w) ==
    \/ DispatchQueued(w) \/ SpawnQueued(w)
    \/ DispatchDirect(w) \/ DirectProceed(w) \/ DirectFail(w)

Recover(w) == InterruptOwned(w) \/ FailOrphans(w) \/ PromoteForReplay(w) \/ ReplayPending(w)

AgentStep ==
    \/ AgentConnect \/ AgentExecute \/ AgentGate \/ AgentEarlyResult
    \/ \E kind \in {"completed", "failed"} : AgentFinish(kind)
    \/ AgentRestart

Next ==
    \/ \E u \in Updates : RowStep(u)
    \/ \E b \in Batches : CreateBatch(b) \/ InsertBatch(b)
    \/ \E w \in Workers : JobStep(w)
    \/ \E w \in Recoveries : Recover(w)
    \/ AgentStep
    \/ Disconnect \/ EndSession \/ \E w \in OldProcessors : CancelProcessor(w)
    \/ ControllerCrash \/ RolloutCleanup

Spec == Init /\ [][Next]_vars

\* Requests, restarts and failures are never owed; everything the controller has
\* begun, the agent's runtime and its reconnect loop, and the sweeps go on.
FairSpec ==
    /\ Spec
    /\ \A u \in Updates :
          /\ WF_vars(InsertUpdate(u)) /\ WF_vars(OrchestratorBegin(u))
          /\ WF_vars(OrchestratorProceed(u) \/ OrchestratorFail(u))
          /\ WF_vars(HandleStarted(u) \/ HandleResult(u))
          /\ WF_vars(RestartTimeout(u)) /\ WF_vars(ReapOverdue(u))
    /\ \A b \in Batches : WF_vars(InsertBatch(b))
    /\ \A w \in Workers : WF_vars(JobStep(w))
    /\ \A w \in Recoveries : WF_vars(Recover(w))
    /\ WF_vars(EndSession) /\ \A w \in OldProcessors : WF_vars(CancelProcessor(w))
    /\ WF_vars(RolloutCleanup)
    /\ WF_vars(AgentConnect)
    /\ WF_vars(AgentExecute)
    /\ WF_vars(\E kind \in {"completed", "failed"} : AgentFinish(kind))

-----------------------------------------------------------------------------
(* What the lifecycle guarantees. *)

\* At most one row of the host is Pending, InProgress or AwaitingRestart,
\* through every statement that changes a status without asking the index.
OneActivePerHost ==
    \A u, v \in Updates :
        status[u] \in HostBlocking /\ status[v] \in HostBlocking => u = v

\* At most one unfinished row per software item, whichever requests race.
OneUnfinishedPerItem ==
    \A u, v \in Updates :
        ItemOf[u] = ItemOf[v] /\ {status[u], status[v]} \subseteq Unfinished => u = v

\* A row is Completed, or waits for a restart, only after an execution of it on
\* the agent succeeded: no recovery path and no mixed-up message invents it.
CompletedMeansDone ==
    \A u \in Updates :
        status[u] \in {"completed", "awaiting_restart"} => u \in succeeded

\* While the agent is connected a Pending row is never forgotten: somebody is
\* about to dispatch it, or its dispatch or the answer is on the wire.  Only two
\* things leave one behind: the agent's gate, which drops a dispatch without an
\* answer, and a superseded session that promoted the row after its successor
\* had looked for Pending rows, and was then ended before it dispatched it.
PendingIsAttended ==
    \A u \in Updates : status[u] = "pending" =>
        \/ ~Connected
        \/ faults["gated"] > 0 \/ u \in lost
        \/ \E w \in Recoveries : work[w] # Idle
        \/ spawned[u] > 0
        \/ \E w \in Workers : work[w].op \in {"load", "protect", "create"} /\ work[w].u = u
        \/ \E i \in DOMAIN toAgent : toAgent[i] = u
        \/ \E i \in DOMAIN toCtl : toCtl[i].u = u

\* An update the orchestrator sends is executed at most once, whatever is lost
\* and replayed; only rows sent while still Pending may run again.
RunsOnce == \A u \in Updates : runs[u] = 2 => u \in pushed

\* A Pending row that carries a protection status, which a replay sends to the
\* agent without protecting it again, was really protected, although the status
\* is written before, after or instead of the protection by five writers.
ReplayIsProtected ==
    \A u \in Updates : status[u] = "pending" /\ prot[u] => u \in protected

\* A batch is settled only when all its rows have ended, and they stay ended
\* although several statements write a status by id alone.
SettledBatchHasEnded ==
    \A b \in Batches : batch[b] \in {"completed", "partially_completed"} =>
        \A u \in RowsOf(b) : status[u] \in Terminal

\* An ended row never becomes unfinished again, and a Failed one stays Failed:
\* late starts and late results do not revive it.
EndedStaysEnded ==
    [][\A u \in Updates : /\ status[u] \in Terminal => status'[u] \in Terminal
                          /\ status[u] = "failed" => status'[u] = "failed"]_vars

\* The two ways a Pending row of a connected agent is left behind: no sweep looks
\* at it, so it blocks the host until the agent's next connection.
Forgotten(u) ==
    status[u] = "pending" /\ link = "up" /\ (u \in lost \/ faults["gated"] > 0)

\* A row that blocks the host stops doing so eventually, whatever is lost or
\* dies, unless it is one of those for ever: the answer, recovery, the restart
\* timeout or a sweep ends every other row.
SlotFrees ==
    \A u \in Updates : []<>(status[u] \notin HostBlocking) \/ <>[]Forgotten(u)

-----------------------------------------------------------------------------
(* What documentation or comments say of the lifecycle and the code breaks. *)

\* A connection loss does not end an update that goes on running on the host.
LiveUpdateNotFailed ==
    \A u \in Updates : cur = u /\ ~early => status[u] # "failed"
=============================================================================
