------------------------------- MODULE AgentLoop -------------------------------
(***************************************************************************)
(* An agent process: the event loop of the service SDK on its connection   *)
(* to the controller (crates/shared/service-sdk/src/event_loop.rs, the     *)
(* reconnect loop of lifecycle.rs) and the guarded background operations   *)
(* (BackgroundOps, crates/shared/agent-core/src/client.rs), version checks *)
(* and discoveries that outlive a connection and hand their results to the *)
(* loop through a bounded channel.                                         *)
(*                                                                         *)
(* Time is the age of a run in ticks; a timer that is due fires before the *)
(* next tick.  The in-operation deadline begins when the work begins,      *)
(* which for the SSH agent is after it has acquired a session, while the   *)
(* dedup window and the cancellation begin at the dispatch.                *)
(***************************************************************************)
EXTENDS Naturals, Sequences, FiniteSets

CONSTANTS
    Slots,            \* bound: guarded runs at a time
    Scopes,           \* what a dispatch asks for: a kind and a set of items
    Budget,           \* VERSION_CHECK_OP_TIMEOUT, DISCOVERY_OP_TIMEOUT
    Grace,            \* OP_DEADLINE_GRACE
    AbortGrace,       \* BG_OP_ABORT_GRACE
    MaxSetup,         \* longest setup of a run that is not hung
    ChannelCap,       \* capacity of the bg_tx channel
    MaxConsecutive,   \* MAX_CONSECUTIVE_SERVICE_EVENTS
    MissedPongLimit,  \* MISSED_PONG_LIMIT
    MaxInbox          \* bound: messages of the controller under way

ASSUME AgentAssumption ==
    /\ \A s \in Scopes : s.kind \in {"check", "discovery"}
    /\ {Budget, AbortGrace, ChannelCap, MaxConsecutive, MissedPongLimit, MaxInbox}
           \subseteq Nat \ {0}
    /\ {Grace, MaxSetup} \subseteq Nat
    /\ MaxSetup < AbortGrace

VARIABLES
    st,           \* st[x]: the task in slot x
    scope,        \* scope[x]: what it was asked
    age,          \* age[x]: ticks since it was spawned
    setup,        \* setup[x]: ticks before its work began
    hung,         \* slots whose setup never ends
    entries,      \* slots with an entry in the BgOpMap
    results,      \* results in the bg channel
    loop,         \* "up": run_event_loop_connected; "down": reconnect delay
    link,         \* the connection of the loop
    pinging,      \* whether ping_timer is set
    pingDue,      \* whether it has ticked
    outstanding,  \* outstanding_pings
    consecutive,  \* consecutive_service_events
    inbox,        \* controller messages not yet received
    output        \* whether the in-flight update has an event ready

opVars == <<st, scope, age, setup, hung, entries>>
loopVars == <<loop, link, pinging, pingDue, outstanding, consecutive, inbox>>
vars == <<opVars, results, loopVars, output>>

Window == Budget + Grace

\* Mutant: the task is cancelled at the end of the dedup window.
CancelAtWindow == Window

(* cancel_at *)
CancelAfter == Window + AbortGrace

Running(x) == st[x] \in {"setup", "work"}
Free == {x \in Slots : st[x] \in {"free", "cancelled"}}
Plain(kind) == [kind |-> kind, items |-> {}]
NoScope == Plain("none")
Pong == Plain("pong")
Settings == Plain("settings")       \* ServiceSettings
Restarting == Plain("restarting")   \* ServerRestarting

TypeOK ==
    /\ st \in [Slots -> {"free", "setup", "work", "sending", "cancelled"}]
    /\ scope \in [Slots -> Scopes \cup {NoScope}]
    /\ age \in [Slots -> 0..CancelAfter]
    /\ setup \in [Slots -> 0..MaxSetup]
    /\ hung \subseteq Slots
    /\ entries \subseteq Slots
    /\ results \in 0..ChannelCap
    /\ loop \in {"up", "down"}
    /\ link \in {"open", "dead", "closed"}
    /\ pinging \in BOOLEAN
    /\ pingDue \in BOOLEAN
    /\ outstanding \in 0..MissedPongLimit
    /\ consecutive \in 0..MaxConsecutive
    /\ inbox \in Seq({Settings, Pong, Restarting} \cup Scopes)
    /\ output \in BOOLEAN

InAllSlots(v) == [x \in Slots |-> v]

Init ==
    /\ st = InAllSlots("free")
    /\ scope = InAllSlots(NoScope)
    /\ age = InAllSlots(0)
    /\ setup = InAllSlots(0)
    /\ hung = {}
    /\ entries = {}
    /\ results = 0
    /\ loop = "down"
    /\ link = "closed"
    /\ pinging = FALSE
    /\ pingDue = FALSE
    /\ outstanding = 0
    /\ consecutive = 0
    /\ inbox = <<>>
    /\ output = FALSE

-----------------------------------------------------------------------------
(* Guarded background operations.                                          *)

\* Mutant: the window ends with the bare budget.
CoversForBudget(x, s) ==
    /\ age[x] < Budget
    /\ scope[x].kind = s.kind
    /\ s.kind = "check" => s.items \subseteq scope[x].items

(* Whether the entry of x suppresses a dispatch: its dedup window has not  *)
(* ended and it has every item asked for, or it is a discovery.            *)
Covers(x, s) ==
    /\ age[x] < Window
    /\ scope[x].kind = s.kind
    /\ s.kind = "check" => s.items \subseteq scope[x].items

(* spawn_background_guarded, called by the loop with a dispatch. *)
Spawn(s) ==
    IF \E x \in entries : Covers(x, s)
    THEN UNCHANGED opVars
    ELSE \E x \in Free, h \in BOOLEAN :
            /\ st' = [st EXCEPT ![x] = "setup"]
            /\ scope' = [scope EXCEPT ![x] = s]
            /\ age' = [age EXCEPT ![x] = 0]
            /\ setup' = [setup EXCEPT ![x] = 0]
            /\ hung' = IF h THEN hung \cup {x} ELSE hung \ {x}
            /\ entries' = entries \cup {x}

(* The setup ends: the task is polled, and the SSH agent has a session. *)
Begin(x) ==
    /\ st[x] = "setup" /\ x \notin hung
    /\ st' = [st EXCEPT ![x] = "work"]
    /\ setup' = [setup EXCEPT ![x] = age[x]]
    /\ UNCHANGED <<scope, age, hung, entries, results, loopVars, output>>

(* The future of x is gone, and with it what it was about. *)
Ends(x, next) ==
    /\ st' = [st EXCEPT ![x] = next]
    /\ scope' = [scope EXCEPT ![x] = NoScope]
    /\ age' = [age EXCEPT ![x] = 0]
    /\ setup' = [setup EXCEPT ![x] = 0]
    /\ UNCHANGED <<hung, loopVars, output>>

\* Mutant: the entry goes when its result has a place in the channel.
ResolveWithRoom(x) ==
    /\ results < ChannelCap
    /\ Ends(x, "sending")
    /\ entries' = entries \ {x}
    /\ UNCHANGED results

(* The future has a result: the entry is removed before the send. *)
Resolve(x) ==
    /\ Ends(x, "sending")
    /\ entries' = entries \ {x}
    /\ UNCHANGED results

(* The work ends by itself, or the setup fails.  *)
Complete(x) ==
    /\ st[x] = "work" \/ (st[x] = "setup" /\ x \notin hung)
    /\ Resolve(x)

(* The timeout of run_check_versions and run_discover_software.            *)
Deadline(x) ==
    /\ st[x] = "work" /\ age[x] - setup[x] >= Window
    /\ Resolve(x)

(* timeout_at(cancel_at) polls the future first; without a result the      *)
(* future is dropped and nothing is sent.                                  *)
Cancel(x) ==
    /\ Running(x) /\ age[x] >= CancelAfter
    /\ ~(st[x] = "work" /\ age[x] - setup[x] >= Window)
    /\ Ends(x, "cancelled")
    /\ entries' = entries \ {x}
    /\ UNCHANGED results

(* bg_tx.send waits for room. *)
SendResult(x) ==
    /\ st[x] = "sending" /\ results < ChannelCap
    /\ results' = results + 1
    /\ Ends(x, "free")
    /\ UNCHANGED entries

(* Time passes, once every due timer has fired. *)
Tick ==
    /\ \A x \in Slots : Running(x) =>
          /\ age[x] < CancelAfter
          /\ st[x] = "work" => age[x] - setup[x] < Window
          /\ st[x] = "setup" /\ x \notin hung => age[x] < MaxSetup
    /\ \E x \in Slots : Running(x)
    /\ age' = [x \in Slots |-> IF Running(x) THEN age[x] + 1 ELSE age[x]]
    /\ UNCHANGED <<st, scope, setup, hung, entries, results, loopVars, output>>

-----------------------------------------------------------------------------
(* The event loop: a biased select, so an arm runs when it is ready and no *)
(* earlier arm is.                                                         *)

\* Mutant: service events do not use up their budget.
Uncounted == consecutive

Counted == consecutive + 1

(* poll_service and an event of the handler *)
ServiceReady ==
    /\ consecutive < MaxConsecutive
    /\ results > 0 \/ output

Reads == inbox # <<>> \/ link = "closed"

(* The loop breaks with Disconnected (or Reconnect). *)
Break ==
    /\ loop' = "down"
    /\ link' = "closed"
    /\ pinging' = FALSE /\ pingDue' = FALSE
    /\ outstanding' = 0 /\ consecutive' = 0
    /\ inbox' = <<>>

(* conn.send queues for the writer; once that has met an error or its time *)
(* limit, a send fails.                                                    *)
SendFails == link # "open"

(* Arm 1.  poll_event prefers the in-flight update; its output is sent     *)
(* best effort.  A result whose send fails is lost.                        *)
ServiceEvent ==
    /\ loop = "up" /\ ServiceReady
    /\ \/ /\ output /\ output' = FALSE
          /\ consecutive' = Counted
          /\ UNCHANGED <<results, loop, link, pinging, pingDue, outstanding, inbox>>
       \/ /\ ~output
          /\ results' = results - 1
          /\ consecutive' = Counted
          /\ UNCHANGED <<output, loop, link, pinging, pingDue, outstanding, inbox>>
       \/ /\ ~output /\ SendFails
          /\ results' = results - 1
          /\ Break
          /\ UNCHANGED output
    /\ UNCHANGED opVars

\* Mutant: one unanswered ping too many.
PingAgain ==
    /\ outstanding <= MissedPongLimit
    /\ outstanding' = outstanding + 1
    /\ pingDue' = FALSE /\ consecutive' = 0
    /\ inbox' = IF link = "open" THEN Append(inbox, Pong) ELSE inbox
    /\ UNCHANGED <<loop, link, pinging>>

(* The ping is sent.  A controller at the other end answers. *)
Ping ==
    /\ outstanding < MissedPongLimit
    /\ outstanding' = outstanding + 1
    /\ pingDue' = FALSE /\ consecutive' = 0
    /\ inbox' = IF link = "open" THEN Append(inbox, Pong) ELSE inbox
    /\ UNCHANGED <<loop, link, pinging>>

(* Arm 2 *)
Keepalive ==
    /\ loop = "up" /\ ~ServiceReady /\ pingDue
    /\ \/ Ping
       \/ (outstanding >= MissedPongLimit \/ SendFails) /\ Break
    /\ UNCHANGED <<opVars, results, output>>

(* Arm 4: handle_controller_message. *)
Receive ==
    /\ loop = "up" /\ ~ServiceReady /\ ~pingDue /\ inbox # <<>>
    /\ consecutive' = 0
    /\ inbox' = Tail(inbox)
    /\ \/ /\ Head(inbox) = Pong
          /\ outstanding' = 0
          /\ UNCHANGED <<opVars, pinging>>
       \/ /\ Head(inbox) = Settings
          /\ pinging' = TRUE
          /\ UNCHANGED <<opVars, outstanding>>
       \/ /\ Head(inbox) \in Scopes
          /\ Spawn(Head(inbox))
          /\ UNCHANGED <<pinging, outstanding>>
    /\ UNCHANGED <<results, loop, link, pingDue, output>>

(* The controller is restarting: the results in the channel are sent best  *)
(* effort, and the loop ends to connect again.                             *)
ReceiveRestarting ==
    /\ loop = "up" /\ ~ServiceReady /\ ~pingDue
    /\ inbox # <<>> /\ Head(inbox) = Restarting
    /\ results' = 0
    /\ Break
    /\ UNCHANGED <<opVars, output>>

(* The connection was closed, or reading fails. *)
ReceiveClosed ==
    /\ loop = "up" /\ ~ServiceReady /\ ~pingDue /\ inbox = <<>> /\ link = "closed"
    /\ Break
    /\ UNCHANGED <<opVars, results, output>>

(* Arm 5, or the loop is down: a signal.  The results in the channel are   *)
(* sent best effort, and the process ends and is started again.            *)
Signal ==
    /\ loop = "up" => ~ServiceReady /\ ~pingDue /\ ~Reads
    /\ Break
    /\ st' = InAllSlots("free")
    /\ scope' = InAllSlots(NoScope)
    /\ age' = InAllSlots(0)
    /\ setup' = InAllSlots(0)
    /\ hung' = {}
    /\ entries' = {}
    /\ results' = 0 /\ output' = FALSE

(* Arm 6 *)
Yield ==
    /\ loop = "up" /\ consecutive = MaxConsecutive /\ ~pingDue /\ ~Reads
    /\ consecutive' = 0
    /\ UNCHANGED <<opVars, results, loop, link, pinging, pingDue, outstanding, inbox,
                   output>>

LoopStep ==
    \/ ServiceEvent \/ Keepalive
    \/ Receive \/ ReceiveRestarting \/ ReceiveClosed \/ Yield

(* run_authenticated_with_reconnect connects again. *)
Reconnect ==
    /\ loop = "down"
    /\ loop' = "up" /\ link' = "open"
    /\ UNCHANGED <<opVars, results, pinging, pingDue, outstanding, consecutive, inbox,
                   output>>

PingTimer ==
    /\ loop = "up" /\ pinging /\ ~pingDue
    /\ pingDue' = TRUE
    /\ UNCHANGED <<opVars, results, loop, link, pinging, outstanding, consecutive, inbox,
                   output>>

-----------------------------------------------------------------------------
(* The other side and the network.                                         *)

Dispatches == {m \in 1..Len(inbox) : inbox[m] \in Scopes}

ControllerSends ==
    /\ loop = "up" /\ link = "open" /\ Len(inbox) < MaxInbox
    /\ \E m \in {Settings, Restarting} \cup Scopes :
          /\ m \in Scopes => Cardinality(Dispatches) < Cardinality(Free)
          /\ inbox' = Append(inbox, m)
    /\ UNCHANGED <<opVars, results, loop, link, pinging, pingDue, outstanding, consecutive,
                   output>>

(* The peer vanishes without a trace, or the connection is closed. *)
LoseLink ==
    /\ loop = "up" /\ link = "open"
    /\ link' \in {"dead", "closed"}
    /\ UNCHANGED <<opVars, results, loop, pinging, pingDue, outstanding, consecutive, inbox,
                   output>>

(* The in-flight update prints a line. *)
UpdateOutput ==
    /\ ~output /\ output' = TRUE
    /\ UNCHANGED <<opVars, results, loopVars>>

Task(x) == Begin(x) \/ Complete(x) \/ Deadline(x) \/ Cancel(x) \/ SendResult(x)

Next ==
    \/ \E x \in Slots : Task(x)
    \/ Tick
    \/ LoopStep \/ Signal \/ Reconnect \/ PingTimer
    \/ ControllerSends \/ LoseLink \/ UpdateOutput

Spec == Init /\ [][Next]_vars

(* Timers fire, tasks whose timer is due are polled, and the loop runs.    *)
(* Nothing is assumed about the controller, the network or the plugins.    *)
FairSpec ==
    /\ Spec
    /\ WF_vars(Tick) /\ WF_vars(PingTimer) /\ WF_vars(LoopStep)
    /\ \A x \in Slots : WF_vars(Begin(x)) /\ WF_vars(Deadline(x)) /\ WF_vars(Cancel(x))

-----------------------------------------------------------------------------
(* A run is overlapped by another one for what it covers only when it has  *)
(* no more of its in-operation time left than its setup took: the dedup    *)
(* window does not undercut the deadline of a run that began at once.      *)
OverlapOnlyLate ==
    \A x, y \in Slots :
        /\ x # y /\ st[x] = "work" /\ Running(y) /\ age[y] < age[x]
        /\ scope[x].kind = scope[y].kind
        /\ scope[y].kind = "check" => scope[y].items \subseteq scope[x].items
        => Window - (age[x] - setup[x]) <= setup[x]

(* Only a run that is hung is dropped without a result: any other one has  *)
(* met its own deadline, and handed over the timed-out result, before.     *)
CancelledWasHung == \A x \in Slots : st[x] = "cancelled" => x \in hung

(* An entry is always removed, even if the loop is down for good and the   *)
(* channel is full: a stalled receiver cannot pin a slot.                  *)
EntriesGo == \A x \in Slots : (x \in entries) ~> (x \notin entries)

(* A peer that vanished is noticed once the ping timer is set, whatever    *)
(* the update prints: service events do not starve the keepalive.          *)
DeadLinkNoticed == (loop = "up" /\ pinging /\ link = "dead") ~> (loop = "down")
=============================================================================
