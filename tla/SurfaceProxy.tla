------------------------------ MODULE SurfaceProxy ------------------------------
(***************************************************************************)
(* Surfaces: a service registers as the provider of a piece of UI          *)
(* (SurfaceRegistry, crates/ui/surface-proxy/src/registry.rs), and the     *)
(* SurfaceProxy (proxy.rs and proxy/) carries the invocations of users and *)
(* of other services to it and the answers back.  An invocation is a       *)
(* future with several awaits that its caller may drop at any of them;     *)
(* what it has reserved (its pending entry, a place in two budgets, its    *)
(* idempotency key) is given back by whoever comes first: the answer, the  *)
(* timeout, a failed send, the end of the provider's session, the guard    *)
(* that runs when the future is dropped, or the sweep of overdue entries.  *)
(*                                                                         *)
(* The sessions are those of ServiceSessions, on one controller: nothing   *)
(* of the proxy crosses controllers.  The message processor of a session   *)
(* takes one message at a time, and an invocation made by a service is     *)
(* awaited inside it.  Between the session's loop, its processor and the   *)
(* rest of the controller there are three bounded channels (pushes to the  *)
(* service, messages to the processor, its replies), and all who send into *)
(* one wait for room without a time limit.                                 *)
(***************************************************************************)
EXTENDS ServiceSessions, Sequences, FiniteSets

CONSTANTS
    Providers,      \* provider ids
    Calls,          \* invocations
    Keys,           \* idempotency keys, each of one surface interaction
    KeyOf,          \* KeyOf[i]: the idempotency key of call i
    Fingerprint,    \* Fingerprint[i]: the fingerprint of its parameters
    Caller,         \* Caller[i]: the service that makes call i, or User
    User,
    Local,          \* keys of interactions with controller_local transport
    Universal,      \* whether the surface has universal targeting
    MaxPerProvider, \* MAX_IN_FLIGHT_PER_PROVIDER
    MaxPerTenant,   \* MAX_IN_FLIGHT_PER_TENANT (all calls are of one tenant)
    FailureLimit,   \* FAILURE_LIMIT
    PushRoom,       \* PUSH_CHANNEL_CAPACITY
    QueueRoom,      \* PROCESSOR_CHANNEL_CAPACITY
    ReplyRoom,      \* RESPONSE_CHANNEL_CAPACITY
    Revocable,      \* bound: services that may be deactivated
    MaxConnects,    \* bound: connections in all
    MaxRegistrations, \* bound: SurfaceRegistration messages
    MaxNotices,     \* bound: pushes that are no business of the proxy
    MaxLapses       \* bound: deadlines, retention and cooldown periods that end

ASSUME ProxyAssumption ==
    /\ KeyOf \in [Calls -> Keys]
    /\ Local \subseteq Keys
    /\ Caller \in [Calls -> Services \cup {User}] /\ User \notin Services
    /\ Universal \in BOOLEAN
    /\ Revocable \subseteq Services
    /\ Cardinality(Controllers) = 1
    /\ None \notin Providers \cup Services \cup Calls \cup {Fingerprint[i] : i \in Calls}
    /\ Calls \cap (Keys \cup Providers) = {} /\ Keys \cap Providers = {}
    /\ {FailureLimit, PushRoom, QueueRoom, ReplyRoom} \subseteq Nat \ {0}
    /\ {MaxPerProvider, MaxPerTenant, MaxConnects, MaxRegistrations, MaxNotices,
        MaxLapses} \subseteq Nat

VARIABLES
    serves,        \* serves[p]: the service registered as provider p, or None
    boundTo,       \* boundTo[s]: service_to_provider, or None
    px,            \* PendingState of the proxy
    stage,         \* stage[i]: where call i is
    target,        \* target[i]: the provider and service it resolved to
    via,           \* via[i]: the session whose channel call i sends into, or None
    response,      \* calls whose answer is in their oneshot channel
    push,          \* push[n]: the push channel of n, requests and (None) the rest
    outbox,        \* requests that reached a provider's service, unanswered
    inbox,         \* inbox[n]: messages for the processor, the last perhaps still
                   \* with the loop, which waits for room
    busy,          \* busy[n]: the call n's processor awaits, or None
    replies,       \* replies[n]: the processor's replies that are not read yet, the
                   \* one it is at work on included
    closing,       \* closing[n]: what an ending session still has to do
    overdue,       \* calls whose deadline and sweep margin have passed
    sent,          \* number of SurfaceRegistrations so far
    notices,       \* number of other pushes so far
    lapses         \* number of periods that have ended so far

registryVars == <<serves, boundTo>>
callVars == <<px, stage, target, via, response, overdue, lapses>>
queueVars == <<push, inbox, busy, replies>>
wireVars == <<queueVars, outbox, closing, sent, notices>>
vars == <<sessionVars, registryVars, callVars, wireVars>>

Target == [prov : Providers, svc : Services]

Message == [type : {"registration"}, prov : Providers]
           \cup [type : {"response", "request"}, call : Calls]

Stages == {"idle", "queued", "resolved", "registered", "sending", "waiting", "expired",
           "timed out", "cancelling", "local", "done"}

TypeOK ==
    /\ SessionsTypeOK
    /\ serves \in [Providers -> Services \cup {None}]
    /\ boundTo \in [Services -> Providers \cup {None}]
    /\ px \in [pending : SUBSET Calls,
               perProvider : [Providers -> 0..MaxPerProvider],
               perTenant : 0..MaxPerTenant,
               reserved : [Keys -> Calls \cup {None}],
               cache : [Keys -> {Fingerprint[i] : i \in Calls} \cup {None}],
               failures : [Providers -> 0..(FailureLimit - 1)],
               blocked : SUBSET Providers]
    /\ stage \in [Calls -> Stages]
    /\ target \in [Calls -> Target \cup {None}]
    /\ via \in [Calls -> Ids \cup {None}]
    /\ response \in SUBSET Calls
    /\ push \in [Ids -> Seq(Calls \cup {None})]
    /\ outbox \in SUBSET [call : Calls, svc : Services]
    /\ inbox \in [Ids -> Seq(Message)]
    /\ busy \in [Ids -> Calls \cup {None}]
    /\ replies \in [Ids -> 0..(ReplyRoom + 1)]
    /\ closing \in [Ids -> {"no", "fail", "unregister"}]
    /\ overdue \in SUBSET Calls
    /\ sent \in 0..MaxRegistrations
    /\ notices \in 0..MaxNotices
    /\ lapses \in 0..MaxLapses

Init ==
    /\ SessionsInit
    /\ serves = [p \in Providers |-> None]
    /\ boundTo = [s \in Services |-> None]
    /\ px = [pending |-> {},
             perProvider |-> [p \in Providers |-> 0],
             perTenant |-> 0,
             reserved |-> [k \in Keys |-> None],
             cache |-> [k \in Keys |-> None],
             failures |-> [p \in Providers |-> 0],
             blocked |-> {}]
    /\ stage = [i \in Calls |-> "idle"]
    /\ target = [i \in Calls |-> None]
    /\ via = [i \in Calls |-> None]
    /\ response = {}
    /\ push = [n \in Ids |-> <<>>]
    /\ outbox = {}
    /\ inbox = [n \in Ids |-> <<>>]
    /\ busy = [n \in Ids |-> None]
    /\ replies = [n \in Ids |-> 0]
    /\ closing = [n \in Ids |-> "no"]
    /\ overdue = {}
    /\ sent = 0
    /\ notices = 0
    /\ lapses = 0

-----------------------------------------------------------------------------
(* PendingState.  Each operation runs under one lock.                      *)

ProviderOf(i) == target[i].prov

Minus(a, b) == IF b > a THEN 0 ELSE a - b     \* saturating_sub

\* Mutant: the tenant's budget is given back even when the entry is gone.
TakeUnchecked(x, calls) ==
    LET gone == calls \cap x.pending
    IN  [x EXCEPT
            !.pending = @ \ gone,
            !.perProvider = [p \in Providers |->
                Minus(@[p], Cardinality({i \in gone : ProviderOf(i) = p}))],
            !.perTenant = Minus(@, Cardinality(calls)),
            !.reserved = [k \in Keys |-> IF @[k] \in gone THEN None ELSE @[k]]]

(* take_pending, for each of calls: an entry that is still there is        *)
(* removed with its share of both budgets, and with the reservation of its *)
(* key if that is its own.                                                 *)
Take(x, calls) ==
    LET gone == calls \cap x.pending
    IN  [x EXCEPT
            !.pending = @ \ gone,
            !.perProvider = [p \in Providers |->
                Minus(@[p], Cardinality({i \in gone : ProviderOf(i) = p}))],
            !.perTenant = Minus(@, Cardinality(gone)),
            !.reserved = [k \in Keys |-> IF @[k] \in gone THEN None ELSE @[k]]]

(* cleanup_expired reaps the in-flight entries and the reservations whose  *)
(* deadline plus margin has passed.  (The cached answers, failures and     *)
(* cooldowns it also expires are never read before they are compared with  *)
(* the clock, so they expire in Lapse.)                                    *)
Cleaned(x) ==
    LET swept == Take(x, overdue)
    IN  [swept EXCEPT !.reserved =
            [k \in Keys |-> IF @[k] \in overdue THEN None ELSE @[k]]]

\* Mutant: one failure too many.
FailedOffByOne(x, p) ==
    IF x.failures[p] + 1 > FailureLimit
    THEN [x EXCEPT !.failures[p] = 0, !.blocked = @ \cup {p}]
    ELSE [x EXCEPT !.failures[p] = @ + 1]

(* record_provider_failure *)
Failed(x, p) ==
    IF x.failures[p] + 1 >= FailureLimit
    THEN [x EXCEPT !.failures[p] = 0, !.blocked = @ \cup {p}]
    ELSE [x EXCEPT !.failures[p] = @ + 1]

(* fail_in_flight_for_provider: every pending call of p loses its sender,  *)
(* and if there was one a failure is recorded.                             *)
InFlight(x, p) == {i \in x.pending : ProviderOf(i) = p}
FailInFlight(x, p) ==
    IF InFlight(x, p) = {} THEN x ELSE Failed(Take(x, InFlight(x, p)), p)

\* Mutant: a reservation under way does not refuse a second call.
KeyFreeUnlessCached(x, i) == x.cache[KeyOf[i]] \in {None, Fingerprint[i]}

(* ensure_idempotency_available: no call with this key is in flight, and   *)
(* no answer to other parameters is cached.                                *)
KeyFree(x, i) ==
    /\ x.reserved[KeyOf[i]] = None
    /\ x.cache[KeyOf[i]] \in {None, Fingerprint[i]}

(* ensure_provider_not_rate_limited, ensure_budget *)
Admissible(x, i, p) ==
    /\ p \notin x.blocked
    /\ x.perProvider[p] < MaxPerProvider
    /\ x.perTenant < MaxPerTenant
    /\ KeyFree(x, i)

Reserve(x, i) == [x EXCEPT !.reserved[KeyOf[i]] = i]

(* register_pending *)
Pend(x, i, p) ==
    [Reserve(x, i) EXCEPT
        !.pending = @ \cup {i},
        !.perProvider[p] = @ + 1,
        !.perTenant = @ + 1]

\* Mutant: the guard clears the key, whoever holds it now.
ReleaseBlindly(x, i) == [x EXCEPT !.reserved[KeyOf[i]] = None]

(* release_idempotency *)
Release(x, i) ==
    IF x.reserved[KeyOf[i]] = i
    THEN [x EXCEPT !.reserved[KeyOf[i]] = None] ELSE x

(* store_cached_response *)
Store(x, i) == [Cleaned(x) EXCEPT !.cache[KeyOf[i]] = Fingerprint[i]]

-----------------------------------------------------------------------------
(* An invocation: invoke_inner.                                            *)

Conn(s) == connections[CHOOSE c \in Controllers : TRUE][s]

(* The future of call i ends, and its locals are gone. *)
Ends(i) ==
    /\ stage' = [stage EXCEPT ![i] = "done"]
    /\ target' = [target EXCEPT ![i] = None]
    /\ via' = [via EXCEPT ![i] = None]
    /\ response' = response \ {i}
    /\ overdue' = overdue \ {i}

IsLocal(i) == KeyOf[i] \in Local

(* implicit_target_provider_for_request, resolve_surface_action_for_method *)
(* and caller_origin_for_request: a provider of the surface, named by the  *)
(* caller or chosen; for a controller_local interaction a plugin of the    *)
(* controller.  A calling service must be a provider itself.               *)
Resolvable(i) ==
    {t \in IF IsLocal(i) THEN {None} ELSE {u \in Target : serves[u.prov] = u.svc} :
        Caller[i] = User \/ boundTo[Caller[i]] # None}

(* The call starts: it is resolved, and answered from the cache if the     *)
(* same request was answered before.                                       *)
Start(i) ==
    /\ \/ /\ Resolvable(i) = {}
          /\ Ends(i)
          /\ UNCHANGED px
       \/ \E t \in Resolvable(i) :
              /\ px' = Cleaned(px)
              /\ IF px.cache[KeyOf[i]] = Fingerprint[i]
                 THEN Ends(i)
                 ELSE /\ target' = [target EXCEPT ![i] = t]
                      /\ stage' = [stage EXCEPT ![i] = "resolved"]
                      /\ UNCHANGED <<via, response, overdue>>
    /\ UNCHANGED lapses

(* Outside the proxy nothing changes. *)
Elsewhere == UNCHANGED <<sessionVars, registryVars, wireVars, lapses>>

(* execute_proxied_invocation: the provider's service is not connected. *)
FindUnconnected(i) ==
    /\ stage[i] = "resolved" /\ ~IsLocal(i)
    /\ Conn(target[i].svc) = None
    /\ Ends(i)
    /\ Elsewhere /\ UNCHANGED px

(* One of the checks made under the lock refuses the call. *)
Refuse(i) ==
    /\ stage[i] = "resolved"
    /\ \/ IsLocal(i) /\ ~KeyFree(Cleaned(px), i)
       \/ /\ ~IsLocal(i) /\ Conn(target[i].svc) # None
          /\ ~Admissible(Cleaned(px), i, ProviderOf(i))
    /\ px' = Cleaned(px)
    /\ Ends(i)
    /\ Elsewhere

(* They pass, and the call is registered under the same lock. *)
Admit(i) ==
    /\ stage[i] = "resolved" /\ ~IsLocal(i)
    /\ Conn(target[i].svc) # None
    /\ Admissible(Cleaned(px), i, ProviderOf(i))
    /\ px' = Pend(Cleaned(px), i, ProviderOf(i))
    /\ stage' = [stage EXCEPT ![i] = "registered"]
    /\ Elsewhere /\ UNCHANGED <<target, via, response, overdue>>

(* ServiceConnectionRegistry.send clones the sender of whatever session is *)
(* registered, for the request or later for its cancellation ...           *)
Lookup(i) ==
    /\ stage[i] \in {"registered", "timed out"}
    /\ via' = [via EXCEPT ![i] = Conn(target[i].svc)]
    /\ stage' = [stage EXCEPT ![i] = IF @ = "registered" THEN "sending" ELSE "cancelling"]
    /\ Elsewhere /\ UNCHANGED <<px, target, response, overdue>>

(* The receiver is dropped when the session's cleanup ends. *)
ReceiverDropped(n) == phase[n] = "gone" /\ closing[n] = "no"

Unreachable(i) == via[i] # None => ReceiverDropped(via[i])

(* ... and waits for room in its channel, without a time limit. *)
Push(n, m) ==
    /\ Len(push[n]) < PushRoom
    /\ push' = [push EXCEPT ![n] = Append(@, m)]

(* The request is sent, and only now does its timeout begin to run. *)
Send(i) ==
    /\ stage[i] = "sending" /\ ~Unreachable(i)
    /\ Push(via[i], i)
    /\ stage' = [stage EXCEPT ![i] = "waiting"]
    /\ via' = [via EXCEPT ![i] = None]
    /\ UNCHANGED <<sessionVars, registryVars, px, target, response, overdue, lapses,
                   outbox, inbox, busy, replies, closing, sent, notices>>

(* fail_pending_request *)
SendFails(i) ==
    /\ stage[i] = "sending" /\ Unreachable(i)
    /\ px' = IF i \in px.pending THEN Failed(Take(px, {i}), ProviderOf(i)) ELSE px
    /\ Ends(i)
    /\ Elsewhere

(* The answer is in the channel.  It is cached unless its result does not  *)
(* fit the schema or the limits.                                           *)
Wake(i) ==
    /\ stage[i] = "waiting" /\ i \in response
    /\ px' \in {Store(px, i), px}
    /\ Ends(i)
    /\ Elsewhere

(* The sender was dropped with the pending entry. *)
Disconnected(i) ==
    /\ stage[i] = "waiting" /\ i \notin response /\ i \notin px.pending
    /\ px' = Failed(px, ProviderOf(i))
    /\ Ends(i)
    /\ Elsewhere

\* Mutant: the answer is awaited without a time limit.
AwaitUnbounded(i) == FALSE

(* The timeout fires while the channel is empty ...                        *)
Expire(i) ==
    /\ stage[i] = "waiting" /\ i \notin response /\ i \in px.pending
    /\ stage' = [stage EXCEPT ![i] = "expired"]
    /\ Elsewhere /\ UNCHANGED <<px, target, via, response, overdue>>

(* ... and timeout_pending_request takes the lock; an answer may have come *)
(* first.                                                                  *)
TimeOut(i) ==
    /\ stage[i] = "expired"
    /\ px' = Take(px, {i})
    /\ IF i \in px.pending
       THEN /\ stage' = [stage EXCEPT ![i] = "timed out"]
            /\ UNCHANGED <<target, via, response, overdue>>
       ELSE Ends(i)
    /\ Elsewhere

(* It sends SurfaceActionCancel, which is advisory, as it sent the         *)
(* request: once there is room it records the failure.                     *)
Cancelled(i) ==
    /\ stage[i] = "cancelling"
    /\ \/ Unreachable(i) /\ UNCHANGED push
       \/ ~Unreachable(i) /\ Push(via[i], None)
    /\ px' = Failed(px, ProviderOf(i))
    /\ Ends(i)
    /\ UNCHANGED <<sessionVars, registryVars, lapses, outbox, inbox, busy, replies,
                   closing, sent, notices>>

(* execute_local_invocation: the reservation, then the plugin's executor   *)
(* without a time limit, then the guard.                                   *)
AdmitLocal(i) ==
    /\ stage[i] = "resolved" /\ IsLocal(i)
    /\ KeyFree(Cleaned(px), i)
    /\ px' = Reserve(Cleaned(px), i)
    /\ stage' = [stage EXCEPT ![i] = "local"]
    /\ Elsewhere /\ UNCHANGED <<target, via, response, overdue>>

FinishLocal(i) ==
    /\ stage[i] = "local"
    /\ px' \in {Release(Store(px, i), i), Release(px, i)}
    /\ Ends(i)
    /\ Elsewhere

(* The future of call i is dropped at an await: PendingGuard and           *)
(* IdempotencyGuard.                                                       *)
Dropped(x, i) ==
    CASE stage[i] \in {"registered", "sending", "waiting", "expired"} -> Take(x, {i})
      [] stage[i] = "local" -> Release(x, i)
      [] OTHER -> x

(* The HTTP client of a user's call goes away. *)
DropCall(i) ==
    /\ Caller[i] = User /\ stage[i] \notin {"idle", "done"}
    /\ px' = Dropped(px, i)
    /\ Ends(i)
    /\ Elsewhere

(* A period ends: the deadline and margin of a call, the retention of a    *)
(* cached answer, a cooldown, or the failure window of a provider.         *)
Lapse ==
    /\ lapses < MaxLapses
    /\ lapses' = lapses + 1
    /\ \/ \E i \in Calls \ overdue :
              /\ stage[i] \in {"registered", "sending", "waiting", "local"}
              /\ overdue' = overdue \cup {i}
              /\ UNCHANGED px
       \/ \E k \in Keys :
              /\ px.cache[k] # None
              /\ px' = [px EXCEPT !.cache[k] = None]
              /\ UNCHANGED overdue
       \/ \E p \in px.blocked :
              /\ px' = [px EXCEPT !.blocked = @ \ {p}]
              /\ UNCHANGED overdue
       \/ \E p \in Providers :
              /\ px.failures[p] > 0
              /\ px' = [px EXCEPT !.failures[p] = @ - 1]
              /\ UNCHANGED overdue
    /\ UNCHANGED <<sessionVars, registryVars, wireVars, stage, target, via, response>>

(* A user's call *)
UserCall(i) ==
    /\ Caller[i] = User /\ stage[i] = "idle"
    /\ Start(i)
    /\ UNCHANGED <<sessionVars, registryVars, wireVars>>

-----------------------------------------------------------------------------
(* The services.  They talk over their newest connection.                  *)

Talks(n) == phase[n] = "live" /\ Current(n) = n

(* The loop of session n waits for nothing: the last message it read has   *)
(* found room in the processor's queue.                                    *)
LoopFree(n) == Len(inbox[n]) <= QueueRoom

(* A message of the service is read and forwarded to the processor: all    *)
(* else the loop does waits while there is no room for it.                 *)
Say(n, m) ==
    /\ LoopFree(n)
    /\ inbox' = [inbox EXCEPT ![n] = Append(@, m)]

(* A service connects, again if need be: its end of the old connection may *)
(* be gone long before the controller notices.                             *)
Connect(n) ==
    /\ Cardinality({m \in Ids : phase[m] # "unused"}) < MaxConnects
    /\ Register(n)
    /\ UNCHANGED <<registryVars, callVars, wireVars>>

(* It registers its surface, perhaps under a new provider id. *)
SendRegistration(n) ==
    /\ Talks(n) /\ sent < MaxRegistrations
    /\ sent' = sent + 1
    /\ \E p \in Providers : Say(n, [type |-> "registration", prov |-> p])
    /\ UNCHANGED <<sessionVars, registryVars, callVars, push, busy, replies, outbox,
                   closing, notices>>

(* It invokes a surface. *)
SendRequest(n, i) ==
    /\ Talks(n) /\ Caller[i] = Svc(n) /\ stage[i] = "idle"
    /\ stage' = [stage EXCEPT ![i] = "queued"]
    /\ Say(n, [type |-> "request", call |-> i])
    /\ UNCHANGED <<sessionVars, registryVars, px, target, via, response, overdue, lapses,
                   push, busy, replies, outbox, closing, sent, notices>>

(* It answers a request, whichever connection that came over. *)
Answer(n, i) ==
    /\ Talks(n) /\ [call |-> i, svc |-> Svc(n)] \in outbox
    /\ outbox' = outbox \ {[call |-> i, svc |-> Svc(n)]}
    /\ Say(n, [type |-> "response", call |-> i])
    /\ UNCHANGED <<sessionVars, registryVars, callVars, push, busy, replies, closing,
                   sent, notices>>

-----------------------------------------------------------------------------
(* The loop of session n.                                                  *)

(* Another part of the controller pushes a message to the service. *)
Notify(n) ==
    /\ notices < MaxNotices
    /\ Conn(Svc(n)) = n
    /\ Push(n, None)
    /\ notices' = notices + 1
    /\ UNCHANGED <<sessionVars, registryVars, callVars, inbox, busy, replies, outbox,
                   closing, sent>>

(* The loop writes the next push to the service. *)
Deliver(n) ==
    /\ phase[n] = "live" /\ LoopFree(n)
    /\ push[n] # <<>>
    /\ push' = [push EXCEPT ![n] = Tail(@)]
    /\ outbox' = outbox \cup {[call |-> i, svc |-> Svc(n)] : i \in {Head(push[n])} \ {None}}
    /\ UNCHANGED <<sessionVars, registryVars, callVars, inbox, busy, replies, closing,
                   sent, notices>>

InProgress == {i \in Calls : stage[i] # "done"}

(* It writes the next reply of the processor. *)
ReadReply(n) ==
    /\ phase[n] = "live" /\ LoopFree(n)
    /\ replies[n] > IF busy[n] \in InProgress THEN 1 ELSE 0
    /\ replies' = [replies EXCEPT ![n] = @ - 1]
    /\ UNCHANGED <<sessionVars, registryVars, callVars, push, inbox, busy, outbox,
                   closing, sent, notices>>

-----------------------------------------------------------------------------
(* The message processor of session n handles the next message, once the   *)
(* invocation it awaits has ended and its last reply has found room.       *)

Takes(n, type) ==
    /\ phase[n] = "live" /\ busy[n] \notin InProgress
    /\ replies[n] <= ReplyRoom
    /\ inbox[n] # <<>> /\ Head(inbox[n]).type = type
    /\ inbox' = [inbox EXCEPT ![n] = Tail(@)]
    /\ replies' = [replies EXCEPT ![n] = @ + 1]

(* SurfaceProxy.complete *)
HandleResponse(n) ==
    LET i == Head(inbox[n]).call
    IN  /\ Takes(n, "response")
        /\ px' = Take(px, {i})
        /\ response' = response \cup ({i} \cap px.pending)
        /\ UNCHANGED <<sessionVars, registryVars, stage, target, via, overdue, lapses,
                       push, busy, outbox, closing, sent, notices>>

(* The calls the registry admits: a provider id belongs to one service,    *)
(* and a surface with universal targeting has one provider.  The service's *)
(* own former provider is removed before the check, and put back if it     *)
(* fails.                                                                  *)
Admits(s, p) ==
    /\ serves[p] \in {None, s}
    /\ Universal => \A q \in Providers \ {p} : serves[q] \in {None, s}

\* Mutant: a new provider id is registered and the old one stays.
RegisteredTwice(s, p) == [serves EXCEPT ![p] = s]

(* register_service: the former provider goes, the new one is entered. *)
Registered(s, p) ==
    [q \in Providers |-> IF q = p THEN s
                         ELSE IF serves[q] = s THEN None ELSE serves[q]]

(* register_surface_provider *)
HandleRegistration(n) ==
    LET s == Svc(n)
        p == Head(inbox[n]).prov
        former == boundTo[s]
    IN  /\ Takes(n, "registration")
        /\ \/ /\ Admits(s, p)
              /\ serves' = Registered(s, p)
              /\ boundTo' = [boundTo EXCEPT ![s] = p]
              /\ px' = IF former \in {None, p} THEN px ELSE FailInFlight(px, former)
           \/ /\ ~Admits(s, p)
              /\ UNCHANGED <<registryVars, px>>
        /\ UNCHANGED <<sessionVars, stage, target, via, response, overdue, lapses,
                       push, busy, outbox, closing, sent, notices>>

(* handle_surface_action_request: the call is awaited here. *)
HandleRequest(n) ==
    LET i == Head(inbox[n]).call
    IN  /\ Takes(n, "request")
        /\ Start(i)
        /\ busy' = [busy EXCEPT ![n] = i]
        /\ UNCHANGED <<sessionVars, registryVars, push, outbox, closing, sent, notices>>

-----------------------------------------------------------------------------
(* The end of a session.                                                   *)

(* The calls that go with session n: the one its processor awaits and      *)
(* those it had not read yet.                                              *)
Carried(n) ==
    ({busy[n]} \cap InProgress)
    \cup {i \in Calls : stage[i] = "queued" /\
             \E m \in 1..Len(inbox[n]) :
                 inbox[n][m] = [type |-> "request", call |-> i]}

(* The loop exits and finalize_authenticated_session cancels the           *)
(* processor, which drops the call it awaits.  A loop that waits for its   *)
(* processor notices neither the peer's close nor the cancellation.        *)
EndSession(n) ==
    /\ LoopFree(n)
    /\ Finalize(n)
    /\ px' = IF busy[n] \in InProgress THEN Dropped(px, busy[n]) ELSE px
    /\ stage' = [i \in Calls |-> IF i \in Carried(n) THEN "done" ELSE stage[i]]
    /\ target' = [i \in Calls |-> IF i \in Carried(n) THEN None ELSE target[i]]
    /\ via' = [i \in Calls |-> IF i \in Carried(n) THEN None ELSE via[i]]
    /\ response' = response \ Carried(n)
    /\ overdue' = overdue \ Carried(n)
    /\ inbox' = [inbox EXCEPT ![n] = <<>>]
    /\ closing' = [closing EXCEPT ![n] = "fail"]
    /\ busy' = [busy EXCEPT ![n] = None]
    /\ replies' = [replies EXCEPT ![n] = 0]
    /\ UNCHANGED <<registryVars, lapses, push, outbox, sent, notices>>

(* Whether it was replaced or not, the session fails the in-flight calls   *)
(* of whatever provider its service has now ...                            *)
FailSurfaces(n) ==
    LET p == boundTo[Svc(n)]
    IN  /\ closing[n] = "fail"
        /\ px' = IF p = None THEN px ELSE FailInFlight(px, p)
        /\ closing' = [closing EXCEPT ![n] = "unregister"]
        /\ UNCHANGED <<sessionVars, registryVars, stage, target, via, response, overdue,
                       lapses, queueVars, outbox, sent, notices>>

\* Mutant: only a replaced session unregisters the surfaces.
UnregisterIfReplaced(n) ==
    /\ closing[n] = "unregister"
    /\ closing' = [closing EXCEPT ![n] = "no"]
    /\ IF phase[n] = "gone"
       THEN /\ serves' = [p \in Providers |-> IF serves[p] = Svc(n) THEN None
                                              ELSE serves[p]]
            /\ boundTo' = [boundTo EXCEPT ![Svc(n)] = None]
       ELSE UNCHANGED registryVars
    /\ UNCHANGED <<sessionVars, callVars, queueVars, outbox, sent, notices>>

(* ... and after another await unregisters it: unregister_service. *)
UnregisterSurfaces(n) ==
    LET s == Svc(n)
    IN  /\ closing[n] = "unregister"
        /\ closing' = [closing EXCEPT ![n] = "no"]
        /\ serves' = [p \in Providers |-> IF p = boundTo[s] THEN None ELSE serves[p]]
        /\ boundTo' = [boundTo EXCEPT ![s] = None]
        /\ UNCHANGED <<sessionVars, callVars, queueVars, outbox, sent, notices>>

EndCleanup(n) ==
    /\ closing[n] = "no"
    /\ Unregister(n)
    /\ UNCHANGED <<registryVars, callVars, wireVars>>

(* The service is deactivated. *)
Deactivate(c, s) ==
    /\ s \in Revocable
    /\ ForceDisconnect(c, s)
    /\ UNCHANGED <<registryVars, callVars, wireVars>>

-----------------------------------------------------------------------------
Progress(i) ==
    \/ FindUnconnected(i) \/ Refuse(i) \/ Admit(i)
    \/ Lookup(i) \/ Send(i) \/ SendFails(i)
    \/ Wake(i) \/ Disconnected(i) \/ Expire(i) \/ TimeOut(i)
    \/ Cancelled(i) \/ AdmitLocal(i) \/ FinishLocal(i)

Handle(n) == HandleResponse(n) \/ HandleRegistration(n) \/ HandleRequest(n)

Cleanup(n) == FailSurfaces(n) \/ UnregisterSurfaces(n) \/ EndCleanup(n)

Next ==
    \/ \E i \in Calls : UserCall(i) \/ Progress(i) \/ DropCall(i)
    \/ \E n \in Ids :
          \/ Connect(n) \/ SendRegistration(n)
          \/ \E i \in Calls : SendRequest(n, i) \/ Answer(n, i)
          \/ Notify(n) \/ Deliver(n) \/ ReadReply(n) \/ Handle(n)
          \/ EndSession(n) \/ Cleanup(n)
    \/ \E c \in Controllers, s \in Services : Deactivate(c, s)
    \/ Lapse

Spec == Init /\ [][Next]_vars

(* What the loop, the processor and the cleanup of a session do unasked. *)
Serves(n) == Deliver(n) \/ ReadReply(n) \/ Handle(n) \/ Cleanup(n)

(* An invocation is polled while it can go on, and its timer fires; a      *)
(* plugin's executor returns.  A session whose loop or processor is not    *)
(* waiting goes on with what is in its channels, its writes have a time    *)
(* limit, and one that ends cleans up.                                     *)
FairSpec ==
    /\ Spec
    /\ \A i \in Calls : WF_vars(Progress(i))
    /\ \A n \in Ids : WF_vars(Serves(n))

-----------------------------------------------------------------------------
(* The budgets count what is in flight, neither more (capacity that leaks  *)
(* until RateLimited is all the provider's callers see) nor less, although *)
(* six different parties give a call's share back.                         *)
BudgetsExact ==
    /\ \A p \in Providers :
           px.perProvider[p] = Cardinality({i \in px.pending : ProviderOf(i) = p})
    /\ px.perTenant = Cardinality(px.pending)

(* No key is stuck and no key is lost: a reservation belongs to a call     *)
(* that is still going on, and each pending call, and each local one whose *)
(* deadline has not passed, holds the reservation of its key, so that two  *)
(* calls with one key are not in flight at once.                           *)
ReservationsHeld ==
    /\ \A k \in Keys : px.reserved[k] # None =>
           /\ KeyOf[px.reserved[k]] = k
           /\ px.reserved[k] \in px.pending \/ stage[px.reserved[k]] = "local"
    /\ \A i \in px.pending :
           /\ px.reserved[KeyOf[i]] = i
           /\ stage[i] \in {"registered", "sending", "waiting", "expired"}
    /\ \A i \in Calls : stage[i] = "local" /\ i \notin overdue => px.reserved[KeyOf[i]] = i

(* The two maps of the registry are inverse to each other, whatever        *)
(* registrations, rotations and unregistrations of old and new sessions    *)
(* are applied: a provider a service has left would never be removed.      *)
RegistryIsInverse ==
    \A s \in Services, p \in Providers : serves[p] = s <=> boundTo[s] = p

(* The registry lists no provider whose service has left for good: as long *)
(* as one is listed, a session of its service still has its cleanup ahead. *)
ListedIsServed ==
    \A p \in Providers : serves[p] # None =>
        \E n \in Ids : Svc(n) = serves[p] /\ (phase[n] = "live" \/ closing[n] # "no")

(* Call i waits for room in a push channel. *)
Waits(i) ==
    /\ stage[i] \in {"sending", "cancelling"} /\ via[i] # None
    /\ Len(push[via[i]]) >= PushRoom

(* The sessions of S wait for each other: the loop of each waits for room  *)
(* in its processor's queue, and its processor for the loop to read a      *)
(* reply, or on a call that waits for the loop of a session of S.          *)
Circle(S) ==
    \A n \in S :
        /\ phase[n] = "live" /\ ~LoopFree(n)
        /\ IF busy[n] \in InProgress THEN Waits(busy[n]) /\ via[busy[n]] \in S
                                     ELSE replies[n] > ReplyRoom

(* Every invocation that was begun ends, whatever becomes of its provider, *)
(* even when the answer waits behind the processor that awaits it.  The    *)
(* one exception is a call that waits for room in the push channel of a    *)
(* session in such a circle, which nothing but a restart of the controller *)
(* breaks.                                                                 *)
EveryCallEnds ==
    \A i \in Calls :
        (stage[i] \notin {"idle", "queued"}) ~>
            \/ stage[i] = "done"
            \/ Waits(i) /\ \E S \in SUBSET Ids : via[i] \in S /\ Circle(S)
=============================================================================
