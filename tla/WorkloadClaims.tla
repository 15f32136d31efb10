----------------------------- MODULE WorkloadClaims -----------------------------
(***************************************************************************)
(* Exclusive ownership of config keys by service instances.                *)
(*                                                                         *)
(* Every controller keeps a WorkloadClaimRegistry in memory                *)
(* (crates/ui/controller-core/src/workload_claims.rs), arbitrates the      *)
(* WorkloadClaim requests of the services connected to it                  *)
(* (routes/service_ws/handler/workload.rs), and tells the other            *)
(* controllers by announcements over NATS (event_delivery.rs).  A service  *)
(* (crates/core/mqtt-runtime) runs one MQTT client per key it was granted. *)
(*                                                                         *)
(* The registry is locked for one operation at a time; everything around   *)
(* an operation (the announcement, the reply, the offers to other          *)
(* services) happens after further awaits.  A handler in progress is a     *)
(* sequence of steps still to do, in todo: one sequence per session (its   *)
(* message processor, later its cleanup) and one per controller (its NATS  *)
(* consumer).                                                              *)
(***************************************************************************)
EXTENDS ServiceSessions, Sequences, FiniteSets

CONSTANTS
    Keys,          \* config keys, "clients.{uuid}"
    Tenants,
    TenantOf,      \* TenantOf[k]: the tenant whose config k is
    Stored,        \* the keys of the configs stored at the start
    MaxTime,       \* bound on the clock
    MaxConnects,   \* bound: connections in a behaviour
    MaxEvents      \* bound: config edits, WorkloadReleases, deactivations,
                   \*        process restarts, lost publishes and acks

ASSUME ClaimsAssumption ==
    /\ Services \subseteq Nat          \* service_id is ordered
    /\ TenantOf \in [Keys -> Tenants]
    /\ Stored \subseteq Keys
    /\ None \notin Controllers \cup Services
    /\ Controllers \cap Ids = {}
    /\ {MaxTime, MaxConnects, MaxEvents} \subseteq Nat

VARIABLES
    registry,      \* registry[c]: claims, by_service, tenant_services and
                   \*              pending_desires of controller c
    todo,          \* todo[a]: the steps actor a still has to do
    bus,           \* bus[c]: announcements queued for c's NATS consumer
    clock,         \* the time the controllers read
    wanted,        \* the stored, enabled configs of the MQTT app
    link,          \* link[s]: the connection s uses, or None
    fresh,         \* fresh[s]: no ServiceConfigDelivery on this link yet
    configs,       \* configs[s]: the config snapshot of service s
    granted,       \* granted[s]: its granted_keys
    clients,       \* clients[s]: keys whose MQTT client s runs
    requests,      \* requests[n]: messages from the service, unprocessed
    replies,       \* replies[n]: results on the processor's channel
    pushes,        \* pushes[n]: results on the push channel
    events         \* how many of the bounded events have happened

serviceVars == <<link, fresh, configs, granted, clients>>
channelVars == <<requests, replies, pushes>>
vars == <<sessionVars, registry, todo, bus, clock, wanted, serviceVars,
          channelVars, events>>

Actors == Ids \cup Controllers
Home(a) == IF a \in Controllers THEN a ELSE Ctrl(a)

-----------------------------------------------------------------------------
(* WorkloadClaimRegistry.  claims[k] is the owner of key k, or None.       *)

Owner == [svc : Services, ctrl : Controllers, at : 0..MaxTime]

ASSUME NoneOwnsNothing == None \notin Owner

Registry == [claims : [Keys -> Owner \cup {None}],
             byService : [Services -> SUBSET Keys],
             tenants : [Tenants -> SUBSET Services],
             pending : [Services -> SUBSET Keys]]

EmptyRegistry ==
    [claims |-> [k \in Keys |-> None],
     byService |-> [s \in Services |-> {}],
     tenants |-> [t \in Tenants |-> {}],
     pending |-> [s \in Services |-> {}]]

Claimed(r, k) == r.claims[k] # None
OwnedBy(r, k, s) == Claimed(r, k) /\ r.claims[k].svc = s

Serves(r, s, t) == \E k \in r.byService[s] : Claimed(r, k) /\ TenantOf[k] = t

(* rebuild_tenant_index_for_service, for each service of ss *)
Reindexed(r, ss) ==
    [r EXCEPT !.tenants =
        [t \in Tenants |-> (r.tenants[t] \ ss) \cup {s \in ss : Serves(r, s, t)}]]

(* try_claim: desired replaces the service's whole claim.  Keys it holds   *)
(* and does not desire are released, free ones granted, the rest rejected  *)
(* and remembered as pending desires.                                      *)
Rejected(r, s, desired) ==
    {k \in desired \ r.byService[s] : Claimed(r, k) /\ r.claims[k].svc # s}

\* Mutant: keys of other services are granted as well.
GrantedAnyway(r, s, desired) == desired \ r.byService[s]

Granted(r, s, desired) == (desired \ r.byService[s]) \ Rejected(r, s, desired)

Dropped(r, s, desired) == {k \in r.byService[s] \ desired : Claimed(r, k)}

\* Mutant: the claim is stamped with a time that has not come yet.
TryClaimAhead(r, s, c, desired, now) ==
    [r EXCEPT
        !.claims = [k \in Keys |->
            IF k \in Granted(r, s, desired)
            THEN [svc |-> s, ctrl |-> c, at |-> now + 1] ELSE r.claims[k]],
        !.byService = [r.byService EXCEPT
            ![s] = @ \cup Granted(r, s, desired)]]

TryClaim(r, s, c, desired, now) ==
    LET new == Granted(r, s, desired)
        old == r.byService[s] \ desired
    IN  Reindexed(
            [r EXCEPT
                !.claims = [k \in Keys |->
                    IF k \in new THEN [svc |-> s, ctrl |-> c, at |-> now]
                    ELSE IF k \in old THEN None ELSE r.claims[k]],
                !.byService = [r.byService EXCEPT ![s] = (@ \ old) \cup new],
                !.pending = [r.pending EXCEPT ![s] = Rejected(r, s, desired)]],
            {s})

\* Mutant: the reverse index is cleared, the owners stay.
ReleaseIndexOnly(r, s) ==
    Reindexed([r EXCEPT !.byService = [r.byService EXCEPT ![s] = {}]], {s})

\* Mutant: the routing index is not rebuilt.
ReleaseWithoutReindex(r, s) ==
    [r EXCEPT
        !.claims = [k \in Keys |->
            IF k \in r.byService[s] THEN None ELSE r.claims[k]],
        !.byService = [r.byService EXCEPT ![s] = {}],
        !.pending = [r.pending EXCEPT ![s] = {}]]

(* release: the service disconnected.  The owner of a key in its reverse   *)
(* index is not looked at.                                                 *)
ReleaseAll(r, s) ==
    Reindexed(
        [r EXCEPT
            !.claims = [k \in Keys |->
                IF k \in r.byService[s] THEN None ELSE r.claims[k]],
            !.byService = [r.byService EXCEPT ![s] = {}],
            !.pending = [r.pending EXCEPT ![s] = {}]],
        {s})

(* release_keys: the service gives up some keys of its own. *)
Owned(r, s, keys) == {k \in keys : OwnedBy(r, k, s)}

ReleaseKeys(r, s, keys) ==
    LET given == Owned(r, s, keys)
    IN  Reindexed(
            [r EXCEPT
                !.claims = [k \in Keys |->
                    IF k \in given THEN None ELSE r.claims[k]],
                !.byService = [r.byService EXCEPT ![s] = @ \ given]],
            IF given = {} THEN {} ELSE {s})

(* apply_remote_announcement: first the released keys, if the announcing   *)
(* service owns them here, then the claimed ones.  Of two claims the       *)
(* earlier (claimed_at, service_id) wins.                                  *)
Earlier(a, owner) ==
    a.at < owner.at \/ (a.at = owner.at /\ a.svc < owner.svc)

AfterReleases(r, a) ==
    LET gone == Owned(r, a.svc, a.released)
    IN  [r EXCEPT
            !.claims = [k \in Keys |-> IF k \in gone THEN None ELSE r.claims[k]],
            !.byService = [r.byService EXCEPT ![a.svc] = @ \ gone]]

\* Mutant: the newest announcement wins.
TakenAlways(r, a) == a.claimed

Taken(r, a) ==
    {k \in a.claimed : ~Claimed(r, k) \/ r.claims[k].svc = a.svc
                            \/ Earlier(a, r.claims[k])}

(* The keys service s loses to the announcing service *)
Revoked(r, a, s) == {k \in Taken(r, a) : s # a.svc /\ OwnedBy(r, k, s)}

\* Mutant: the reverse index of the loser keeps the key.
AfterClaimsLoserKeeps(r, a) ==
    [r EXCEPT
        !.claims = [k \in Keys |->
            IF k \in Taken(r, a)
            THEN [svc |-> a.svc, ctrl |-> a.ctrl, at |-> a.at]
            ELSE r.claims[k]],
        !.byService = [r.byService EXCEPT ![a.svc] = @ \cup Taken(r, a)]]

AfterClaims(r, a) ==
    [r EXCEPT
        !.claims = [k \in Keys |->
            IF k \in Taken(r, a)
            THEN [svc |-> a.svc, ctrl |-> a.ctrl, at |-> a.at]
            ELSE r.claims[k]],
        !.byService = [s \in Services |->
            IF s = a.svc THEN r.byService[s] \cup Taken(r, a)
            ELSE r.byService[s] \ Revoked(r, a, s)]]

\* Mutant: only the announcing service is routed anew.
ApplyWithoutLosers(r, a) ==
    Reindexed(AfterClaims(AfterReleases(r, a), a), {a.svc})

ApplyAnnouncement(r, a) ==
    LET mid == AfterReleases(r, a)
    IN  Reindexed(AfterClaims(mid, a),
                  {s \in Services : s = a.svc \/ Revoked(mid, a, s) # {}})

(* find_pending_desires_for_keys *)
Wishes(r, keys) ==
    {[svc |-> s, keys |-> r.pending[s] \cap keys] :
        s \in {t \in Services : r.pending[t] \cap keys # {}}}

-----------------------------------------------------------------------------
(* The steps of a handler that come after the registry operation. *)

AnnounceStep(s, claimed, released) ==
    [op |-> "announce", svc |-> s, claimed |-> claimed, released |-> released]
ReplyStep(s, yes, no) ==
    [op |-> "reply", note |-> [svc |-> s, granted |-> yes, rejected |-> no]]
PushStep(notes) == [op |-> "push", notes |-> notes]
OfferStep(keys) == [op |-> "offer", keys |-> keys]
RegrantStep(wishes) == [op |-> "regrant", wishes |-> wishes]
ReleaseStep == [op |-> "release"]

(* steps, unless there is nothing to do them for *)
For(what, steps) == IF what = {} THEN <<>> ELSE steps

Announcement == [svc : Services, ctrl : Controllers, at : 0..MaxTime,
                 claimed : SUBSET Keys, released : SUBSET Keys]
Request == [type : {"claim", "release"}, keys : SUBSET Keys]
Note == [svc : Services, granted : SUBSET Keys, rejected : SUBSET Keys]
Wish == [svc : Services, keys : SUBSET Keys]

Step ==
    [op : {"announce"}, svc : Services, claimed : SUBSET Keys,
     released : SUBSET Keys]
    \cup [op : {"reply"}, note : Note]
    \cup [op : {"push"}, notes : SUBSET Note]
    \cup [op : {"offer"}, keys : SUBSET Keys]
    \cup [op : {"regrant"}, wishes : SUBSET Wish]
    \cup [op : {"release"}]

Event == events < MaxEvents /\ events' = events + 1

TypeOK ==
    /\ SessionsTypeOK
    /\ registry \in [Controllers -> Registry]
    /\ todo \in [Actors -> Seq(Step)]
    /\ bus \in [Controllers -> Seq(Announcement)]
    /\ clock \in 0..MaxTime
    /\ wanted \in SUBSET Keys
    /\ link \in [Services -> Ids \cup {None}]
    /\ fresh \in [Services -> BOOLEAN]
    /\ configs \in [Services -> SUBSET Keys]
    /\ granted \in [Services -> SUBSET Keys]
    /\ clients \in [Services -> SUBSET Keys]
    /\ requests \in [Ids -> Seq(Request)]
    /\ replies \in [Ids -> Seq(Note)]
    /\ pushes \in [Ids -> Seq(Note)]
    /\ events \in 0..MaxEvents

Init ==
    /\ SessionsInit
    /\ registry = [c \in Controllers |-> EmptyRegistry]
    /\ todo = [a \in Actors |-> <<>>]
    /\ bus = [c \in Controllers |-> <<>>]
    /\ clock = 0
    /\ wanted = Stored
    /\ link = [s \in Services |-> None]
    /\ fresh = [s \in Services |-> FALSE]
    /\ configs = [s \in Services |-> {}]
    /\ granted = [s \in Services |-> {}]
    /\ clients = [s \in Services |-> {}]
    /\ requests = [n \in Ids |-> <<>>]
    /\ replies = [n \in Ids |-> <<>>]
    /\ pushes = [n \in Ids |-> <<>>]
    /\ events = 0

-----------------------------------------------------------------------------
(* The service: MqttRuntime.                                               *)

(* A service without a connection opens one, to any controller. *)
Connect(n) ==
    /\ link[Svc(n)] = None
    /\ Cardinality({m \in Ids : phase[m] # "unused"}) < MaxConnects
    /\ Register(n)
    /\ link' = [link EXCEPT ![Svc(n)] = n]
    /\ fresh' = [fresh EXCEPT ![Svc(n)] = TRUE]
    /\ UNCHANGED <<registry, todo, bus, clock, wanted, configs, granted,
                    clients, channelVars, events>>

(* ServiceConfigDelivery, the first message on a link, or                  *)
(* ServiceConfigUpdated: take over the configs, send the full set of       *)
(* desired keys and start the clients of the granted ones.  Only an update *)
(* stops the clients of the configs that went away.                        *)
ReceiveConfig(s) ==
    LET n == link[s]
        deleted == IF fresh[s] THEN {} ELSE configs[s] \ wanted
        keep == granted[s] \ deleted
    IN  /\ n # None
        /\ fresh[s] \/ configs[s] # wanted
        /\ fresh' = [fresh EXCEPT ![s] = FALSE]
        /\ configs' = [configs EXCEPT ![s] = wanted]
        /\ granted' = [granted EXCEPT ![s] = keep]
        /\ clients' = [clients EXCEPT ![s] =
                            (@ \ deleted) \cup (keep \cap wanted)]
        /\ requests' = [requests EXCEPT ![n] =
                            Append(@, [type |-> "claim", keys |-> wanted])]
        /\ UNCHANGED <<sessionVars, registry, todo, bus, clock, wanted, link,
                       replies, pushes, events>>

(* WorkloadClaimResult: granted_keys becomes the granted set of this one   *)
(* message, the clients of rejected keys stop, those of granted keys with  *)
(* a config start.                                                         *)
Adopt(s, note) ==
    /\ granted' = [granted EXCEPT ![s] = note.granted]
    /\ clients' = [clients EXCEPT ![s] =
                        (@ \ note.rejected) \cup (note.granted \cap configs[s])]
    /\ UNCHANGED <<sessionVars, registry, todo, bus, clock, wanted, link, fresh,
                   configs, requests, events>>

ReceiveReply(s) ==
    LET n == link[s]
    IN  /\ n # None /\ replies[n] # <<>>
        /\ Adopt(s, Head(replies[n]))
        /\ replies' = [replies EXCEPT ![n] = Tail(@)]
        /\ UNCHANGED pushes

ReceivePush(s) ==
    LET n == link[s]
    IN  /\ n # None /\ pushes[n] # <<>>
        /\ Adopt(s, Head(pushes[n]))
        /\ pushes' = [pushes EXCEPT ![n] = Tail(@)]
        /\ UNCHANGED replies

(* A service gives up keys it was granted (WorkloadRelease).  The message  *)
(* is part of the protocol and the controllers handle it; the MQTT runtime *)
(* itself sends a smaller WorkloadClaim instead.                           *)
SendRelease(s) ==
    LET n == link[s]
    IN  /\ n # None /\ granted[s] # {}
        /\ Event
        /\ \E keys \in SUBSET granted[s] \ {{}} :
               /\ granted' = [granted EXCEPT ![s] = @ \ keys]
               /\ clients' = [clients EXCEPT ![s] = @ \ keys]
               /\ requests' = [requests EXCEPT ![n] =
                       Append(@, [type |-> "release", keys |-> keys])]
        /\ UNCHANGED <<sessionVars, registry, todo, bus, clock, wanted, link,
                       fresh, configs, replies, pushes>>

(* The service's end of a connection is gone; what was under way to the    *)
(* service is lost, what it had sent may still be read.                    *)
Unlinked(ss) ==
    LET cut == {link[s] : s \in ss} \ {None}
    IN  /\ link' = [s \in Services |-> IF s \in ss THEN None ELSE link[s]]
        /\ fresh' = [s \in Services |-> IF s \in ss THEN FALSE ELSE fresh[s]]
        /\ replies' = [n \in Ids |-> IF n \in cut THEN <<>> ELSE replies[n]]
        /\ pushes' = [n \in Ids |-> IF n \in cut THEN <<>> ELSE pushes[n]]

(* The connection breaks.  The runtime keeps its clients running. *)
LoseLink(s) ==
    /\ link[s] # None
    /\ Unlinked({s})
    /\ UNCHANGED <<sessionVars, registry, todo, bus, clock, wanted, configs,
                   granted, clients, requests, events>>

(* The service process ends and starts again, with nothing running. *)
CrashService(s) ==
    /\ link[s] # None
    /\ Event
    /\ Unlinked({s})
    /\ configs' = [configs EXCEPT ![s] = {}]
    /\ granted' = [granted EXCEPT ![s] = {}]
    /\ clients' = [clients EXCEPT ![s] = {}]
    /\ UNCHANGED <<sessionVars, registry, todo, bus, clock, wanted, requests>>

(* An administrator creates or deletes MQTT client configs. *)
EditConfig ==
    /\ Event
    /\ \E keys \in SUBSET Keys \ {wanted} : wanted' = keys
    /\ UNCHANGED <<sessionVars, registry, todo, bus, clock, serviceVars,
                   channelVars>>

Tick ==
    /\ clock < MaxTime
    /\ clock' = clock + 1
    /\ UNCHANGED <<sessionVars, registry, todo, bus, wanted, serviceVars,
                   channelVars, events>>

-----------------------------------------------------------------------------
(* The controller: the message processor of session n takes one request at *)
(* a time.                                                                 *)

Ready(n) == phase[n] = "live" /\ todo[n] = <<>> /\ requests[n] # <<>>

(* handle_workload_claim *)
HandleClaim(n) ==
    LET s == Svc(n)
        r == registry[Ctrl(n)]
        keys == Head(requests[n]).keys
        yes == Granted(r, s, keys)
        dropped == Dropped(r, s, keys)
    IN  /\ Ready(n) /\ Head(requests[n]).type = "claim"
        /\ registry' = [registry EXCEPT ![Ctrl(n)] =
                            TryClaim(r, s, Ctrl(n), keys, clock)]
        /\ todo' = [todo EXCEPT ![n] =
                For(yes \cup dropped, <<AnnounceStep(s, yes, dropped)>>)
                \o <<ReplyStep(s, yes, Rejected(r, s, keys))>>]
        /\ requests' = [requests EXCEPT ![n] = Tail(@)]
        /\ UNCHANGED <<sessionVars, bus, clock, wanted, serviceVars, replies,
                       pushes, events>>

(* handle_workload_release *)
HandleRelease(n) ==
    LET s == Svc(n)
        r == registry[Ctrl(n)]
        keys == Owned(r, s, Head(requests[n]).keys)
    IN  /\ Ready(n) /\ Head(requests[n]).type = "release"
        /\ registry' = [registry EXCEPT ![Ctrl(n)] = ReleaseKeys(r, s, keys)]
        /\ todo' = [todo EXCEPT ![n] =
                For(keys, <<AnnounceStep(s, {}, keys), OfferStep(keys)>>)]
        /\ requests' = [requests EXCEPT ![n] = Tail(@)]
        /\ UNCHANGED <<sessionVars, bus, clock, wanted, serviceVars, replies,
                       pushes, events>>

(* The next step of actor a is op; afterwards it goes on with more. *)
Due(a, op) == todo[a] # <<>> /\ Head(todo[a]).op = op
Continue(a, more) == todo' = [todo EXCEPT ![a] = more \o Tail(@)]

(* Publish an announcement.  It is stamped with the time of publication,   *)
(* and of the granted keys it names those that are still claimed by        *)
(* anyone.  A failed publish is logged and forgotten.                      *)
Announce(a) ==
    LET c == Home(a)
        step == Head(todo[a])
        ann == [svc |-> step.svc, ctrl |-> c, at |-> clock,
                claimed |-> {k \in step.claimed : Claimed(registry[c], k)},
                released |-> step.released]
    IN  /\ Due(a, "announce")
        /\ \/ /\ bus' = [d \in Controllers |->
                          IF d = c THEN bus[d] ELSE Append(bus[d], ann)]
              /\ UNCHANGED events
           \/ /\ Event
              /\ UNCHANGED bus
        /\ Continue(a, <<>>)
        /\ UNCHANGED <<sessionVars, registry, clock, wanted, serviceVars,
                       channelVars>>

(* A message for session n reaches the service if it still listens there. *)
Sent(queue, n, note) ==
    IF n # None /\ link[note.svc] = n
    THEN [queue EXCEPT ![n] = Append(@, note)] ELSE queue

(* The response of the processor, sent by the session's own loop *)
Reply(n) ==
    /\ Due(n, "reply")
    /\ replies' = Sent(replies, n, Head(todo[n]).note)
    /\ Continue(n, <<>>)
    /\ UNCHANGED <<sessionVars, registry, bus, clock, wanted, serviceVars,
                   requests, pushes, events>>

(* ServiceConnectionRegistry.send: to the current connection of a service *)
Push(a) ==
    LET conn == connections[Home(a)]
    IN  /\ Due(a, "push")
        /\ pushes' = [n \in Ids |->
              LET mine == {note \in Head(todo[a]).notes :
                              conn[note.svc] = n /\ link[note.svc] = n}
              IN  IF mine = {} THEN pushes[n]
                  ELSE Append(pushes[n], CHOOSE note \in mine : TRUE)]
        /\ Continue(a, <<>>)
        /\ UNCHANGED <<sessionVars, registry, bus, clock, wanted, serviceVars,
                       requests, replies, events>>

(* Released keys are offered to the local services that wanted them: a     *)
(* snapshot of the wishes, then one try_claim per service.  try_claim has  *)
(* its full-replacement meaning here too, with the wish as the whole set;  *)
(* what it drops is neither announced nor told to the service.             *)
Offer(a) ==
    LET wishes == Wishes(registry[Home(a)], Head(todo[a]).keys)
    IN  /\ Due(a, "offer")
        /\ Continue(a, For(wishes, <<RegrantStep(wishes)>>))
        /\ UNCHANGED <<sessionVars, registry, bus, clock, wanted, serviceVars,
                       channelVars, events>>

Regrant(a) ==
    LET c == Home(a)
        r == registry[c]
        wishes == Head(todo[a]).wishes
    IN  /\ Due(a, "regrant")
        /\ \E w \in wishes :
              LET yes == Granted(r, w.svc, w.keys)
                  no == Rejected(r, w.svc, w.keys)
                  rest == wishes \ {w}
              IN  /\ registry' = [registry EXCEPT ![c] =
                                    TryClaim(r, w.svc, c, w.keys, clock)]
                  /\ Continue(a,
                        For(yes, <<PushStep({[svc |-> w.svc, granted |-> yes,
                                              rejected |-> no]}),
                                   AnnounceStep(w.svc, yes, {})>>)
                        \o For(rest, <<RegrantStep(rest)>>))
        /\ UNCHANGED <<sessionVars, bus, clock, wanted, serviceVars,
                       channelVars, events>>

(* The NATS consumer of controller c applies the next announcement, tells  *)
(* the services that lost a key and offers the released keys.  If the      *)
(* acknowledgement is lost the same message is delivered again.            *)
Consume(c) ==
    LET ann == Head(bus[c])
        mid == AfterReleases(registry[c], ann)
        losers == {s \in Services : Revoked(mid, ann, s) # {}}
        notes == {[svc |-> s, granted |-> {}, rejected |-> Revoked(mid, ann, s)]
                    : s \in losers}
    IN  /\ todo[c] = <<>> /\ bus[c] # <<>>
        /\ registry' = [registry EXCEPT ![c] = ApplyAnnouncement(registry[c], ann)]
        /\ todo' = [todo EXCEPT ![c] =
                For(notes, <<PushStep(notes)>>)
                \o For(ann.released, <<OfferStep(ann.released)>>)]
        /\ \/ /\ bus' = [bus EXCEPT ![c] = Tail(@)]
              /\ UNCHANGED events
           \/ /\ Event
              /\ UNCHANGED bus
        /\ UNCHANGED <<sessionVars, clock, wanted, serviceVars, channelVars>>

(* The loop of session n ends: the socket broke or its token was           *)
(* cancelled.  Its processor is dropped wherever it is; unless the session *)
(* was replaced, the cleanup begins with the release of its claims.        *)
EndSession(n) ==
    /\ link[Svc(n)] # n \/ n \in cancelled
    /\ Finalize(n)
    /\ todo' = [todo EXCEPT ![n] = IF Replaced(n) THEN <<>> ELSE <<ReleaseStep>>]
    /\ requests' = [requests EXCEPT ![n] = <<>>]
    /\ Unlinked({s \in Services : link[s] = n})
    /\ UNCHANGED <<registry, bus, clock, wanted, configs, granted, clients, events>>

(* release_all_claims_on_disconnect *)
ReleaseClaims(n) ==
    LET s == Svc(n)
        r == registry[Ctrl(n)]
        keys == {k \in r.byService[s] : Claimed(r, k)}
    IN  /\ Due(n, "release")
        /\ registry' = [registry EXCEPT ![Ctrl(n)] = ReleaseAll(r, s)]
        /\ Continue(n, For(keys, <<AnnounceStep(s, {}, keys), OfferStep(keys)>>))
        /\ UNCHANGED <<sessionVars, bus, clock, wanted, serviceVars,
                       channelVars, events>>

(* The end of the cleanup *)
EndCleanup(n) ==
    /\ todo[n] = <<>>
    /\ Unregister(n)
    /\ UNCHANGED <<registry, todo, bus, clock, wanted, serviceVars,
                   channelVars, events>>

(* An administrator deactivates a service. *)
Deactivate(c, s) ==
    /\ Event
    /\ ForceDisconnect(c, s)
    /\ UNCHANGED <<registry, todo, bus, clock, wanted, serviceVars, channelVars>>

(* A controller restarts: registry, sessions and handlers are gone, and    *)
(* its consumer, created under a new controller id with DeliverPolicy::New,*)
(* sees only what is published from now on.                                *)
RestartController(c) ==
    /\ Event
    /\ Restart(c)
    /\ registry' = [registry EXCEPT ![c] = EmptyRegistry]
    /\ todo' = [a \in Actors |-> IF Home(a) = c THEN <<>> ELSE todo[a]]
    /\ bus' = [bus EXCEPT ![c] = <<>>]
    /\ requests' = [n \in Ids |-> IF Ctrl(n) = c THEN <<>> ELSE requests[n]]
    /\ Unlinked({s \in Services : link[s] # None /\ Ctrl(link[s]) = c})
    /\ UNCHANGED <<clock, wanted, configs, granted, clients>>

-----------------------------------------------------------------------------
Next ==
    \/ \E n \in Ids : Connect(n) \/ HandleClaim(n) \/ HandleRelease(n)
                        \/ Reply(n) \/ EndSession(n) \/ ReleaseClaims(n)
                        \/ EndCleanup(n)
    \/ \E s \in Services : ReceiveConfig(s) \/ ReceiveReply(s)
                        \/ ReceivePush(s) \/ SendRelease(s) \/ LoseLink(s)
                        \/ CrashService(s)
    \/ \E a \in Actors : Announce(a) \/ Push(a) \/ Offer(a) \/ Regrant(a)
    \/ \E c \in Controllers : Consume(c) \/ RestartController(c)
                        \/ \E s \in Services : Deactivate(c, s)
    \/ EditConfig
    \/ Tick

Spec == Init /\ [][Next]_vars

-----------------------------------------------------------------------------
(* The indexes of a registry agree on every controller whatever requests,  *)
(* disconnects, offers and announcements are applied to it in whatever     *)
(* order: by_service lists exactly the keys a service owns.  release       *)
(* depends on it, for it frees every key of the reverse index without      *)
(* looking at the owner, who might be another service.                     *)
IndexConsistent ==
    \A c \in Controllers, s \in Services :
        registry[c].byService[s] = {k \in Keys : OwnedBy(registry[c], k, s)}

(* The routing index by which SoftwareStates and host connectivity are     *)
(* delivered names exactly the services that own a config of the tenant,   *)
(* although most operations rebuild it only for the services they know to  *)
(* be affected.                                                            *)
RoutingIsExact ==
    \A c \in Controllers, t \in Tenants :
        registry[c].tenants[t] =
            {s \in Services :
                \E k \in Keys : TenantOf[k] = t /\ OwnedBy(registry[c], k, s)}

(* A key changes hands directly only when a controller applies the         *)
(* announcement of an earlier claim: no request, offer or cleanup on       *)
(* behalf of one service takes a key from another.                         *)
NoTheft ==
    [][\A c \in Controllers, k \in Keys :
            LET old == registry[c].claims[k]
                new == registry'[c].claims[k]
            IN  (old # None /\ new # None /\ old.svc # new.svc) =>
                    /\ bus[c] # <<>> /\ todo[c] = <<>>
                    /\ Earlier(new, old)]_vars

-----------------------------------------------------------------------------
(* Nothing is under way: every handler is done, every message read, every  *)
(* dead session cleaned up, and each connected service has the configs.    *)
Quiet ==
    /\ \A a \in Actors : todo[a] = <<>>
    /\ \A c \in Controllers : bus[c] = <<>>
    /\ \A n \in Ids :
           /\ requests[n] = <<>> /\ replies[n] = <<>> /\ pushes[n] = <<>>
           /\ phase[n] # "cleanup"
           /\ phase[n] = "live" => link[Svc(n)] = n /\ n \notin cancelled
    /\ \A s \in Services : ~fresh[s] /\ (link[s] = None \/ configs[s] = wanted)

(* What the module comment of workload_claims.rs and the documentation     *)
(* promise: once everything has settled, no two connected services run an  *)
(* MQTT client for the same config.                                        *)
ServedByOne ==
    Quiet =>
        \A s, t \in Services :
            (s # t /\ link[s] # None /\ link[t] # None) =>
                clients[s] \cap clients[t] = {}
=============================================================================
