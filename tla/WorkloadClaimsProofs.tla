-------------------------- MODULE WorkloadClaimsProofs --------------------------
(***************************************************************************)
(* The claim registries of the controllers, proved: what each operation of *)
(* the registry preserves, and from that the invariants of the system.     *)
(***************************************************************************)
EXTENDS WorkloadClaims, ServiceSessionsProofs

-----------------------------------------------------------------------------
(* One registry.                                                           *)

(* by_service lists exactly the keys a service owns. *)
Indexed(r) ==
    \A s \in Services : r.byService[s] = {k \in Keys : OwnedBy(r, k, s)}

(* Whether s owns a key of tenant t, and the routing index restricted to   *)
(* the services that an operation does not rebuild.                        *)
OwnsIn(r, s, t) == \E k \in Keys : TenantOf[k] = t /\ OwnedBy(r, k, s)

RoutedBut(r, ss) ==
    \A t \in Tenants, s \in Services \ ss : s \in r.tenants[t] <=> OwnsIn(r, s, t)

(* What every operation keeps. *)
Consistent(r) == r \in Registry /\ Indexed(r) /\ RoutedBut(r, {})

(* No key passes from one owner to another. *)
NoneTaken(r, q) ==
    \A k \in Keys : Claimed(r, k) /\ Claimed(q, k) => r.claims[k].svc = q.claims[k].svc

LEMMA OwnerParts ==
    ASSUME NEW r \in Registry, NEW k \in Keys, Claimed(r, k)
    PROVE  r.claims[k] \in Owner
  BY DEF Registry, Claimed

(* rebuild_tenant_index_for_service makes the routing index exact again    *)
(* when it was exact for the services it is not called for.                *)
LEMMA ReindexedIsConsistent ==
    ASSUME NEW r \in Registry, NEW ss \in SUBSET Services,
           Indexed(r), RoutedBut(r, ss)
    PROVE  /\ Consistent(Reindexed(r, ss))
           /\ Reindexed(r, ss).claims = r.claims
  <1> DEFINE q == Reindexed(r, ss)
  <1>1. /\ q.claims = r.claims /\ q.byService = r.byService /\ q.pending = r.pending
        /\ q.tenants = [t \in Tenants |->
                           (r.tenants[t] \ ss) \cup {s \in ss : Serves(r, s, t)}]
    BY DEF Reindexed, Registry
  <1>2. q \in Registry
    BY DEF Reindexed, Registry
  <1>3. ASSUME NEW k \in Keys, NEW s \in Services
        PROVE  OwnedBy(q, k, s) <=> OwnedBy(r, k, s)
    BY <1>1 DEF OwnedBy, Claimed
  <1>4. Indexed(q)
    BY <1>1, <1>3 DEF Indexed
  <1>5. RoutedBut(q, {})
    <2> SUFFICES ASSUME NEW t \in Tenants, NEW s \in Services
                 PROVE  s \in q.tenants[t] <=> OwnsIn(q, s, t)
      BY DEF RoutedBut
    <2>1. OwnsIn(q, s, t) <=> OwnsIn(r, s, t)
      BY <1>3 DEF OwnsIn
    <2>2. CASE s \in ss
      <3>1. Serves(r, s, t) <=> OwnsIn(r, s, t)
        BY DEF Serves, OwnsIn, Indexed, OwnedBy
      <3>. QED BY <1>1, <2>1, <2>2, <3>1
    <2>3. CASE s \notin ss
      BY <1>1, <2>1, <2>3 DEF RoutedBut
    <2>. QED BY <2>2, <2>3
  <1>. QED BY <1>1, <1>2, <1>4, <1>5 DEF Consistent

(* An operation that changes who owns what only for keys of the services   *)
(* of ss leaves the routing of the others exact.                           *)
LEMMA OthersStayRouted ==
    ASSUME NEW r, NEW q, NEW ss \in SUBSET Services,
           Consistent(r), q.tenants = r.tenants,
           \A k \in Keys, s \in Services \ ss : OwnedBy(q, k, s) <=> OwnedBy(r, k, s)
    PROVE  RoutedBut(q, ss)
  BY DEF Consistent, RoutedBut, OwnsIn

(* try_claim never takes a key from its owner.                             *)
LEMMA TryClaimIsConsistent ==
    ASSUME NEW r, Consistent(r), NEW s \in Services, NEW c \in Controllers,
           NEW desired \in SUBSET Keys, NEW now \in 0..MaxTime
    PROVE  /\ Consistent(TryClaim(r, s, c, desired, now))
           /\ NoneTaken(r, TryClaim(r, s, c, desired, now))
  <1> DEFINE new == Granted(r, s, desired)
             old == r.byService[s] \ desired
             q == [r EXCEPT
                    !.claims = [k \in Keys |->
                        IF k \in new THEN [svc |-> s, ctrl |-> c, at |-> now]
                        ELSE IF k \in old THEN None ELSE r.claims[k]],
                    !.byService = [r.byService EXCEPT ![s] = (@ \ old) \cup new],
                    !.pending = [r.pending EXCEPT ![s] = Rejected(r, s, desired)]]
  <1>1. r \in Registry /\ Indexed(r)
    BY DEF Consistent
  <1>2. TryClaim(r, s, c, desired, now) = Reindexed(q, {s})
    BY DEF TryClaim
  <1>3. [svc |-> s, ctrl |-> c, at |-> now] \in Owner
    BY DEF Owner
  <1>4. /\ new \in SUBSET Keys /\ old \in SUBSET Keys
        /\ Rejected(r, s, desired) \in SUBSET Keys
    BY <1>1 DEF Granted, Rejected, Registry
  <1> HIDE DEF new, old
  <1>5. /\ q.claims = [k \in Keys |->
              IF k \in new THEN [svc |-> s, ctrl |-> c, at |-> now]
              ELSE IF k \in old THEN None ELSE r.claims[k]]
        /\ q.byService = [r.byService EXCEPT ![s] = (r.byService[s] \ old) \cup new]
        /\ q.tenants = r.tenants
        /\ q \in Registry
    BY <1>1, <1>3, <1>4 DEF Registry
  <1>6. \A k \in new : ~Claimed(r, k)
    BY <1>1 DEF new, Granted, Rejected, Indexed, OwnedBy
  <1>7. \A k \in old : OwnedBy(r, k, s)
    BY <1>1 DEF old, Indexed
  <1> HIDE DEF q
  <1>8. ASSUME NEW k \in Keys
        PROVE  /\ k \in new => OwnedBy(q, k, s) /\ q.claims[k].svc = s
               /\ k \notin new /\ k \in old => ~Claimed(q, k)
               /\ k \notin new /\ k \notin old => q.claims[k] = r.claims[k]
    BY <1>3, <1>5, NoneOwnsNothing DEF OwnedBy, Claimed
  <1>9. ASSUME NEW k \in Keys, NEW p \in Services, p # s
        PROVE  OwnedBy(q, k, p) <=> OwnedBy(r, k, p)
    BY <1>6, <1>7, <1>8, <1>9 DEF OwnedBy, Claimed
  <1>10. Indexed(q)
    <2> SUFFICES ASSUME NEW p \in Services
                 PROVE  q.byService[p] = {k \in Keys : OwnedBy(q, k, p)}
      BY DEF Indexed
    <2>1. r.byService[p] = {k \in Keys : OwnedBy(r, k, p)}
      BY <1>1 DEF Indexed
    <2>2. CASE p = s
      <3>1. q.byService[s] = (r.byService[s] \ old) \cup new
        BY <1>1, <1>5 DEF Registry
      <3>2. ASSUME NEW k \in Keys
            PROVE  k \in q.byService[s] <=> OwnedBy(q, k, s)
        BY <1>6, <1>8, <2>1, <2>2, <3>1 DEF OwnedBy, Claimed
      <3>. QED BY <1>4, <2>1, <2>2, <3>1, <3>2
    <2>3. CASE p # s
      BY <1>1, <1>5, <1>9, <2>1, <2>3 DEF Registry
    <2>. QED BY <2>2, <2>3
  <1>11. RoutedBut(q, {s})
    BY <1>5, <1>9, OthersStayRouted
  <1>12. /\ Consistent(Reindexed(q, {s})) /\ Reindexed(q, {s}).claims = q.claims
    BY <1>5, <1>10, <1>11, ReindexedIsConsistent
  <1>13. NoneTaken(r, Reindexed(q, {s}))
    BY <1>6, <1>8, <1>12 DEF NoneTaken, Claimed, OwnedBy
  <1>. QED BY <1>2, <1>12, <1>13

(* release frees every key of the reverse index without looking at its     *)
(* owner; since the index is exact they are all keys of the service.       *)
LEMMA ReleaseAllIsConsistent ==
    ASSUME NEW r, Consistent(r), NEW s \in Services
    PROVE  /\ Consistent(ReleaseAll(r, s))
           /\ NoneTaken(r, ReleaseAll(r, s))
  <1> DEFINE old == r.byService[s]
             q == [r EXCEPT
                    !.claims = [k \in Keys |->
                        IF k \in r.byService[s] THEN None ELSE r.claims[k]],
                    !.byService = [r.byService EXCEPT ![s] = {}],
                    !.pending = [r.pending EXCEPT ![s] = {}]]
  <1>1. r \in Registry /\ Indexed(r)
    BY DEF Consistent
  <1>2. ReleaseAll(r, s) = Reindexed(q, {s})
    BY DEF ReleaseAll
  <1>3. /\ q.claims = [k \in Keys |-> IF k \in old THEN None ELSE r.claims[k]]
        /\ q.byService = [r.byService EXCEPT ![s] = {}]
        /\ q.tenants = r.tenants
        /\ q \in Registry
    BY <1>1 DEF Registry
  <1>4. \A k \in Keys : k \in old <=> OwnedBy(r, k, s)
    BY <1>1 DEF Indexed
  <1> HIDE DEF q, old
  <1>5. ASSUME NEW k \in Keys
        PROVE  /\ k \in old => ~Claimed(q, k)
               /\ k \notin old => q.claims[k] = r.claims[k]
    BY <1>3 DEF Claimed
  <1>6. ASSUME NEW k \in Keys, NEW p \in Services
        PROVE  OwnedBy(q, k, p) <=> OwnedBy(r, k, p) /\ p # s
    BY <1>4, <1>5 DEF OwnedBy, Claimed
  <1>7. Indexed(q)
    BY <1>1, <1>3, <1>6 DEF Indexed, Registry
  <1>8. RoutedBut(q, {s})
    BY <1>3, <1>6, OthersStayRouted
  <1>9. /\ Consistent(Reindexed(q, {s})) /\ Reindexed(q, {s}).claims = q.claims
    BY <1>3, <1>7, <1>8, ReindexedIsConsistent
  <1>10. NoneTaken(r, Reindexed(q, {s}))
    BY <1>5, <1>9 DEF NoneTaken, Claimed
  <1>. QED BY <1>2, <1>9, <1>10

(* Keys a service owns are freed, in release_keys and in the first half of *)
(* apply_remote_announcement.                                              *)
Freed(r, s, gone) ==
    [r EXCEPT !.claims = [k \in Keys |-> IF k \in gone THEN None ELSE r.claims[k]],
              !.byService = [r.byService EXCEPT ![s] = @ \ gone]]

LEMMA FreedIsIndexed ==
    ASSUME NEW r \in Registry, Indexed(r), NEW s \in Services, NEW gone \in SUBSET Keys,
           \A k \in gone : OwnedBy(r, k, s)
    PROVE  /\ Freed(r, s, gone) \in Registry
           /\ Indexed(Freed(r, s, gone))
           /\ Freed(r, s, gone).tenants = r.tenants
           /\ \A k \in Keys : Freed(r, s, gone).claims[k] =
                                  IF k \in gone THEN None ELSE r.claims[k]
           /\ \A k \in Keys, p \in Services :
                  OwnedBy(Freed(r, s, gone), k, p) <=> OwnedBy(r, k, p) /\ k \notin gone
  <1> DEFINE q == Freed(r, s, gone)
  <1>1. /\ q.claims = [k \in Keys |-> IF k \in gone THEN None ELSE r.claims[k]]
        /\ q.byService = [r.byService EXCEPT ![s] = r.byService[s] \ gone]
        /\ q.tenants = r.tenants
        /\ q \in Registry
    BY DEF Registry, Freed
  <1> HIDE DEF q
  <1>2. \A k \in Keys : q.claims[k] = IF k \in gone THEN None ELSE r.claims[k]
    BY <1>1
  <1>3. ASSUME NEW k \in Keys, NEW p \in Services
        PROVE  OwnedBy(q, k, p) <=> OwnedBy(r, k, p) /\ k \notin gone
    BY <1>2 DEF OwnedBy, Claimed
  <1>4. Indexed(q)
    <2> SUFFICES ASSUME NEW p \in Services
                 PROVE  q.byService[p] = {k \in Keys : OwnedBy(q, k, p)}
      BY DEF Indexed
    <2>1. r.byService[p] = {k \in Keys : OwnedBy(r, k, p)}
      BY DEF Indexed
    <2>2. CASE p = s
      BY <1>1, <1>3, <2>1, <2>2 DEF Registry
    <2>3. CASE p # s
      <3>1. \A k \in gone : ~OwnedBy(r, k, p)
        BY <2>3 DEF OwnedBy
      <3>. QED BY <1>1, <1>3, <2>1, <2>3, <3>1 DEF Registry
    <2>. QED BY <2>2, <2>3
  <1>. QED BY <1>1, <1>2, <1>3, <1>4 DEF q

LEMMA ReleaseKeysIsConsistent ==
    ASSUME NEW r, Consistent(r), NEW s \in Services, NEW keys \in SUBSET Keys
    PROVE  /\ Consistent(ReleaseKeys(r, s, keys))
           /\ NoneTaken(r, ReleaseKeys(r, s, keys))
  <1> DEFINE given == Owned(r, s, keys)
             ss == IF given = {} THEN {} ELSE {s}
             q == Freed(r, s, given)
  <1>1. r \in Registry /\ Indexed(r)
    BY DEF Consistent
  <1>2. given \in SUBSET Keys /\ \A k \in given : OwnedBy(r, k, s)
    BY DEF Owned
  <1>3. ReleaseKeys(r, s, keys) = Reindexed(q, ss)
    BY DEF ReleaseKeys, Freed
  <1>4. /\ q \in Registry /\ Indexed(q) /\ q.tenants = r.tenants
        /\ \A k \in Keys : q.claims[k] = IF k \in given THEN None ELSE r.claims[k]
        /\ \A k \in Keys, p \in Services :
               OwnedBy(q, k, p) <=> OwnedBy(r, k, p) /\ k \notin given
    BY <1>1, <1>2, FreedIsIndexed
  <1> HIDE DEF q
  <1>5. \A k \in Keys, p \in Services \ ss : OwnedBy(q, k, p) <=> OwnedBy(r, k, p)
    BY <1>2, <1>4 DEF OwnedBy
  <1>6. RoutedBut(q, ss)
    BY <1>4, <1>5, OthersStayRouted
  <1>7. Consistent(Reindexed(q, ss)) /\ Reindexed(q, ss).claims = q.claims
    BY <1>4, <1>6, ReindexedIsConsistent
  <1>8. NoneTaken(r, Reindexed(q, ss))
    BY <1>4, <1>7 DEF NoneTaken, Claimed
  <1>. QED BY <1>3, <1>7, <1>8

(* apply_remote_announcement takes a key from another service only for an  *)
(* earlier claim, and rebuilds the routing of everybody who loses a key.   *)
LEMMA ApplyIsConsistent ==
    ASSUME NEW r, Consistent(r), NEW a \in Announcement
    PROVE  /\ Consistent(ApplyAnnouncement(r, a))
           /\ \A k \in Keys :
                LET old == r.claims[k]
                    new == ApplyAnnouncement(r, a).claims[k]
                IN  old # None /\ new # None /\ old.svc # new.svc => Earlier(new, old)
  <1> DEFINE gone == Owned(r, a.svc, a.released)
             mid == Freed(r, a.svc, gone)
             taken == Taken(mid, a)
             new == [svc |-> a.svc, ctrl |-> a.ctrl, at |-> a.at]
             q == AfterClaims(mid, a)
             ss == {s \in Services : s = a.svc \/ Revoked(mid, a, s) # {}}
  <1>1. r \in Registry /\ Indexed(r)
    BY DEF Consistent
  <1>2. /\ a.svc \in Services /\ a.claimed \in SUBSET Keys
        /\ gone \in SUBSET Keys /\ \A k \in gone : OwnedBy(r, k, a.svc)
        /\ new \in Owner
    BY DEF Owned, Announcement, Owner
  <1>3. mid = AfterReleases(r, a)
    BY DEF AfterReleases, Freed
  <1>4. /\ mid \in Registry /\ Indexed(mid) /\ mid.tenants = r.tenants
        /\ \A k \in Keys : mid.claims[k] = IF k \in gone THEN None ELSE r.claims[k]
        /\ \A k \in Keys, p \in Services :
               OwnedBy(mid, k, p) <=> OwnedBy(r, k, p) /\ k \notin gone
    BY <1>1, <1>2, FreedIsIndexed
  <1>5. ApplyAnnouncement(r, a) = Reindexed(q, ss)
    BY <1>3 DEF ApplyAnnouncement
  <1> HIDE DEF mid, gone
  <1>6. /\ taken \in SUBSET Keys
        /\ \A k \in taken : Claimed(mid, k) /\ mid.claims[k].svc # a.svc
                                => Earlier(a, mid.claims[k])
    BY <1>2 DEF Taken
  <1>7. ASSUME NEW s \in Services
        PROVE  /\ Revoked(mid, a, s) \in SUBSET Keys
               /\ \A k \in Keys : k \in Revoked(mid, a, s) <=>
                      k \in taken /\ s # a.svc /\ OwnedBy(mid, k, s)
    BY <1>6 DEF Revoked
  <1> HIDE DEF taken, new
  <1>8. /\ q.claims = [k \in Keys |-> IF k \in taken THEN new ELSE mid.claims[k]]
        /\ q.byService = [s \in Services |->
                IF s = a.svc THEN mid.byService[s] \cup taken
                ELSE mid.byService[s] \ Revoked(mid, a, s)]
        /\ q.tenants = mid.tenants
    BY <1>4 DEF AfterClaims, Registry, new, taken
  <1>9. q \in Registry
    <2>1. [k \in Keys |-> IF k \in taken THEN new ELSE mid.claims[k]]
              \in [Keys -> Owner \cup {None}]
      BY <1>2, <1>4 DEF Registry
    <2>2. [s \in Services |-> IF s = a.svc THEN mid.byService[s] \cup taken
                              ELSE mid.byService[s] \ Revoked(mid, a, s)]
              \in [Services -> SUBSET Keys]
      BY <1>4, <1>6 DEF Registry
    <2>. QED BY <1>4, <2>1, <2>2 DEF AfterClaims, Registry, new, taken
  <1> HIDE DEF q
  <1>10. \A k \in Keys : q.claims[k] = IF k \in taken THEN new ELSE mid.claims[k]
    BY <1>8
  <1>11. new.svc = a.svc /\ new.at = a.at /\ new # None
    BY <1>2, NoneOwnsNothing DEF new
  <1>12. ASSUME NEW k \in Keys, NEW p \in Services
         PROVE  OwnedBy(q, k, p) <=>
                    \/ k \in taken /\ p = a.svc
                    \/ k \notin taken /\ OwnedBy(mid, k, p)
    BY <1>10, <1>11 DEF OwnedBy, Claimed
  <1>13. Indexed(q)
    <2> SUFFICES ASSUME NEW p \in Services
                 PROVE  q.byService[p] = {k \in Keys : OwnedBy(q, k, p)}
      BY DEF Indexed
    <2>1. mid.byService[p] = {k \in Keys : OwnedBy(mid, k, p)}
      BY <1>4 DEF Indexed
    <2>2. CASE p = a.svc
      BY <1>6, <1>8, <1>12, <2>1, <2>2
    <2>3. CASE p # a.svc
      <3>1. q.byService[p] = mid.byService[p] \ Revoked(mid, a, p)
        BY <1>8, <2>3
      <3>. QED BY <1>7, <1>12, <2>1, <2>3, <3>1
    <2>. QED BY <2>2, <2>3
  <1>14. RoutedBut(q, ss)
    <2>1. ASSUME NEW k \in Keys, NEW p \in Services \ ss
          PROVE  OwnedBy(q, k, p) <=> OwnedBy(r, k, p)
      <3>1. p # a.svc /\ Revoked(mid, a, p) = {}
        OBVIOUS
      <3>2. k \in gone => ~OwnedBy(r, k, p)
        BY <1>2, <3>1 DEF OwnedBy
      <3>. QED BY <1>4, <1>7, <1>12, <3>1, <3>2
    <2>2. ss \in SUBSET Services /\ q.tenants = r.tenants
      BY <1>4, <1>8
    <2> HIDE DEF ss
    <2>. QED BY <2>1, <2>2, OthersStayRouted
  <1>15. Consistent(Reindexed(q, ss)) /\ Reindexed(q, ss).claims = q.claims
    <2>1. ss \in SUBSET Services
      OBVIOUS
    <2> HIDE DEF ss
    <2>. QED BY <1>9, <1>13, <1>14, <2>1, ReindexedIsConsistent
  <1>16. ASSUME NEW k \in Keys, r.claims[k] # None, q.claims[k] # None,
                r.claims[k].svc # q.claims[k].svc
         PROVE  Earlier(q.claims[k], r.claims[k])
    <2>1. k \in taken /\ q.claims[k] = new
      BY <1>4, <1>10, <1>16
    <2>2. k \notin gone
      BY <1>2, <1>11, <1>16, <2>1 DEF OwnedBy
    <2>3. Earlier(a, r.claims[k])
      BY <1>4, <1>6, <1>11, <1>16, <2>1, <2>2 DEF Claimed
    <2>. QED BY <1>11, <2>1, <2>3 DEF Earlier
  <1>. QED BY <1>5, <1>15, <1>16

-----------------------------------------------------------------------------
(* The steps of a handler.                                                 *)

LEMMA HomeIsController ==
    ASSUME NEW a \in Actors
    PROVE  Home(a) \in Controllers
  BY IdParts DEF Actors, Home

LEMMA StepParts ==
    ASSUME NEW step \in Step
    PROVE  /\ step.op = "announce" =>
                  /\ step.svc \in Services
                  /\ step.claimed \in SUBSET Keys /\ step.released \in SUBSET Keys
           /\ step.op = "reply" => step.note \in Note
           /\ step.op = "push" => step.notes \in SUBSET Note
           /\ step.op = "offer" => step.keys \in SUBSET Keys
           /\ step.op = "regrant" => step.wishes \in SUBSET Wish
  BY DEF Step

LEMMA StepsAreTyped ==
    /\ \A s \in Services, x, y \in SUBSET Keys :
           AnnounceStep(s, x, y) \in Step /\ ReplyStep(s, x, y) \in Step
    /\ \A notes \in SUBSET Note : PushStep(notes) \in Step
    /\ \A keys \in SUBSET Keys : OfferStep(keys) \in Step
    /\ \A wishes \in SUBSET Wish : RegrantStep(wishes) \in Step
    /\ ReleaseStep \in Step
  <1>1. \A s \in Services, x, y \in SUBSET Keys :
            AnnounceStep(s, x, y) \in Step /\ ReplyStep(s, x, y) \in Step
    BY DEF AnnounceStep, ReplyStep, Step, Note
  <1>2. /\ \A notes \in SUBSET Note : PushStep(notes) \in Step
        /\ \A keys \in SUBSET Keys : OfferStep(keys) \in Step
        /\ \A wishes \in SUBSET Wish : RegrantStep(wishes) \in Step
        /\ ReleaseStep \in Step
    BY DEF PushStep, OfferStep, RegrantStep, ReleaseStep, Step
  <1>. QED BY <1>1, <1>2

LEMMA ForIsTyped ==
    ASSUME NEW what, NEW steps \in Seq(Step)
    PROVE  For(what, steps) \in Seq(Step)
  BY DEF For

LEMMA ContinueIsTyped ==
    ASSUME todo \in [Actors -> Seq(Step)], NEW a \in Actors, todo[a] # <<>>,
           NEW more \in Seq(Step), Continue(a, more)
    PROVE  todo' \in [Actors -> Seq(Step)]
  <1>1. Tail(todo[a]) \in Seq(Step)
    OBVIOUS
  <1>2. more \o Tail(todo[a]) \in Seq(Step)
    BY <1>1
  <1>. QED BY <1>2 DEF Continue

(* The next step of an actor has the type of its kind. *)
LEMMA DueIsTyped ==
    ASSUME TypeOK, NEW a \in Actors, NEW op, Due(a, op)
    PROVE  todo[a] # <<>> /\ Head(todo[a]) \in Step /\ Head(todo[a]).op = op
  BY DEF TypeOK, Due

(* The next request of a session has the type of a request. *)
LEMMA ReadyIsTyped ==
    ASSUME TypeOK, NEW n \in Ids, Ready(n)
    PROVE  /\ requests[n] \in Seq(Request) /\ requests[n] # <<>>
           /\ Head(requests[n]) \in Request
           /\ Head(requests[n]).keys \in SUBSET Keys
  <1>1. requests[n] \in Seq(Request) /\ requests[n] # <<>>
    BY DEF TypeOK, Ready
  <1>2. Head(requests[n]) \in Request
    BY <1>1
  <1>. QED BY <1>1, <1>2 DEF Request

-----------------------------------------------------------------------------
(* The system.                                                             *)

RegistriesConsistent == \A c \in Controllers : Consistent(registry[c])

(* The inductive invariant.  Types are part of it: an operation is only    *)
(* known to keep a registry consistent for keys and services that exist,   *)
(* and these come out of messages and of the steps of handlers.            *)
ClaimsInv == TypeOK /\ SessionsInv /\ RegistriesConsistent

(* A step changes one registry at most.  It takes no key from its owner,   *)
(* unless the consumer of that controller applies an announcement, and     *)
(* then only for an earlier claim.                                         *)
Taking(r, q) ==
    \A k \in Keys :
        r.claims[k] # None /\ q.claims[k] # None /\ r.claims[k].svc # q.claims[k].svc =>
            Earlier(q.claims[k], r.claims[k])

RegistryStep ==
    \/ UNCHANGED registry
    \/ \E c \in Controllers : \E q \in Registry :
          /\ Consistent(q)
          /\ registry' = [registry EXCEPT ![c] = q]
          /\ \/ NoneTaken(registry[c], q)
             \/ bus[c] # <<>> /\ todo[c] = <<>> /\ Taking(registry[c], q)

LEMMA InitiallyConsistent == Init => ClaimsInv
  <1> SUFFICES ASSUME Init PROVE ClaimsInv
    OBVIOUS
  <1>1. SessionsInv
    BY SessionsInitially DEF Init
  <1>2. EmptyRegistry \in Registry
    BY DEF EmptyRegistry, Registry
  <1>3. Consistent(EmptyRegistry)
    BY <1>2 DEF EmptyRegistry, Consistent, Indexed, RoutedBut, OwnsIn, OwnedBy, Claimed
  <1>4. TypeOK
    <2>1. \A S : <<>> \in Seq(S)
      OBVIOUS
    <2>. QED BY <1>1, <1>2, <2>1, ClaimsAssumption DEF Init, TypeOK, SessionsInv
  <1>. QED BY <1>1, <1>3, <1>4 DEF Init, ClaimsInv, RegistriesConsistent

LEMMA StepsOfSessions == Next => SessionsStep
  <1> USE DEF SessionsStep
  <1>1. ASSUME NEW n \in Ids, Connect(n) \/ EndSession(n) \/ EndCleanup(n)
        PROVE  SessionsStep
    BY <1>1 DEF Connect, EndSession, EndCleanup
  <1>2. ASSUME NEW n \in Ids,
               HandleClaim(n) \/ HandleRelease(n) \/ Reply(n) \/ ReleaseClaims(n)
        PROVE  SessionsStep
    BY <1>2 DEF HandleClaim, HandleRelease, Reply, ReleaseClaims
  <1>3. ASSUME NEW s \in Services,
               \/ ReceiveConfig(s) \/ ReceiveReply(s) \/ ReceivePush(s)
               \/ SendRelease(s) \/ LoseLink(s) \/ CrashService(s)
        PROVE  SessionsStep
    BY <1>3 DEF ReceiveConfig, ReceiveReply, ReceivePush, Adopt, SendRelease, LoseLink,
       CrashService
  <1>4. ASSUME NEW a \in Actors, Announce(a) \/ Push(a) \/ Offer(a) \/ Regrant(a)
        PROVE  SessionsStep
    BY <1>4 DEF Announce, Push, Offer, Regrant
  <1>5. ASSUME NEW c \in Controllers,
               \/ Consume(c) \/ RestartController(c)
               \/ \E s \in Services : Deactivate(c, s)
        PROVE  SessionsStep
    BY <1>5 DEF Consume, RestartController, Deactivate
  <1>6. EditConfig \/ Tick => SessionsStep
    BY DEF EditConfig, Tick
  <1>. QED BY <1>1, <1>2, <1>3, <1>4, <1>5, <1>6 DEF Next

LEMMA StepsOfRegistries ==
    ASSUME ClaimsInv, Next
    PROVE  RegistryStep
  <1> USE DEF RegistryStep
  <1>1. /\ \A c \in Controllers : Consistent(registry[c]) /\ registry[c] \in Registry
        /\ clock \in 0..MaxTime
    BY DEF ClaimsInv, RegistriesConsistent, TypeOK
  <1>2. \A q : Consistent(q) => q \in Registry
    BY DEF Consistent
  <1>3. ASSUME NEW n \in Ids, HandleClaim(n)
        PROVE  RegistryStep
    <2> DEFINE keys == Head(requests[n]).keys
    <2>1. keys \in SUBSET Keys /\ Svc(n) \in Services /\ Ctrl(n) \in Controllers
      BY <1>3, ReadyIsTyped, IdParts DEF HandleClaim, ClaimsInv
    <2>2. registry' = [registry EXCEPT ![Ctrl(n)] =
                          TryClaim(registry[Ctrl(n)], Svc(n), Ctrl(n), keys, clock)]
      BY <1>3 DEF HandleClaim
    <2> HIDE DEF keys
    <2>. QED BY <1>1, <1>2, <2>1, <2>2, TryClaimIsConsistent
  <1>4. ASSUME NEW n \in Ids, HandleRelease(n)
        PROVE  RegistryStep
    <2> DEFINE keys == Owned(registry[Ctrl(n)], Svc(n), Head(requests[n]).keys)
    <2>1. keys \in SUBSET Keys /\ Svc(n) \in Services /\ Ctrl(n) \in Controllers
      BY <1>4, ReadyIsTyped, IdParts DEF HandleRelease, ClaimsInv, Owned
    <2>2. registry' = [registry EXCEPT ![Ctrl(n)] =
                          ReleaseKeys(registry[Ctrl(n)], Svc(n), keys)]
      BY <1>4 DEF HandleRelease
    <2> HIDE DEF keys
    <2>. QED BY <1>1, <1>2, <2>1, <2>2, ReleaseKeysIsConsistent
  <1>5. ASSUME NEW n \in Ids, ReleaseClaims(n)
        PROVE  RegistryStep
    <2>1. Svc(n) \in Services /\ Ctrl(n) \in Controllers
      BY IdParts
    <2>2. registry' = [registry EXCEPT ![Ctrl(n)] = ReleaseAll(registry[Ctrl(n)], Svc(n))]
      BY <1>5 DEF ReleaseClaims
    <2>. QED BY <1>1, <1>2, <2>1, <2>2, ReleaseAllIsConsistent
  <1>6. ASSUME NEW a \in Actors, Regrant(a)
        PROVE  RegistryStep
    <2>1. Head(todo[a]).wishes \in SUBSET Wish /\ Home(a) \in Controllers
      BY <1>6, DueIsTyped, StepParts, HomeIsController DEF Regrant, ClaimsInv
    <2>2. PICK w \in Head(todo[a]).wishes :
              registry' = [registry EXCEPT ![Home(a)] =
                  TryClaim(registry[Home(a)], w.svc, Home(a), w.keys, clock)]
      BY <1>6 DEF Regrant
    <2>3. w.svc \in Services /\ w.keys \in SUBSET Keys
      BY <2>1 DEF Wish
    <2>. QED BY <1>1, <1>2, <2>1, <2>2, <2>3, TryClaimIsConsistent
  <1>7. ASSUME NEW c \in Controllers, Consume(c)
        PROVE  RegistryStep
    <2>1. bus[c] # <<>> /\ todo[c] = <<>> /\ Head(bus[c]) \in Announcement
      BY <1>7 DEF Consume, ClaimsInv, TypeOK
    <2>2. registry' = [registry EXCEPT ![c] = ApplyAnnouncement(registry[c], Head(bus[c]))]
      BY <1>7 DEF Consume
    <2>3. /\ Consistent(ApplyAnnouncement(registry[c], Head(bus[c])))
          /\ Taking(registry[c], ApplyAnnouncement(registry[c], Head(bus[c])))
      BY <1>1, <2>1, ApplyIsConsistent DEF Taking
    <2>. QED BY <1>2, <2>1, <2>2, <2>3
  <1>8. ASSUME NEW c \in Controllers, RestartController(c)
        PROVE  RegistryStep
    <2>1. EmptyRegistry \in Registry
      BY DEF EmptyRegistry, Registry
    <2>2. Consistent(EmptyRegistry) /\ NoneTaken(registry[c], EmptyRegistry)
      BY <2>1 DEF EmptyRegistry, Consistent, Indexed, RoutedBut, OwnsIn, OwnedBy, Claimed,
         NoneTaken
    <2>. QED BY <1>8, <2>1, <2>2 DEF RestartController
  <1>9. ASSUME NEW n \in Ids, Connect(n) \/ Reply(n) \/ EndSession(n) \/ EndCleanup(n)
        PROVE  RegistryStep
    BY <1>9 DEF Connect, Reply, EndSession, EndCleanup
  <1>10. ASSUME NEW s \in Services,
                \/ ReceiveConfig(s) \/ ReceiveReply(s) \/ ReceivePush(s)
                \/ SendRelease(s) \/ LoseLink(s) \/ CrashService(s)
        PROVE  RegistryStep
    BY <1>10 DEF ReceiveConfig, ReceiveReply, ReceivePush, Adopt, SendRelease, LoseLink,
       CrashService
  <1>11. ASSUME NEW a \in Actors, Announce(a) \/ Push(a) \/ Offer(a)
         PROVE  RegistryStep
    BY <1>11 DEF Announce, Push, Offer
  <1>12. ASSUME NEW c \in Controllers, NEW s \in Services, Deactivate(c, s)
         PROVE  RegistryStep
    BY <1>12 DEF Deactivate
  <1>13. EditConfig \/ Tick => RegistryStep
    BY DEF EditConfig, Tick
  <1>. QED
    BY <1>3, <1>4, <1>5, <1>6, <1>7, <1>8, <1>9, <1>10, <1>11, <1>12, <1>13 DEF Next

(* What a step of one registry means for all of them. *)
LEMMA RegistriesStayConsistent ==
    ASSUME ClaimsInv, RegistryStep
    PROVE  RegistriesConsistent' /\ registry' \in [Controllers -> Registry]
  <1>1. /\ registry \in [Controllers -> Registry]
        /\ \A c \in Controllers : Consistent(registry[c])
    BY DEF ClaimsInv, RegistriesConsistent, TypeOK
  <1>2. CASE UNCHANGED registry
    BY <1>1, <1>2 DEF RegistriesConsistent
  <1>3. CASE \E c \in Controllers : \E q \in Registry :
                 Consistent(q) /\ registry' = [registry EXCEPT ![c] = q]
    BY <1>1, <1>3 DEF RegistriesConsistent
  <1>. QED BY <1>2, <1>3 DEF RegistryStep

(* The step formula of NoTheft. *)
Untaken ==
    \A c \in Controllers, k \in Keys :
        LET old == registry[c].claims[k]
            new == registry'[c].claims[k]
        IN  (old # None /\ new # None /\ old.svc # new.svc) =>
                /\ bus[c] # <<>> /\ todo[c] = <<>>
                /\ Earlier(new, old)

LEMMA RegistryStepTakesNothing ==
    ASSUME ClaimsInv, RegistryStep
    PROVE  Untaken
  <1>1. registry \in [Controllers -> Registry]
    BY DEF ClaimsInv, TypeOK
  <1>2. CASE UNCHANGED registry
    BY <1>2 DEF Untaken
  <1>3. ASSUME NEW c \in Controllers, NEW q \in Registry,
               registry' = [registry EXCEPT ![c] = q],
               \/ NoneTaken(registry[c], q)
               \/ bus[c] # <<>> /\ todo[c] = <<>> /\ Taking(registry[c], q)
        PROVE  Untaken
    <2>1. registry'[c] = q /\ \A d \in Controllers \ {c} : registry'[d] = registry[d]
      BY <1>1, <1>3
    <2>. QED BY <1>3, <2>1 DEF Untaken, NoneTaken, Claimed, Taking
  <1>. QED BY <1>2, <1>3 DEF RegistryStep

-----------------------------------------------------------------------------
(* Types: the registry and the sessions are dealt with above.              *)

LEMMA OperatorsAreTyped ==
    ASSUME NEW r \in Registry, NEW s \in Services, NEW keys \in SUBSET Keys
    PROVE  /\ Granted(r, s, keys) \in SUBSET Keys
           /\ Rejected(r, s, keys) \in SUBSET Keys
           /\ Dropped(r, s, keys) \in SUBSET Keys
           /\ Owned(r, s, keys) \in SUBSET Keys
           /\ {k \in r.byService[s] : Claimed(r, k)} \in SUBSET Keys
           /\ Wishes(r, keys) \in SUBSET Wish
  <1>1. r.byService[s] \in SUBSET Keys
    BY DEF Registry
  <1>2. Wishes(r, keys) \in SUBSET Wish
    BY DEF Wishes, Wish
  <1>. QED BY <1>1, <1>2 DEF Granted, Rejected, Dropped, Owned

(* An appended queue stays one, and so does one without its head. *)
LEMMA AppendIsTyped ==
    ASSUME NEW I, NEW S, NEW f \in [I -> Seq(S)], NEW i \in I, NEW e \in S
    PROVE  [f EXCEPT ![i] = Append(@, e)] \in [I -> Seq(S)]
  OBVIOUS

LEMMA TailIsTyped ==
    ASSUME NEW I, NEW S, NEW f \in [I -> Seq(S)], NEW i \in I, f[i] # <<>>
    PROVE  /\ [f EXCEPT ![i] = Tail(@)] \in [I -> Seq(S)]
           /\ Head(f[i]) \in S
  OBVIOUS

LEMMA UnlinkedIsTyped ==
    ASSUME TypeOK, NEW ss, Unlinked(ss)
    PROVE  /\ link' \in [Services -> Ids \cup {None}]
           /\ fresh' \in [Services -> BOOLEAN]
           /\ replies' \in [Ids -> Seq(Note)]
           /\ pushes' \in [Ids -> Seq(Note)]
  <1>1. <<>> \in Seq(Note)
    OBVIOUS
  <1>. QED BY <1>1 DEF Unlinked, TypeOK

LEMMA EventIsTyped ==
    ASSUME TypeOK, Event
    PROVE  events' \in 0..MaxEvents
  BY ClaimsAssumption DEF TypeOK, Event

(* What the service does. *)
LEMMA ServiceStepsAreTyped ==
    ASSUME TypeOK, SessionsTypeOK', registry' \in [Controllers -> Registry],
           NEW s \in Services,
           \/ ReceiveConfig(s) \/ ReceiveReply(s) \/ ReceivePush(s)
           \/ SendRelease(s) \/ LoseLink(s) \/ CrashService(s)
    PROVE  TypeOK'
  <1>1. CASE ReceiveConfig(s)
    <2>1. link[s] \in Ids
      BY <1>1 DEF ReceiveConfig, TypeOK
    <2>2. [type |-> "claim", keys |-> wanted] \in Request
      BY DEF TypeOK, Request
    <2>3. requests' \in [Ids -> Seq(Request)]
      BY <1>1, <2>1, <2>2, AppendIsTyped DEF ReceiveConfig, TypeOK
    <2>. QED BY <1>1, <2>3 DEF ReceiveConfig, TypeOK
  <1>2. ASSUME NEW note \in Note, Adopt(s, note)
        PROVE  granted' \in [Services -> SUBSET Keys] /\ clients' \in [Services -> SUBSET Keys]
    <2>1. note.granted \in SUBSET Keys
      BY DEF Note
    <2>. QED BY <1>2, <2>1 DEF Adopt, TypeOK
  <1>3. CASE ReceiveReply(s)
    <2>1. link[s] \in Ids
      BY <1>3 DEF ReceiveReply, TypeOK
    <2>2. replies' \in [Ids -> Seq(Note)] /\ Head(replies[link[s]]) \in Note
      BY <1>3, <2>1, TailIsTyped DEF ReceiveReply, TypeOK
    <2>3. Adopt(s, Head(replies[link[s]])) /\ UNCHANGED pushes
      BY <1>3 DEF ReceiveReply
    <2>. QED BY <1>2, <2>2, <2>3 DEF Adopt, TypeOK
  <1>4. CASE ReceivePush(s)
    <2>1. link[s] \in Ids
      BY <1>4 DEF ReceivePush, TypeOK
    <2>2. pushes' \in [Ids -> Seq(Note)] /\ Head(pushes[link[s]]) \in Note
      BY <1>4, <2>1, TailIsTyped DEF ReceivePush, TypeOK
    <2>3. Adopt(s, Head(pushes[link[s]])) /\ UNCHANGED replies
      BY <1>4 DEF ReceivePush
    <2>. QED BY <1>2, <2>2, <2>3 DEF Adopt, TypeOK
  <1>5. CASE SendRelease(s)
    <2>1. link[s] \in Ids
      BY <1>5 DEF SendRelease, TypeOK
    <2>2. PICK keys \in SUBSET granted[s] :
              /\ granted' = [granted EXCEPT ![s] = @ \ keys]
              /\ clients' = [clients EXCEPT ![s] = @ \ keys]
              /\ requests' = [requests EXCEPT ![link[s]] =
                      Append(@, [type |-> "release", keys |-> keys])]
      BY <1>5 DEF SendRelease
    <2>3. [type |-> "release", keys |-> keys] \in Request
      BY <2>2 DEF TypeOK, Request
    <2>4. requests' \in [Ids -> Seq(Request)]
      BY <2>1, <2>2, <2>3, AppendIsTyped DEF TypeOK
    <2>5. events' \in 0..MaxEvents
      BY <1>5, EventIsTyped DEF SendRelease
    <2>. QED BY <1>5, <2>2, <2>4, <2>5 DEF SendRelease, TypeOK
  <1>6. CASE LoseLink(s)
    BY <1>6, UnlinkedIsTyped DEF LoseLink, TypeOK
  <1>7. CASE CrashService(s)
    BY <1>7, UnlinkedIsTyped, EventIsTyped DEF CrashService, TypeOK
  <1>. QED BY <1>1, <1>3, <1>4, <1>5, <1>6, <1>7

(* What the message processor and the cleanup of a session do. *)
LEMMA SessionStepsAreTyped ==
    ASSUME TypeOK, SessionsTypeOK', registry' \in [Controllers -> Registry],
           NEW n \in Ids,
           \/ Connect(n) \/ HandleClaim(n) \/ HandleRelease(n) \/ Reply(n)
           \/ EndSession(n) \/ ReleaseClaims(n) \/ EndCleanup(n)
    PROVE  TypeOK'
  <1>1. Svc(n) \in Services /\ Ctrl(n) \in Controllers /\ n \in Actors
    BY IdParts DEF Actors
  <1>2. registry[Ctrl(n)] \in Registry
    BY <1>1 DEF TypeOK
  <1>3. CASE Connect(n)
    BY <1>1, <1>3 DEF Connect, TypeOK, channelVars
  <1>4. CASE HandleClaim(n)
    <2> DEFINE keys == Head(requests[n]).keys
               yes == Granted(registry[Ctrl(n)], Svc(n), keys)
               no == Rejected(registry[Ctrl(n)], Svc(n), keys)
               dropped == Dropped(registry[Ctrl(n)], Svc(n), keys)
               steps == For(yes \cup dropped, <<AnnounceStep(Svc(n), yes, dropped)>>)
                        \o <<ReplyStep(Svc(n), yes, no)>>
    <2>1. keys \in SUBSET Keys /\ requests' \in [Ids -> Seq(Request)]
      BY <1>4, ReadyIsTyped, TailIsTyped DEF HandleClaim, TypeOK
    <2>2. yes \in SUBSET Keys /\ no \in SUBSET Keys /\ dropped \in SUBSET Keys
      BY <1>1, <1>2, <2>1, OperatorsAreTyped
    <2>3. todo' = [todo EXCEPT ![n] = steps]
      BY <1>4 DEF HandleClaim
    <2>4. steps \in Seq(Step)
      <3> HIDE DEF yes, no, dropped
      <3>1. AnnounceStep(Svc(n), yes, dropped) \in Step /\ ReplyStep(Svc(n), yes, no) \in Step
        BY <1>1, <2>2, StepsAreTyped
      <3>2. /\ <<AnnounceStep(Svc(n), yes, dropped)>> \in Seq(Step)
            /\ <<ReplyStep(Svc(n), yes, no)>> \in Seq(Step)
        BY <3>1
      <3>3. For(yes \cup dropped, <<AnnounceStep(Svc(n), yes, dropped)>>) \in Seq(Step)
        BY <3>2, ForIsTyped
      <3>. QED BY <3>2, <3>3
    <2>5. todo' \in [Actors -> Seq(Step)]
      <3> HIDE DEF steps
      <3>. QED BY <1>1, <2>3, <2>4 DEF TypeOK
    <2>. QED BY <1>4, <2>1, <2>5 DEF HandleClaim, TypeOK, serviceVars
  <1>5. CASE HandleRelease(n)
    <2> DEFINE keys == Owned(registry[Ctrl(n)], Svc(n), Head(requests[n]).keys)
               steps == For(keys, <<AnnounceStep(Svc(n), {}, keys), OfferStep(keys)>>)
    <2>1. /\ Head(requests[n]).keys \in SUBSET Keys
          /\ requests' \in [Ids -> Seq(Request)]
      BY <1>5, ReadyIsTyped, TailIsTyped DEF HandleRelease, TypeOK
    <2>2. keys \in SUBSET Keys
      BY <1>1, <1>2, <2>1, OperatorsAreTyped
    <2>3. todo' = [todo EXCEPT ![n] = steps]
      BY <1>5 DEF HandleRelease
    <2>4. steps \in Seq(Step)
      <3> HIDE DEF keys
      <3>1. AnnounceStep(Svc(n), {}, keys) \in Step /\ OfferStep(keys) \in Step
        BY <1>1, <2>2, StepsAreTyped
      <3>2. <<AnnounceStep(Svc(n), {}, keys), OfferStep(keys)>> \in Seq(Step)
        BY <3>1
      <3>. QED BY <3>2, ForIsTyped
    <2>5. todo' \in [Actors -> Seq(Step)]
      <3> HIDE DEF steps
      <3>. QED BY <1>1, <2>3, <2>4 DEF TypeOK
    <2>. QED BY <1>5, <2>1, <2>5 DEF HandleRelease, TypeOK, serviceVars
  <1>6. CASE Reply(n)
    <2>1. todo[n] # <<>> /\ Head(todo[n]).note \in Note
      BY <1>1, <1>6, DueIsTyped, StepParts DEF Reply
    <2>2. todo' \in [Actors -> Seq(Step)]
      <3>1. <<>> \in Seq(Step)
        OBVIOUS
      <3>. QED BY <1>1, <1>6, <2>1, <3>1, ContinueIsTyped DEF Reply, TypeOK
    <2>3. replies' \in [Ids -> Seq(Note)]
      BY <1>6, <2>1, AppendIsTyped DEF Reply, Sent, TypeOK
    <2>. QED BY <1>6, <2>2, <2>3 DEF Reply, TypeOK, serviceVars
  <1>7. CASE EndSession(n)
    <2>1. <<ReleaseStep>> \in Seq(Step) /\ <<>> \in Seq(Step) /\ <<>> \in Seq(Request)
      BY StepsAreTyped
    <2>2. todo' \in [Actors -> Seq(Step)] /\ requests' \in [Ids -> Seq(Request)]
      BY <1>1, <1>7, <2>1 DEF EndSession, TypeOK
    <2>3. /\ link' \in [Services -> Ids \cup {None}]
          /\ fresh' \in [Services -> BOOLEAN]
          /\ replies' \in [Ids -> Seq(Note)]
          /\ pushes' \in [Ids -> Seq(Note)]
      BY <1>7, UnlinkedIsTyped DEF EndSession
    <2>. QED BY <1>7, <2>2, <2>3 DEF EndSession, TypeOK
  <1>8. CASE ReleaseClaims(n)
    <2> DEFINE r == registry[Ctrl(n)]
               keys == {k \in r.byService[Svc(n)] : Claimed(r, k)}
               steps == For(keys, <<AnnounceStep(Svc(n), {}, keys), OfferStep(keys)>>)
    <2>1. keys \in SUBSET Keys
      BY <1>1, <1>2, OperatorsAreTyped
    <2>2. Continue(n, steps) /\ todo[n] # <<>>
      BY <1>8 DEF ReleaseClaims, Due
    <2>3. steps \in Seq(Step)
      <3> HIDE DEF keys
      <3>1. AnnounceStep(Svc(n), {}, keys) \in Step /\ OfferStep(keys) \in Step
        BY <1>1, <2>1, StepsAreTyped
      <3>2. <<AnnounceStep(Svc(n), {}, keys), OfferStep(keys)>> \in Seq(Step)
        BY <3>1
      <3>. QED BY <3>2, ForIsTyped
    <2>4. todo' \in [Actors -> Seq(Step)]
      <3> HIDE DEF steps
      <3>. QED BY <1>1, <2>2, <2>3, ContinueIsTyped DEF TypeOK
    <2>. QED BY <1>8, <2>4 DEF ReleaseClaims, TypeOK, serviceVars, channelVars
  <1>9. CASE EndCleanup(n)
    BY <1>9 DEF EndCleanup, TypeOK, serviceVars, channelVars
  <1>. QED BY <1>3, <1>4, <1>5, <1>6, <1>7, <1>8, <1>9

(* What any actor of a controller does with its next step. *)
LEMMA ActorStepsAreTyped ==
    ASSUME TypeOK, SessionsTypeOK', registry' \in [Controllers -> Registry],
           NEW a \in Actors, Announce(a) \/ Push(a) \/ Offer(a) \/ Regrant(a)
    PROVE  TypeOK'
  <1>1. Home(a) \in Controllers /\ registry[Home(a)] \in Registry
    BY HomeIsController DEF TypeOK
  <1>2. todo[a] # <<>> /\ Head(todo[a]) \in Step
    BY DueIsTyped DEF Announce, Push, Offer, Regrant
  <1>3. <<>> \in Seq(Step)
    OBVIOUS
  <1>4. CASE Announce(a)
    <2> DEFINE step == Head(todo[a])
               ann == [svc |-> step.svc, ctrl |-> Home(a), at |-> clock,
                       claimed |-> {k \in step.claimed : Claimed(registry[Home(a)], k)},
                       released |-> step.released]
    <2>1. ann \in Announcement
      <3>1. step.svc \in Services /\ step.claimed \in SUBSET Keys /\ step.released \in SUBSET Keys
        BY <1>2, <1>4, StepParts DEF Announce, Due
      <3> HIDE DEF step
      <3>. QED BY <1>1, <3>1 DEF Announcement, TypeOK
    <2>2. \/ bus' = [d \in Controllers |-> IF d = Home(a) THEN bus[d] ELSE Append(bus[d], ann)]
          \/ UNCHANGED bus
      BY <1>4 DEF Announce
    <2>3. bus' \in [Controllers -> Seq(Announcement)]
      <3> HIDE DEF ann
      <3>1. \A d \in Controllers : Append(bus[d], ann) \in Seq(Announcement)
        BY <2>1 DEF TypeOK
      <3>. QED BY <2>2, <3>1 DEF TypeOK
    <2>4. todo' \in [Actors -> Seq(Step)]
      BY <1>2, <1>3, <1>4, ContinueIsTyped DEF Announce, TypeOK
    <2>5. events' \in 0..MaxEvents
      BY <1>4, EventIsTyped DEF Announce, TypeOK
    <2>. QED BY <1>4, <2>3, <2>4, <2>5 DEF Announce, TypeOK, serviceVars, channelVars
  <1>5. CASE Push(a)
    <2>1. Head(todo[a]).notes \in SUBSET Note
      BY <1>2, <1>5, StepParts DEF Push, Due
    <2>2. pushes' \in [Ids -> Seq(Note)]
      <3> DEFINE mine(n) == {note \in Head(todo[a]).notes :
                               connections[Home(a)][note.svc] = n /\ link[note.svc] = n}
      <3>1. pushes' = [n \in Ids |-> IF mine(n) = {} THEN pushes[n]
                          ELSE Append(pushes[n], CHOOSE note \in mine(n) : TRUE)]
        BY <1>5 DEF Push
      <3>2. ASSUME NEW n \in Ids, mine(n) # {}
            PROVE  Append(pushes[n], CHOOSE note \in mine(n) : TRUE) \in Seq(Note)
        <4>1. (CHOOSE note \in mine(n) : TRUE) \in mine(n)
          BY <3>2
        <4>2. (CHOOSE note \in mine(n) : TRUE) \in Note
          BY <2>1, <4>1
        <4>. QED BY <4>2 DEF TypeOK
      <3> HIDE DEF mine
      <3>. QED BY <3>1, <3>2 DEF TypeOK
    <2>3. todo' \in [Actors -> Seq(Step)]
      BY <1>2, <1>3, <1>5, ContinueIsTyped DEF Push, TypeOK
    <2>. QED BY <1>5, <2>2, <2>3 DEF Push, TypeOK, serviceVars
  <1>6. CASE Offer(a)
    <2> DEFINE wishes == Wishes(registry[Home(a)], Head(todo[a]).keys)
    <2>1. Head(todo[a]).keys \in SUBSET Keys
      BY <1>2, <1>6, StepParts DEF Offer, Due
    <2>2. wishes \in SUBSET Wish
      BY <1>1, <2>1 DEF Wishes, Wish
    <2>3. Continue(a, For(wishes, <<RegrantStep(wishes)>>))
      BY <1>6 DEF Offer
    <2> HIDE DEF wishes
    <2>4. RegrantStep(wishes) \in Step
      BY <2>2, StepsAreTyped
    <2>5. For(wishes, <<RegrantStep(wishes)>>) \in Seq(Step)
      <3>1. <<RegrantStep(wishes)>> \in Seq(Step)
        BY <2>4
      <3>. QED BY <3>1, ForIsTyped
    <2>6. todo' \in [Actors -> Seq(Step)]
      BY <1>2, <2>3, <2>5, ContinueIsTyped DEF TypeOK
    <2>. QED BY <1>6, <2>6 DEF Offer, TypeOK, serviceVars, channelVars
  <1>7. CASE Regrant(a)
    <2> DEFINE wishes == Head(todo[a]).wishes
    <2>1. wishes \in SUBSET Wish
      BY <1>2, <1>7, StepParts DEF Regrant, Due
    <2>2. PICK w \in wishes :
              Continue(a,
                  For(Granted(registry[Home(a)], w.svc, w.keys),
                      <<PushStep({[svc |-> w.svc,
                                   granted |-> Granted(registry[Home(a)], w.svc, w.keys),
                                   rejected |-> Rejected(registry[Home(a)], w.svc, w.keys)]}),
                        AnnounceStep(w.svc, Granted(registry[Home(a)], w.svc, w.keys), {})>>)
                  \o For(wishes \ {w}, <<RegrantStep(wishes \ {w})>>))
      BY <1>7 DEF Regrant
    <2> DEFINE yes == Granted(registry[Home(a)], w.svc, w.keys)
               no == Rejected(registry[Home(a)], w.svc, w.keys)
               told == [svc |-> w.svc, granted |-> yes, rejected |-> no]
               rest == wishes \ {w}
               first == For(yes, <<PushStep({told}), AnnounceStep(w.svc, yes, {})>>)
               second == For(rest, <<RegrantStep(rest)>>)
    <2>3. w.svc \in Services /\ w.keys \in SUBSET Keys
      BY <2>1, <2>2 DEF Wish
    <2>4. yes \in SUBSET Keys /\ no \in SUBSET Keys /\ rest \in SUBSET Wish
      BY <1>1, <2>1, <2>3, OperatorsAreTyped
    <2>5. Continue(a, first \o second)
      BY <2>2
    <2> HIDE DEF wishes, yes, no, rest
    <2>6. {told} \in SUBSET Note
      BY <2>3, <2>4 DEF Note
    <2> HIDE DEF told
    <2>7. first \in Seq(Step)
      <3>1. PushStep({told}) \in Step /\ AnnounceStep(w.svc, yes, {}) \in Step
        BY <2>3, <2>4, <2>6, StepsAreTyped
      <3>2. <<PushStep({told}), AnnounceStep(w.svc, yes, {})>> \in Seq(Step)
        BY <3>1
      <3>. QED BY <3>2, ForIsTyped
    <2>8. second \in Seq(Step)
      <3>1. RegrantStep(rest) \in Step
        BY <2>4, StepsAreTyped
      <3>. QED BY <3>1, ForIsTyped
    <2> HIDE DEF first, second
    <2>9. first \o second \in Seq(Step)
      BY <2>7, <2>8
    <2>10. todo' \in [Actors -> Seq(Step)]
      BY <1>2, <2>5, <2>9, ContinueIsTyped DEF TypeOK
    <2>. QED BY <1>7, <2>10 DEF Regrant, TypeOK, serviceVars, channelVars
  <1>. QED BY <1>4, <1>5, <1>6, <1>7

(* What the NATS consumer, the administrator and a restart do. *)
LEMMA ControllerStepsAreTyped ==
    ASSUME TypeOK, SessionsTypeOK', registry' \in [Controllers -> Registry],
           NEW c \in Controllers,
           \/ Consume(c) \/ RestartController(c)
           \/ \E s \in Services : Deactivate(c, s)
    PROVE  TypeOK'
  <1>1. CASE Consume(c)
    <2> DEFINE ann == Head(bus[c])
               mid == AfterReleases(registry[c], ann)
               lost(s) == Revoked(mid, ann, s)
               notes == {[svc |-> s, granted |-> {}, rejected |-> lost(s)] :
                           s \in {t \in Services : lost(t) # {}}}
               first == For(notes, <<PushStep(notes)>>)
               second == For(ann.released, <<OfferStep(ann.released)>>)
    <2>1. ann \in Announcement /\ [bus EXCEPT ![c] = Tail(@)] \in [Controllers -> Seq(Announcement)]
      BY <1>1, TailIsTyped DEF Consume, TypeOK
    <2>2. ann.released \in SUBSET Keys /\ ann.claimed \in SUBSET Keys
      BY <2>1 DEF Announcement
    <2>3. todo' = [todo EXCEPT ![c] = first \o second]
      BY <1>1 DEF Consume
    <2>4. notes \in SUBSET Note
      <3>1. \A s \in Services : lost(s) \in SUBSET Keys
        BY <2>2 DEF Revoked, Taken
      <3> HIDE DEF lost
      <3>. QED BY <3>1 DEF Note
    <2> HIDE DEF notes
    <2>5. first \in Seq(Step)
      <3>1. PushStep(notes) \in Step
        BY <2>4, StepsAreTyped
      <3>2. <<PushStep(notes)>> \in Seq(Step)
        BY <3>1
      <3>. QED BY <3>2, ForIsTyped
    <2>6. second \in Seq(Step)
      <3>1. OfferStep(ann.released) \in Step
        BY <2>2, StepsAreTyped
      <3>2. <<OfferStep(ann.released)>> \in Seq(Step)
        BY <3>1
      <3>. QED BY <3>2, ForIsTyped
    <2> HIDE DEF first, second
    <2>7. first \o second \in Seq(Step)
      BY <2>5, <2>6
    <2>8. todo' \in [Actors -> Seq(Step)]
      BY <2>3, <2>7 DEF TypeOK, Actors
    <2>9. bus' \in [Controllers -> Seq(Announcement)]
      BY <1>1, <2>1 DEF Consume, TypeOK
    <2>10. events' \in 0..MaxEvents
      BY <1>1, EventIsTyped DEF Consume, TypeOK
    <2>. QED BY <1>1, <2>8, <2>9, <2>10 DEF Consume, TypeOK, serviceVars, channelVars
  <1>2. CASE RestartController(c)
    <2>1. <<>> \in Seq(Step) /\ <<>> \in Seq(Request) /\ <<>> \in Seq(Announcement)
      OBVIOUS
    <2>2. /\ todo' \in [Actors -> Seq(Step)]
          /\ requests' \in [Ids -> Seq(Request)]
          /\ bus' \in [Controllers -> Seq(Announcement)]
      BY <1>2, <2>1 DEF RestartController, TypeOK
    <2>3. /\ link' \in [Services -> Ids \cup {None}]
          /\ fresh' \in [Services -> BOOLEAN]
          /\ replies' \in [Ids -> Seq(Note)]
          /\ pushes' \in [Ids -> Seq(Note)]
      BY <1>2, UnlinkedIsTyped DEF RestartController
    <2>4. events' \in 0..MaxEvents
      BY <1>2, EventIsTyped DEF RestartController
    <2>. QED BY <1>2, <2>2, <2>3, <2>4 DEF RestartController, TypeOK
  <1>3. ASSUME NEW s \in Services, Deactivate(c, s)
        PROVE  TypeOK'
    <2>1. events' \in 0..MaxEvents
      BY <1>3, EventIsTyped DEF Deactivate
    <2>. QED BY <1>3, <2>1 DEF Deactivate, TypeOK, serviceVars, channelVars
  <1>. QED BY <1>1, <1>2, <1>3

LEMMA TypePreserved ==
    ASSUME TypeOK, SessionsTypeOK', registry' \in [Controllers -> Registry], Next
    PROVE  TypeOK'
  <1>1. CASE EditConfig
    <2>1. events' \in 0..MaxEvents
      BY <1>1, EventIsTyped DEF EditConfig
    <2>. QED BY <1>1, <2>1 DEF EditConfig, TypeOK, serviceVars, channelVars
  <1>2. CASE Tick
    <2>1. clock' \in 0..MaxTime
      BY <1>2, ClaimsAssumption DEF Tick, TypeOK
    <2>. QED BY <1>2, <2>1 DEF Tick, TypeOK, serviceVars, channelVars
  <1>. QED
    BY <1>1, <1>2, ServiceStepsAreTyped, SessionStepsAreTyped, ActorStepsAreTyped,
       ControllerStepsAreTyped DEF Next

-----------------------------------------------------------------------------
LEMMA ClaimsPreserved == ClaimsInv /\ [Next]_vars => ClaimsInv'
  <1> SUFFICES ASSUME ClaimsInv, [Next]_vars PROVE ClaimsInv'
    OBVIOUS
  <1>1. CASE Next
    <2>1. SessionsInv'
      BY <1>1, StepsOfSessions, SessionsPreserved DEF ClaimsInv
    <2>2. RegistriesConsistent' /\ registry' \in [Controllers -> Registry]
      BY <1>1, StepsOfRegistries, RegistriesStayConsistent
    <2>3. TypeOK'
      BY <1>1, <2>1, <2>2, TypePreserved DEF ClaimsInv, SessionsInv
    <2>. QED BY <2>1, <2>2, <2>3 DEF ClaimsInv
  <1>2. CASE UNCHANGED vars
    <2>1. TypeOK'
      BY <1>2 DEF vars, sessionVars, serviceVars, channelVars, ClaimsInv, TypeOK,
         SessionsTypeOK
    <2>2. SessionsInv'
      BY <1>2, SessionsPreserved DEF vars, ClaimsInv, SessionsStep
    <2>3. RegistriesConsistent'
      BY <1>2 DEF vars, ClaimsInv, RegistriesConsistent
    <2>. QED BY <2>1, <2>2, <2>3 DEF ClaimsInv
  <1>. QED BY <1>1, <1>2

(* The inductive invariant holds in every state that requests, pushes,     *)
(* announcements, disconnects and restarts reach.                          *)
THEOREM ClaimsInvariant == Spec => []ClaimsInv
  <1>. QED BY InitiallyConsistent, ClaimsPreserved, PTL DEF Spec

(* Every message, request, announcement and step of a handler that the     *)
(* controllers and the services exchange has the type of its kind.         *)
THEOREM ClaimsTypeCorrect == Spec => []TypeOK
  <1>1. ClaimsInv => TypeOK
    BY DEF ClaimsInv
  <1>. QED BY <1>1, ClaimsInvariant, PTL

(* A session that runs and was not told to stop is the registered one,     *)
(* whatever cleanups of older sessions of its service run beside it.       *)
THEOREM LiveSessionsAreRegistered == Spec => []LiveIsRegistered
  <1>1. ClaimsInv => LiveIsRegistered
    BY DEF ClaimsInv, SessionsInv
  <1>. QED BY <1>1, ClaimsInvariant, PTL

(* A registration always belongs to a session that will remove it: the     *)
(* exits of session_authenticated leave no connection behind.              *)
THEOREM RegistrationsAreAlive == Spec => []RegisteredIsAlive
  <1>1. ClaimsInv => RegisteredIsAlive
    BY DEF ClaimsInv, SessionsInv
  <1>. QED BY <1>1, ClaimsInvariant, PTL

(* by_service lists exactly the keys a service owns, so that release, which *)
(* does not look at the owners, frees no key of another service.           *)
THEOREM IndexesAgree == Spec => []IndexConsistent
  <1>1. ClaimsInv => IndexConsistent
    BY DEF ClaimsInv, RegistriesConsistent, Consistent, Indexed, IndexConsistent
  <1>. QED BY <1>1, ClaimsInvariant, PTL

(* The routing index names exactly the services that own a config of the   *)
(* tenant, although operations rebuild it for a few services only.         *)
THEOREM RoutingStaysExact == Spec => []RoutingIsExact
  <1>1. ClaimsInv => RoutingIsExact
    <2> SUFFICES ASSUME ClaimsInv, NEW c \in Controllers, NEW t \in Tenants
                 PROVE  registry[c].tenants[t] =
                            {s \in Services :
                                \E k \in Keys : TenantOf[k] = t /\ OwnedBy(registry[c], k, s)}
      BY DEF RoutingIsExact
    <2>1. /\ \A s \in Services : s \in registry[c].tenants[t] <=> OwnsIn(registry[c], s, t)
          /\ registry[c].tenants[t] \in SUBSET Services
      BY DEF ClaimsInv, RegistriesConsistent, Consistent, RoutedBut, Registry
    <2>. QED BY <2>1 DEF OwnsIn
  <1>. QED BY <1>1, ClaimsInvariant, PTL

(* A key passes from one owner to another only when a controller applies   *)
(* the announcement of an earlier claim.                                   *)
THEOREM NothingIsStolen == Spec => NoTheft
  <1>1. ClaimsInv /\ [Next]_vars => [Untaken]_vars
    BY StepsOfRegistries, RegistryStepTakesNothing
  <1>2. Spec => [][Untaken]_vars
    BY <1>1, ClaimsInvariant, PTL DEF Spec
  <1>. QED BY <1>2 DEF NoTheft, Untaken
=============================================================================
