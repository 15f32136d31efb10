--------------------------- MODULE SurfaceProxyProofs ---------------------------
(***************************************************************************)
(* The surface registry and the bookkeeping of the proxy, proved: what the *)
(* operations on PendingState preserve, and from that the invariants of    *)
(* the system.                                                             *)
(***************************************************************************)
EXTENDS SurfaceProxy, ServiceSessionsProofs, FiniteSetTheorems

(* The stages in which a call may be pending. *)
Flight == {"registered", "sending", "waiting", "expired"}

(* Those in which its time is up and it cancels the request. *)
Late == {"timed out", "cancelling"}

(* A call that is on its way to a provider knows which. *)
Targeted ==
    \A i \in Calls :
        \/ stage[i] \in Flight \cup Late
        \/ stage[i] = "resolved" /\ ~IsLocal(i)
        => target[i] \in Target

(* An answer in the channel of a call was taken from its pending entry. *)
ResponsesKept == \A i \in response : stage[i] \in Flight /\ i \notin px.pending

(* A request is read at most once: it lies in one inbox, at one place, and *)
(* its call has not begun; the call a processor awaits has.                *)
IsRequest(n, m) == m \in 1..Len(inbox[n]) /\ inbox[n][m].type = "request"

RequestsQueued ==
    /\ \A n \in Ids : \A m \in Nat :
           IsRequest(n, m) => stage[inbox[n][m].call] = "queued"
    /\ \A n, o \in Ids : \A m, l \in Nat :
           /\ IsRequest(n, m) /\ IsRequest(o, l)
           /\ inbox[n][m].call = inbox[o][l].call
           => n = o /\ m = l
    /\ \A n \in Ids : busy[n] # None => stage[busy[n]] \notin {"idle", "queued"}
    /\ \A i \in Calls : stage[i] = "queued" => Caller[i] # User

-----------------------------------------------------------------------------
(* PendingState: one lock, several parties that give back what a call has  *)
(* reserved.                                                               *)

PendingState ==
    [pending : SUBSET Calls,
     perProvider : [Providers -> 0..MaxPerProvider],
     perTenant : 0..MaxPerTenant,
     reserved : [Keys -> Calls \cup {None}],
     cache : [Keys -> {Fingerprint[i] : i \in Calls} \cup {None}],
     failures : [Providers -> 0..(FailureLimit - 1)],
     blocked : SUBSET Providers]

(* The pending calls of provider p. *)
PendingOf(x, p) == {i \in x.pending : ProviderOf(i) = p}

Counted(x) ==
    /\ IsFiniteSet(x.pending)
    /\ \A p \in Providers : x.perProvider[p] = Cardinality(PendingOf(x, p))
    /\ x.perTenant = Cardinality(x.pending)

(* The reservations, but for the calls of E, which are about to end. *)
Reserved(x, E) ==
    /\ \A k \in Keys : x.reserved[k] # None =>
           /\ KeyOf[x.reserved[k]] = k
           /\ x.reserved[k] \in x.pending \/ stage[x.reserved[k]] = "local"
    /\ \A i \in x.pending :
           /\ x.reserved[KeyOf[i]] = i
           /\ stage[i] \in Flight
    /\ \A i \in Calls \ E :
           stage[i] = "local" /\ i \notin overdue => x.reserved[KeyOf[i]] = i

Sound(x, E) == x \in PendingState /\ Counted(x) /\ Reserved(x, E)

(* Nothing is reserved for call i. *)
Untied(x, i) == i \notin x.pending /\ \A k \in Keys : x.reserved[k] # i

LEMMA ProxyParts ==
    /\ KeyOf \in [Calls -> Keys]
    /\ None \notin Calls /\ None \notin Providers /\ None \notin Services
    /\ FailureLimit \in Nat /\ FailureLimit > 0
    /\ ReplyRoom \in Nat /\ MaxNotices \in Nat
    /\ Cardinality(Controllers) = 1
    /\ MaxPerProvider \in Nat /\ MaxPerTenant \in Nat /\ MaxConnects \in Nat
    /\ MaxRegistrations \in Nat /\ MaxLapses \in Nat
  BY ProxyAssumption

(* saturating_sub is exact when what is taken out was counted. *)
LEMMA TakeOut ==
    ASSUME NEW S, IsFiniteSet(S), NEW T \in SUBSET S
    PROVE  /\ IsFiniteSet(S \ T)
           /\ Cardinality(S \ T) = Minus(Cardinality(S), Cardinality(T))
           /\ Cardinality(S) \in Nat /\ Cardinality(S \ T) \in Nat
           /\ Cardinality(S \ T) <= Cardinality(S)
  <1>1. IsFiniteSet(S \ T) /\ IsFiniteSet(T) /\ Cardinality(S \ T) <= Cardinality(S)
    <2>1. (S \ T) \in SUBSET S
      OBVIOUS
    <2>. QED BY <2>1, FS_Subset
  <1>2. /\ Cardinality(S) \in Nat /\ Cardinality(T) \in Nat /\ Cardinality(S \ T) \in Nat
    BY <1>1, FS_CardinalityType
  <1>3. Cardinality((S \ T) \cup T) =
            Cardinality(S \ T) + Cardinality(T) - Cardinality((S \ T) \cap T)
    BY <1>1, FS_Union
  <1>4. (S \ T) \cup T = S /\ (S \ T) \cap T = {}
    OBVIOUS
  <1>5. Cardinality(S) = Cardinality(S \ T) + Cardinality(T)
    <2>1. Cardinality({}) = 0
      BY FS_EmptySet
    <2>2. Cardinality(S) = Cardinality(S \ T) + Cardinality(T) - 0
      BY <1>3, <1>4, <2>1, Zenon
    <2>. QED BY <1>2, <2>2
  <1>. QED BY <1>1, <1>2, <1>5 DEF Minus

LEMMA TakeParts ==
    ASSUME NEW x \in PendingState, Counted(x), NEW calls
    PROVE  LET t == Take(x, calls)
           IN  /\ t \in PendingState
               /\ t.pending = x.pending \ calls
               /\ \A p \in Providers :
                      t.perProvider[p] = Cardinality(PendingOf(x, p) \ calls)
               /\ t.perTenant = Cardinality(x.pending \ calls)
               /\ IsFiniteSet(x.pending \ calls)
               /\ t.reserved = [k \in Keys |->
                      IF x.reserved[k] \in calls \cap x.pending THEN None ELSE x.reserved[k]]
               /\ t.cache = x.cache /\ t.failures = x.failures /\ t.blocked = x.blocked
  <1> DEFINE t == Take(x, calls)
             gone == calls \cap x.pending
  <1>1. /\ t.pending = x.pending \ gone
        /\ t.perProvider = [p \in Providers |->
               Minus(x.perProvider[p], Cardinality({i \in gone : ProviderOf(i) = p}))]
        /\ t.perTenant = Minus(x.perTenant, Cardinality(gone))
        /\ t.reserved = [k \in Keys |-> IF x.reserved[k] \in gone THEN None ELSE x.reserved[k]]
        /\ t.cache = x.cache /\ t.failures = x.failures /\ t.blocked = x.blocked
    BY DEF Take, PendingState
  <1>2. x.pending \ gone = x.pending \ calls
    OBVIOUS
  <1>3. /\ IsFiniteSet(x.pending \ calls)
        /\ Cardinality(x.pending \ calls) = Minus(Cardinality(x.pending), Cardinality(gone))
        /\ Cardinality(x.pending \ calls) \in Nat
        /\ Cardinality(x.pending \ calls) <= Cardinality(x.pending)
    BY <1>2, TakeOut DEF Counted
  <1>4. ASSUME NEW p \in Providers
        PROVE  /\ t.perProvider[p] = Cardinality(PendingOf(x, p) \ calls)
               /\ t.perProvider[p] \in Nat /\ t.perProvider[p] <= x.perProvider[p]
    <2> DEFINE S == PendingOf(x, p)
               T == {i \in gone : ProviderOf(i) = p}
    <2>1. S \in SUBSET x.pending /\ T \in SUBSET S /\ S \ T = S \ calls
      BY DEF PendingOf
    <2>2. IsFiniteSet(S)
      BY <2>1, FS_Subset DEF Counted
    <2>3. x.perProvider[p] = Cardinality(S)
      BY DEF Counted
    <2> HIDE DEF S, T
    <2>4. /\ Cardinality(S \ calls) = Minus(Cardinality(S), Cardinality(T))
          /\ Cardinality(S \ calls) \in Nat /\ Cardinality(S \ calls) <= Cardinality(S)
      BY <2>1, <2>2, TakeOut
    <2>5. t.perProvider[p] = Minus(x.perProvider[p], Cardinality(T))
      BY <1>1 DEF T
    <2>. QED BY <2>3, <2>4, <2>5 DEF S
  <1>5. t.perTenant = Cardinality(x.pending \ calls)
    BY <1>1, <1>3 DEF Counted
  <1>6. t \in PendingState
    <2> DEFINE a == x.pending \ gone
               b == [p \in Providers |->
                        Minus(x.perProvider[p], Cardinality({i \in gone : ProviderOf(i) = p}))]
               c == Minus(x.perTenant, Cardinality(gone))
               d == [k \in Keys |-> IF x.reserved[k] \in gone THEN None ELSE x.reserved[k]]
    <2>1. t = [x EXCEPT !.pending = a, !.perProvider = b, !.perTenant = c, !.reserved = d]
      BY DEF Take
    <2>2. a \in SUBSET Calls /\ d \in [Keys -> Calls \cup {None}]
      BY DEF PendingState
    <2>3. c \in 0..MaxPerTenant
      <3>1. /\ c = Cardinality(x.pending \ calls) /\ x.perTenant = Cardinality(x.pending)
            /\ x.perTenant \in 0..MaxPerTenant
        BY <1>3 DEF Counted, PendingState
      <3> HIDE DEF c
      <3>. QED BY <1>3, <3>1, ProxyParts
    <2>4. b \in [Providers -> 0..MaxPerProvider]
      <3>1. \A p \in Providers : x.perProvider[p] \in 0..MaxPerProvider
        BY DEF PendingState
      <3>2. ASSUME NEW p \in Providers PROVE b[p] \in 0..MaxPerProvider
        <4>1. b[p] = t.perProvider[p]
          BY <1>1
        <4>2. t.perProvider[p] \in Nat /\ t.perProvider[p] <= x.perProvider[p]
          BY <1>4
        <4>3. x.perProvider[p] \in 0..MaxPerProvider /\ MaxPerProvider \in Nat
          BY <3>1, ProxyParts
        <4> HIDE DEF b, t
        <4>. QED BY <4>1, <4>2, <4>3
      <3>. QED BY <3>2
    <2> HIDE DEF a, b, c, d
    <2>5. [x EXCEPT !.pending = a, !.perProvider = b, !.perTenant = c, !.reserved = d]
              \in PendingState
      BY <2>2, <2>3, <2>4 DEF PendingState
    <2>. QED BY <2>1, <2>5, Zenon
  <1>. QED BY <1>1, <1>2, <1>3, <1>4, <1>5, <1>6

(* y ties no call that x does not tie. *)
Eases(x, y) ==
    /\ y.pending \subseteq x.pending
    /\ \A k \in Keys : y.reserved[k] \in {x.reserved[k], None}

LEMMA EasesUntied ==
    ASSUME NEW x, NEW y, Eases(x, y), NEW i \in Calls, Untied(x, i)
    PROVE  Untied(y, i)
  BY ProxyParts DEF Eases, Untied

(* take_pending *)
LEMMA TakeKeeps ==
    ASSUME NEW E, NEW x, Sound(x, E), NEW calls
    PROVE  /\ Sound(Take(x, calls), E)
           /\ Eases(x, Take(x, calls))
           /\ \A i \in Calls : i \in calls /\ stage[i] # "local" => Untied(Take(x, calls), i)
  <1> DEFINE t == Take(x, calls)
  <1>1. /\ t \in PendingState
        /\ t.pending = x.pending \ calls
        /\ \A p \in Providers : t.perProvider[p] = Cardinality(PendingOf(x, p) \ calls)
        /\ t.perTenant = Cardinality(x.pending \ calls)
        /\ IsFiniteSet(x.pending \ calls)
        /\ t.reserved = [k \in Keys |->
               IF x.reserved[k] \in calls \cap x.pending THEN None ELSE x.reserved[k]]
    BY TakeParts DEF Sound
  <1> HIDE DEF t
  <1>2. Counted(t)
    <2>1. \A p \in Providers : PendingOf(t, p) = PendingOf(x, p) \ calls
      BY <1>1 DEF PendingOf
    <2>. QED BY <1>1, <2>1 DEF Counted
  <1>3. x.pending \in SUBSET Calls
    BY DEF Sound, PendingState
  <1>4. Reserved(t, E)
    <2>1. \A k \in Keys : t.reserved[k] # None =>
              /\ KeyOf[t.reserved[k]] = k
              /\ t.reserved[k] \in t.pending \/ stage[t.reserved[k]] = "local"
      BY <1>1 DEF Sound, Reserved
    <2>2. \A i \in t.pending : t.reserved[KeyOf[i]] = i /\ stage[i] \in Flight
      BY <1>1, <1>3, ProxyParts DEF Sound, Reserved
    <2>3. \A i \in Calls \ E :
              stage[i] = "local" /\ i \notin overdue => t.reserved[KeyOf[i]] = i
      <3>1. \A i \in x.pending : stage[i] # "local"
        BY DEF Sound, Reserved, Flight
      <3>. QED BY <1>1, <3>1, ProxyParts DEF Sound, Reserved
    <2>. QED BY <2>1, <2>2, <2>3 DEF Reserved
  <1>5. Eases(x, t)
    BY <1>1 DEF Eases
  <1>6. \A i \in Calls : i \in calls /\ stage[i] # "local" => Untied(t, i)
    BY <1>1, ProxyParts DEF Sound, Reserved, Untied
  <1>. QED BY <1>1, <1>2, <1>4, <1>5, <1>6 DEF Sound, t

(* Only the answers cached, the failures or the cooldowns change. *)
LEMMA SameTies ==
    ASSUME NEW E, NEW x, Sound(x, E), NEW y \in PendingState,
           y.pending = x.pending, y.perProvider = x.perProvider,
           y.perTenant = x.perTenant, y.reserved = x.reserved
    PROVE  Sound(y, E) /\ Eases(x, y)
  BY DEF Sound, Counted, PendingOf, Reserved, Eases

(* cleanup_expired *)
LEMMA CleanedKeeps ==
    ASSUME NEW E, NEW x, Sound(x, E)
    PROVE  /\ Sound(Cleaned(x), E) /\ Eases(x, Cleaned(x))
           /\ Cleaned(x).cache = x.cache
  <1> DEFINE t == Take(x, overdue)
             y == Cleaned(x)
  <1>1. Sound(t, E) /\ Eases(x, t)
    BY TakeKeeps
  <1>2. t.pending = x.pending \ overdue /\ t.cache = x.cache
    BY TakeParts DEF Sound
  <1>3. y = [t EXCEPT !.reserved =
                [k \in Keys |-> IF t.reserved[k] \in overdue THEN None ELSE t.reserved[k]]]
    BY DEF Cleaned
  <1> HIDE DEF t, y
  <1>4. /\ y \in PendingState
        /\ y.pending = t.pending /\ y.perProvider = t.perProvider
        /\ y.perTenant = t.perTenant /\ y.cache = t.cache
        /\ y.reserved = [k \in Keys |->
               IF t.reserved[k] \in overdue THEN None ELSE t.reserved[k]]
    BY <1>1, <1>3 DEF Sound, PendingState
  <1>5. Counted(y)
    BY <1>1, <1>4 DEF Sound, Counted, PendingOf
  <1>6. t.pending \in SUBSET Calls
    BY <1>1 DEF Sound, PendingState
  <1>7. Reserved(y, E)
    BY <1>1, <1>2, <1>4, <1>6, ProxyParts DEF Sound, Reserved
  <1>8. Eases(x, y)
    BY <1>1, <1>4 DEF Eases
  <1>. QED BY <1>2, <1>4, <1>5, <1>7, <1>8 DEF Sound, y

(* record_provider_failure *)
LEMMA FailedKeeps ==
    ASSUME NEW E, NEW x, Sound(x, E), NEW p \in Providers
    PROVE  Sound(Failed(x, p), E) /\ Eases(x, Failed(x, p))
  <1> DEFINE y == Failed(x, p)
  <1>1. x.failures[p] \in 0..(FailureLimit - 1) /\ x \in PendingState
    BY DEF Sound, PendingState
  <1>2. /\ y.pending = x.pending /\ y.perProvider = x.perProvider
        /\ y.perTenant = x.perTenant /\ y.reserved = x.reserved
    BY <1>1 DEF Failed, PendingState
  <1>3. y \in PendingState
    <2>1. CASE x.failures[p] + 1 >= FailureLimit
      <3>1. 0 \in 0..(FailureLimit - 1)
        BY ProxyParts
      <3>. QED BY <1>1, <2>1, <3>1 DEF Failed, PendingState
    <2>2. CASE ~(x.failures[p] + 1 >= FailureLimit)
      <3>1. x.failures[p] + 1 \in 0..(FailureLimit - 1)
        BY <1>1, <2>2, ProxyParts
      <3> DEFINE f == [x.failures EXCEPT ![p] = x.failures[p] + 1]
      <3>2. f \in [Providers -> 0..(FailureLimit - 1)]
        BY <1>1, <3>1 DEF PendingState
      <3>3. y = [x EXCEPT !.failures = f]
        BY <2>2, Zenon DEF Failed
      <3> HIDE DEF f
      <3>4. [x EXCEPT !.failures = f] \in PendingState
        BY <1>1, <3>2 DEF PendingState
      <3>. QED BY <3>3, <3>4, Zenon
    <2>. QED BY <2>1, <2>2
  <1>. QED BY <1>2, <1>3, SameTies

(* fail_in_flight_for_provider *)
LEMMA FailInFlightKeeps ==
    ASSUME NEW E, NEW x, Sound(x, E), NEW p \in Providers
    PROVE  Sound(FailInFlight(x, p), E) /\ Eases(x, FailInFlight(x, p))
  <1> DEFINE t == Take(x, InFlight(x, p))
  <1>1. Sound(t, E) /\ Eases(x, t)
    BY TakeKeeps
  <1>2. Sound(Failed(t, p), E) /\ Eases(t, Failed(t, p))
    BY <1>1, FailedKeeps
  <1>3. Eases(x, Failed(t, p)) /\ Eases(x, x)
    BY <1>1, <1>2 DEF Eases
  <1>. QED BY <1>2, <1>3 DEF FailInFlight

(* store_cached_response *)
LEMMA StoreKeeps ==
    ASSUME NEW E, NEW x, Sound(x, E), NEW i \in Calls
    PROVE  Sound(Store(x, i), E) /\ Eases(x, Store(x, i))
  <1> DEFINE t == Cleaned(x)
             y == Store(x, i)
  <1>1. Sound(t, E) /\ Eases(x, t)
    BY CleanedKeeps
  <1>2. y = [t EXCEPT !.cache = [t.cache EXCEPT ![KeyOf[i]] = Fingerprint[i]]]
    BY DEF Store
  <1> HIDE DEF t, y
  <1>3. /\ y \in PendingState
        /\ y.pending = t.pending /\ y.perProvider = t.perProvider
        /\ y.perTenant = t.perTenant /\ y.reserved = t.reserved
    BY <1>1, <1>2 DEF Sound, PendingState
  <1>4. Sound(y, E) /\ Eases(t, y)
    BY <1>1, <1>3, SameTies
  <1>5. Eases(x, y)
    BY <1>1, <1>4 DEF Eases
  <1>. QED BY <1>4, <1>5 DEF y

(* release_idempotency, for a local call that ends. *)
LEMMA ReleaseKeeps ==
    ASSUME NEW x, NEW i \in Calls, Sound(x, {}), stage[i] = "local"
    PROVE  /\ Sound(Release(x, i), {i}) /\ Untied(Release(x, i), i)
           /\ Eases(x, Release(x, i))
  <1> DEFINE y == Release(x, i)
  <1>1. /\ y \in PendingState
        /\ y.pending = x.pending /\ y.perProvider = x.perProvider
        /\ y.perTenant = x.perTenant
        /\ y.reserved = [k \in Keys |-> IF k = KeyOf[i] /\ x.reserved[k] = i
                                        THEN None ELSE x.reserved[k]]
    BY ProxyParts DEF Release, Sound, PendingState
  <1>2. i \notin x.pending
    BY DEF Sound, Reserved, Flight
  <1>3. Counted(y)
    BY <1>1 DEF Sound, Counted, PendingOf
  <1>4. Reserved(y, {i})
    <2>1. \A k \in Keys : y.reserved[k] # None =>
              /\ KeyOf[y.reserved[k]] = k
              /\ y.reserved[k] \in y.pending \/ stage[y.reserved[k]] = "local"
      BY <1>1 DEF Sound, Reserved
    <2>2. \A j \in y.pending : y.reserved[KeyOf[j]] = j /\ stage[j] \in Flight
      <3>1. \A j \in x.pending : j \in Calls /\ j # i
        BY <1>2 DEF Sound, PendingState
      <3>. QED BY <1>1, <3>1, ProxyParts DEF Sound, Reserved
    <2>3. \A j \in Calls \ {i} :
              stage[j] = "local" /\ j \notin overdue => y.reserved[KeyOf[j]] = j
      BY <1>1, ProxyParts DEF Sound, Reserved
    <2>. QED BY <2>1, <2>2, <2>3 DEF Reserved
  <1>5. Untied(y, i)
    BY <1>1, <1>2, ProxyParts DEF Sound, Reserved, Untied
  <1>6. Eases(x, y)
    BY <1>1 DEF Eases
  <1>. QED BY <1>1, <1>3, <1>4, <1>5, <1>6 DEF Sound

-----------------------------------------------------------------------------
(* The calls.                                                              *)

CallsInv == Sound(px, {}) /\ Targeted /\ ResponsesKept

(* What most steps do: the calls of E leave, with nothing reserved for     *)
(* them, or are not on their way yet; the others stay where they are, or   *)
(* move among the stages of a pending call; an answer comes from an entry  *)
(* that is taken.                                                          *)
LEMMA CallsSettle ==
    ASSUME CallsInv, response \in SUBSET Calls,
           NEW E \in SUBSET Calls, NEW x, px' = x, Sound(x, E), Eases(px, x),
           \A i \in E :
               /\ Untied(x, i) /\ i \notin response'
               /\ \/ stage'[i] \in {"queued", "done"}
                  \/ stage'[i] = "resolved" /\ (IsLocal(i) \/ target'[i] \in Target)
                  \/ stage'[i] \in Late /\ target'[i] \in Target,
           \A i \in Calls \ E :
               /\ target'[i] = target[i]
               /\ i \in overdue => i \in overdue'
               /\ stage'[i] = stage[i] \/ (stage[i] \in Flight /\ stage'[i] \in Flight),
           response' \subseteq response \cup (px.pending \ x.pending)
    PROVE  CallsInv'
  <1>1. x \in PendingState /\ x.pending \in SUBSET Calls
    BY DEF Sound, PendingState
  <1>2. px.pending \in SUBSET Calls
    BY DEF CallsInv, Sound, PendingState
  <1>3. \A i \in x.pending : i \notin E
    BY DEF Untied
  <1>4. Counted(px)'
    <2>1. \A p \in Providers : PendingOf(px, p)' = PendingOf(x, p)
      BY <1>1, <1>3 DEF PendingOf, ProviderOf
    <2>. QED BY <2>1 DEF Sound, Counted
  <1>5. Reserved(px, {})'
    <2>1. \A k \in Keys : x.reserved[k] # None =>
              /\ KeyOf[x.reserved[k]] = k
              /\ x.reserved[k] \in x.pending \/ stage'[x.reserved[k]] = "local"
      <3>1. \A k \in Keys : x.reserved[k] # None => x.reserved[k] \in Calls \ E
        BY <1>1 DEF PendingState, Untied
      <3>2. \A i \in Calls \ E : stage[i] = "local" => stage'[i] = "local"
        BY DEF Flight
      <3>. QED BY <3>1, <3>2 DEF Sound, Reserved
    <2>2. \A i \in x.pending : x.reserved[KeyOf[i]] = i /\ stage'[i] \in Flight
      BY <1>1, <1>3 DEF Sound, Reserved
    <2>3. \A i \in Calls :
              stage'[i] = "local" /\ i \notin overdue' => x.reserved[KeyOf[i]] = i
      <3>1. \A i \in E : stage'[i] # "local"
        BY DEF Late
      <3>2. \A i \in Calls \ E : stage'[i] = "local" => stage[i] = "local"
        BY DEF Flight
      <3>. QED BY <3>1, <3>2 DEF Sound, Reserved
    <2>. QED BY <2>1, <2>2, <2>3 DEF Reserved
  <1>6. Targeted'
    <2> SUFFICES ASSUME NEW i \in Calls,
                        \/ stage'[i] \in Flight \cup Late
                        \/ stage'[i] = "resolved" /\ ~IsLocal(i)
                 PROVE  target'[i] \in Target
      BY DEF Targeted, IsLocal, Target
    <2>1. CASE i \in E
      BY <2>1 DEF Flight, Late
    <2>2. CASE i \notin E
      BY <2>2 DEF CallsInv, Targeted
    <2>. QED BY <2>1, <2>2
  <1>7. ResponsesKept'
    <2> SUFFICES ASSUME NEW i \in response'
                 PROVE  stage'[i] \in Flight /\ i \notin x.pending
      BY DEF ResponsesKept
    <2>1. stage[i] \in Flight /\ i \notin x.pending
      BY DEF CallsInv, ResponsesKept, Eases, Sound, Reserved
    <2>2. i \in Calls \ E
      BY <1>2
    <2>. QED BY <2>1, <2>2
  <1>. QED BY <1>1, <1>4, <1>5, <1>6, <1>7 DEF CallsInv, Sound

(* register_pending and the reservation of a local call. *)
LEMMA AdmitKeeps ==
    ASSUME CallsInv, stage \in [Calls -> Stages], NEW i \in Calls, Admit(i)
    PROVE  CallsInv'
  <1> DEFINE x == Cleaned(px)
             p == ProviderOf(i)
             y == Pend(x, i, p)
  <1>1. /\ stage[i] = "resolved" /\ ~IsLocal(i) /\ Admissible(x, i, p) /\ px' = y
        /\ stage' = [stage EXCEPT ![i] = "registered"]
        /\ UNCHANGED <<target, response, overdue>>
    BY DEF Admit
  <1>2. Sound(x, {}) /\ Eases(px, x)
    BY CleanedKeeps DEF CallsInv
  <1>3. x \in PendingState /\ x.pending \in SUBSET Calls
    BY <1>2 DEF Sound, PendingState
  <1>4. i \notin x.pending /\ i \notin response /\ x.reserved[KeyOf[i]] = None
    BY <1>1, <1>2 DEF Sound, Reserved, Flight, CallsInv, ResponsesKept, Admissible, KeyFree
  <1>5. target[i] \in Target /\ p \in Providers
    BY <1>1 DEF CallsInv, Targeted, Target, ProviderOf
  <1>6. /\ x.perProvider[p] \in 0..MaxPerProvider /\ x.perProvider[p] < MaxPerProvider
        /\ x.perTenant \in 0..MaxPerTenant /\ x.perTenant < MaxPerTenant
    BY <1>1, <1>3, <1>5 DEF Admissible, PendingState
  <1> DEFINE b == [x.perProvider EXCEPT ![p] = x.perProvider[p] + 1]
             d == [x.reserved EXCEPT ![KeyOf[i]] = i]
  <1>7. /\ b \in [Providers -> 0..MaxPerProvider]
        /\ d \in [Keys -> Calls \cup {None}]
        /\ x.perTenant + 1 \in 0..MaxPerTenant
    BY <1>3, <1>5, <1>6, ProxyParts DEF PendingState
  <1>8. /\ y \in PendingState
        /\ y.pending = x.pending \cup {i}
        /\ y.perProvider = b /\ y.perTenant = x.perTenant + 1 /\ y.reserved = d
    <2>1. y = [[x EXCEPT !.reserved = d] EXCEPT !.pending = x.pending \cup {i},
                       !.perProvider = b, !.perTenant = x.perTenant + 1]
      BY <1>3 DEF Pend, Reserve, PendingState
    <2> HIDE DEF b, d, x, y
    <2>2. x.pending \cup {i} \in SUBSET Calls
      BY <1>3
    <2>. QED BY <1>3, <1>7, <2>1, <2>2 DEF PendingState
  <1> HIDE DEF x, y
  <1>9. \A j \in Calls : /\ j # i => stage'[j] = stage[j]
                         /\ target'[j] = target[j]
        /\ stage'[i] = "registered"
    BY <1>1
  <1>10. Counted(px)'
    <2>1. IsFiniteSet(x.pending) /\ Cardinality(x.pending) = x.perTenant
      BY <1>2 DEF Sound, Counted
    <2>2. /\ IsFiniteSet(x.pending \cup {i})
          /\ Cardinality(x.pending \cup {i}) = x.perTenant + 1
      BY <1>4, <2>1, FS_AddElement
    <2>3. ASSUME NEW q \in Providers
          PROVE  b[q] = Cardinality({j \in y.pending : target'[j].prov = q})
      <3> DEFINE S == PendingOf(x, q)
                 T == {j \in y.pending : target'[j].prov = q}
      <3>1. S \in SUBSET x.pending /\ i \notin S /\ x.perProvider[q] = Cardinality(S)
        BY <1>2, <1>4 DEF PendingOf, Sound, Counted
      <3>2. IsFiniteSet(S)
        BY <2>1, <3>1, FS_Subset
      <3>3. T = IF q = p THEN S \cup {i} ELSE S
        BY <1>1, <1>3, <1>8 DEF PendingOf, ProviderOf
      <3>4. b[q] = IF q = p THEN x.perProvider[q] + 1 ELSE x.perProvider[q]
        BY <1>3, <1>5 DEF PendingState
      <3> HIDE DEF S, T, b, p
      <3>5. Cardinality(S \cup {i}) = Cardinality(S) + 1
        BY <3>1, <3>2, FS_AddElement
      <3>6. CASE q = p
        BY <3>1, <3>3, <3>4, <3>5, <3>6 DEF T
      <3>7. CASE q # p
        BY <3>1, <3>3, <3>4, <3>7 DEF T
      <3>. QED BY <3>6, <3>7
    <2>. QED BY <1>1, <1>8, <2>2, <2>3 DEF Counted, PendingOf, ProviderOf
  <1>11. Reserved(px, {})'
    <2>1. \A k \in Keys : d[k] # None =>
              KeyOf[d[k]] = k /\ (d[k] \in y.pending \/ stage'[d[k]] = "local")
      <3>1. \A k \in Keys : d[k] = IF k = KeyOf[i] THEN i ELSE x.reserved[k]
        BY <1>3 DEF PendingState
      <3>2. \A k \in Keys : x.reserved[k] # None =>
                /\ KeyOf[x.reserved[k]] = k /\ x.reserved[k] \in Calls
                /\ x.reserved[k] \in x.pending \/ stage[x.reserved[k]] = "local"
        BY <1>2, <1>3 DEF Sound, Reserved, PendingState
      <3> HIDE DEF d
      <3>. QED BY <1>1, <1>8, <1>9, <3>1, <3>2
    <2>2. \A j \in Calls : x.reserved[KeyOf[j]] = j => d[KeyOf[j]] = j
      BY <1>3, <1>4, ProxyParts DEF PendingState
    <2>3. d[KeyOf[i]] = i
      BY <1>3, ProxyParts DEF PendingState
    <2> HIDE DEF d
    <2>4. \A j \in y.pending : d[KeyOf[j]] = j /\ stage'[j] \in Flight
      BY <1>2, <1>3, <1>8, <1>9, <2>2, <2>3 DEF Sound, Reserved, Flight
    <2>5. \A j \in Calls : stage'[j] = "local" /\ j \notin overdue' => d[KeyOf[j]] = j
      BY <1>1, <1>2, <1>9, <2>2 DEF Sound, Reserved
    <2>. QED BY <1>1, <1>8, <2>1, <2>4, <2>5 DEF Reserved
  <1>12. Targeted'
    BY <1>5, <1>9 DEF CallsInv, Targeted, IsLocal, Flight, Target
  <1>13. ResponsesKept'
    BY <1>1, <1>2, <1>4, <1>8 DEF CallsInv, ResponsesKept, Eases, Flight
  <1>. QED BY <1>1, <1>8, <1>10, <1>11, <1>12, <1>13 DEF CallsInv, Sound

LEMMA AdmitLocalKeeps ==
    ASSUME CallsInv, stage \in [Calls -> Stages], NEW i \in Calls, AdmitLocal(i)
    PROVE  CallsInv'
  <1> DEFINE x == Cleaned(px)
             y == Reserve(x, i)
             d == [x.reserved EXCEPT ![KeyOf[i]] = i]
  <1>1. /\ stage[i] = "resolved" /\ IsLocal(i) /\ KeyFree(x, i) /\ px' = y
        /\ stage' = [stage EXCEPT ![i] = "local"]
        /\ UNCHANGED <<target, response, overdue>>
    BY DEF AdmitLocal
  <1>2. Sound(x, {}) /\ Eases(px, x)
    BY CleanedKeeps DEF CallsInv
  <1>3. x \in PendingState /\ x.pending \in SUBSET Calls
    BY <1>2 DEF Sound, PendingState
  <1>4. i \notin x.pending /\ x.reserved[KeyOf[i]] = None
    BY <1>1, <1>2 DEF Sound, Reserved, Flight, KeyFree
  <1>5. d \in [Keys -> Calls \cup {None}]
    BY <1>3 DEF PendingState
  <1>6. /\ y \in PendingState
        /\ y.pending = x.pending /\ y.perProvider = x.perProvider
        /\ y.perTenant = x.perTenant /\ y.reserved = d
    <2>1. y = [x EXCEPT !.reserved = d]
      BY DEF Reserve
    <2> HIDE DEF d, x, y
    <2>. QED BY <1>3, <1>5, <2>1 DEF PendingState
  <1> HIDE DEF x, y
  <1>7. /\ \A j \in Calls : j # i => stage'[j] = stage[j]
        /\ stage'[i] = "local"
    BY <1>1
  <1>8. Counted(px)'
    <2>1. \A q \in Providers : PendingOf(px, q)' = PendingOf(x, q)
      BY <1>1, <1>6 DEF PendingOf, ProviderOf
    <2>. QED BY <1>1, <1>2, <1>6, <2>1 DEF Sound, Counted
  <1>9. Reserved(px, {})'
    <2>1. \A k \in Keys : d[k] # None =>
              KeyOf[d[k]] = k /\ (d[k] \in y.pending \/ stage'[d[k]] = "local")
      <3>1. \A k \in Keys : d[k] = IF k = KeyOf[i] THEN i ELSE x.reserved[k]
        BY <1>3 DEF PendingState
      <3>2. \A k \in Keys : x.reserved[k] # None =>
                /\ KeyOf[x.reserved[k]] = k /\ x.reserved[k] \in Calls
                /\ x.reserved[k] \in x.pending \/ stage[x.reserved[k]] = "local"
        BY <1>2, <1>3 DEF Sound, Reserved, PendingState
      <3> HIDE DEF d
      <3>. QED BY <1>6, <1>7, <3>1, <3>2
    <2>2. \A j \in Calls : x.reserved[KeyOf[j]] = j => d[KeyOf[j]] = j
      BY <1>3, <1>4, ProxyParts DEF PendingState
    <2>3. d[KeyOf[i]] = i
      BY <1>3, ProxyParts DEF PendingState
    <2> HIDE DEF d
    <2>4. \A j \in y.pending : d[KeyOf[j]] = j /\ stage'[j] \in Flight
      BY <1>2, <1>3, <1>4, <1>6, <1>7, <2>2 DEF Sound, Reserved
    <2>5. \A j \in Calls : stage'[j] = "local" /\ j \notin overdue' => d[KeyOf[j]] = j
      BY <1>1, <1>2, <1>7, <2>2, <2>3 DEF Sound, Reserved
    <2>. QED BY <1>1, <1>6, <2>1, <2>4, <2>5 DEF Reserved
  <1>10. Targeted'
    BY <1>1, <1>7 DEF CallsInv, Targeted, IsLocal, Flight, Late, Target
  <1>11. ResponsesKept'
    <2>1. i \notin response
      BY <1>1 DEF CallsInv, ResponsesKept, Flight
    <2>. QED BY <1>1, <1>2, <1>6, <2>1 DEF CallsInv, ResponsesKept, Eases, Flight
  <1>. QED BY <1>1, <1>6, <1>8, <1>9, <1>10, <1>11 DEF CallsInv, Sound

(* The time of a call is up. *)
LEMMA LateKeeps ==
    ASSUME CallsInv, response \in SUBSET Calls, NEW i \in Calls,
           NEW x, px' = x, Sound(x, {i}), Eases(px, x), Untied(x, i), i \notin response,
           UNCHANGED <<target, response, overdue>>, target[i] \in Target,
           stage'[i] \in Late, \A j \in Calls \ {i} : stage'[j] = stage[j]
    PROVE  CallsInv'
  <1>1. \A j \in {i} :
            Untied(x, j) /\ j \notin response' /\ stage'[j] \in Late /\ target'[j] \in Target
    OBVIOUS
  <1>2. \A j \in Calls \ {i} :
            target'[j] = target[j] /\ (j \in overdue => j \in overdue') /\ stage'[j] = stage[j]
    OBVIOUS
  <1>3. {i} \in SUBSET Calls /\ response' \subseteq response \cup (px.pending \ x.pending)
    OBVIOUS
  <1>. QED BY <1>1, <1>2, <1>3, CallsSettle

(* A call ends. *)
LEMMA EndsKeeps ==
    ASSUME CallsInv, TypeOK, NEW i \in Calls, Ends(i),
           NEW x, px' = x, Sound(x, {i}), Eases(px, x), Untied(x, i)
    PROVE  CallsInv'
  <1>1. /\ stage'[i] = "done" /\ i \notin response'
        /\ \A j \in Calls \ {i} :
               /\ stage'[j] = stage[j] /\ target'[j] = target[j]
               /\ j \in overdue => j \in overdue'
        /\ response' \subseteq response /\ response \in SUBSET Calls
    BY DEF Ends, TypeOK
  <1>. QED BY <1>1, CallsSettle

LEMMA SoundBut ==
    ASSUME NEW x, NEW E, Sound(x, {})
    PROVE  Sound(x, E)
  BY DEF Sound, Reserved

(* Nothing is reserved for a call that is neither in flight nor local, or  *)
(* whose entry has been taken.                                             *)
LEMMA UntiedWhen ==
    ASSUME NEW E, NEW x, Sound(x, E), NEW i \in Calls,
           i \notin x.pending, stage[i] # "local"
    PROVE  Untied(x, i)
  BY ProxyParts DEF Sound, Reserved, Untied

LEMMA EasesSelf == \A x : Eases(x, x)
  BY DEF Eases

LEMMA EasesTwice ==
    ASSUME NEW x, NEW y, NEW z, Eases(x, y), Eases(y, z)
    PROVE  Eases(x, z)
  BY DEF Eases

(* The call begins, or is answered from the cache, or cannot be resolved.  *)
LEMMA StartKeeps ==
    ASSUME CallsInv, TypeOK, NEW i \in Calls, Start(i), stage[i] \in {"idle", "queued"}
    PROVE  CallsInv'
  <1>1. Sound(px, {}) /\ Sound(px, {i}) /\ Untied(px, i)
    BY SoundBut, UntiedWhen DEF CallsInv, Sound, Reserved, Flight
  <1>2. CASE Ends(i) /\ UNCHANGED px
    BY <1>1, <1>2, EndsKeeps, EasesSelf
  <1>3. ASSUME NEW t \in Resolvable(i), px' = Cleaned(px)
        PROVE  /\ Sound(px', {}) /\ Sound(px', {i}) /\ Eases(px, px') /\ Untied(px', i)
               /\ IsLocal(i) \/ t \in Target
    <2>1. Sound(px', {}) /\ Eases(px, px')
      BY <1>1, <1>3, CleanedKeeps
    <2>2. Sound(px', {i}) /\ Untied(px', i)
      BY <1>1, <2>1, SoundBut, EasesUntied
    <2>3. IsLocal(i) \/ t \in Target
      BY <1>3 DEF Resolvable
    <2>. QED BY <2>1, <2>2, <2>3
  <1>4. ASSUME NEW t \in Resolvable(i), px' = Cleaned(px), Ends(i)
        PROVE  CallsInv'
    BY <1>3, <1>4, EndsKeeps
  <1>5. ASSUME NEW t \in Resolvable(i), px' = Cleaned(px),
               target' = [target EXCEPT ![i] = t],
               stage' = [stage EXCEPT ![i] = "resolved"],
               UNCHANGED <<response, overdue>>
        PROVE  CallsInv'
    <2>1. i \notin response /\ response \in SUBSET Calls
      BY DEF CallsInv, ResponsesKept, Flight, TypeOK
    <2>2. /\ stage'[i] = "resolved" /\ target'[i] = t
          /\ \A j \in Calls \ {i} : stage'[j] = stage[j] /\ target'[j] = target[j]
      BY <1>5 DEF TypeOK
    <2>3. Sound(px', {i}) /\ Eases(px, px') /\ Untied(px', i) /\ (IsLocal(i) \/ t \in Target)
      BY <1>3, <1>5
    <2>. QED BY <1>5, <2>1, <2>2, <2>3, CallsSettle
  <1>. QED BY <1>2, <1>4, <1>5 DEF Start

LEMMA ProviderKnown ==
    ASSUME CallsInv, NEW i \in Calls, stage[i] \in Flight \cup Late
    PROVE  target[i] \in Target /\ ProviderOf(i) \in Providers
  BY DEF CallsInv, Targeted, Target, ProviderOf

(* One of the steps of invoke_inner, all the ways a call can end included. *)
LEMMA ProgressKeeps ==
    ASSUME CallsInv, TypeOK, NEW i \in Calls, Progress(i)
    PROVE  CallsInv'
  <1>1. Sound(px, {}) /\ Sound(px, {i}) /\ Eases(px, px)
    BY SoundBut, EasesSelf DEF CallsInv
  <1>2. stage[i] \notin Flight \cup {"local"} => Untied(px, i)
    BY <1>1, UntiedWhen DEF Sound, Reserved, Flight
  <1>3. CASE FindUnconnected(i)
    BY <1>1, <1>2, <1>3, EndsKeeps DEF FindUnconnected, Flight
  <1>4. CASE Refuse(i)
    <2>1. Sound(Cleaned(px), {i}) /\ Eases(px, Cleaned(px))
      BY <1>1, CleanedKeeps
    <2>2. Untied(Cleaned(px), i)
      BY <1>2, <1>4, <2>1, EasesUntied DEF Refuse, Flight
    <2>. QED BY <1>4, <2>1, <2>2, EndsKeeps DEF Refuse
  <1>5. CASE Admit(i) \/ AdmitLocal(i)
    BY <1>5, AdmitKeeps, AdmitLocalKeeps DEF TypeOK
  <1>6. CASE Send(i) \/ Expire(i)
    <2>1. /\ UNCHANGED <<px, target, response, overdue>>
          /\ stage[i] \in Flight /\ stage'[i] \in Flight
          /\ \A j \in Calls \ {i} : stage'[j] = stage[j]
      BY <1>6 DEF Send, Expire, Flight, TypeOK
    <2>2. response \in SUBSET Calls
      BY DEF TypeOK
    <2>. QED BY <1>1, <2>1, <2>2, CallsSettle
  <1>7. CASE SendFails(i)
    <2>1. ProviderOf(i) \in Providers /\ stage[i] # "local" /\ Ends(i)
      BY <1>7, ProviderKnown DEF SendFails, Flight
    <2>2. CASE i \in px.pending
      <3> DEFINE t == Take(px, {i})
      <3>1. Sound(t, {i}) /\ Eases(px, t) /\ Untied(t, i)
        BY <1>1, <2>1, TakeKeeps
      <3>2. Sound(Failed(t, ProviderOf(i)), {i}) /\ Eases(t, Failed(t, ProviderOf(i)))
        BY <2>1, <3>1, FailedKeeps
      <3>3. px' = Failed(t, ProviderOf(i))
        BY <1>7, <2>2 DEF SendFails
      <3> HIDE DEF t
      <3>. QED BY <2>1, <3>1, <3>2, <3>3, EasesTwice, EasesUntied, EndsKeeps
    <2>3. CASE i \notin px.pending
      BY <1>1, <1>7, <2>1, <2>3, UntiedWhen, EndsKeeps DEF SendFails
    <2>. QED BY <2>2, <2>3
  <1>8. CASE Wake(i)
    <2>1. Untied(px, i)
      BY <1>1, <1>8, UntiedWhen DEF Wake, CallsInv, ResponsesKept
    <2>2. Sound(Store(px, i), {i}) /\ Eases(px, Store(px, i))
      BY <1>1, StoreKeeps
    <2>3. Untied(Store(px, i), i)
      BY <2>1, <2>2, EasesUntied
    <2>. QED BY <1>1, <1>8, <2>1, <2>2, <2>3, EndsKeeps DEF Wake
  <1>9. CASE Disconnected(i) \/ Cancelled(i)
    <2>1. ProviderOf(i) \in Providers /\ px' = Failed(px, ProviderOf(i)) /\ Ends(i)
      BY <1>9, ProviderKnown DEF Disconnected, Cancelled, Flight, Late
    <2>2. Untied(px, i)
      BY <1>1, <1>2, <1>9, UntiedWhen DEF Disconnected, Cancelled, Flight
    <2>3. Sound(px', {i}) /\ Eases(px, px')
      BY <1>1, <2>1, FailedKeeps
    <2>. QED BY <2>1, <2>2, <2>3, EasesUntied, EndsKeeps
  <1>10. CASE TimeOut(i)
    <2> DEFINE t == Take(px, {i})
    <2>1. stage[i] = "expired" /\ px' = t
      BY <1>10 DEF TimeOut
    <2>2. Sound(t, {i}) /\ Eases(px, t) /\ Untied(t, i)
      BY <1>1, <2>1, TakeKeeps
    <2> HIDE DEF t
    <2>3. CASE Ends(i)
      BY <2>1, <2>2, <2>3, EndsKeeps
    <2>4. CASE ~Ends(i)
      <3>1. /\ i \in px.pending /\ UNCHANGED <<target, response, overdue>>
            /\ stage' = [stage EXCEPT ![i] = "timed out"]
        BY <1>10, <2>4 DEF TimeOut
      <3>2. i \notin response /\ response \in SUBSET Calls
        BY <3>1 DEF CallsInv, ResponsesKept, TypeOK
      <3>3. /\ stage'[i] \in Late /\ target'[i] \in Target
            /\ \A j \in Calls \ {i} : stage'[j] = stage[j]
        BY <2>1, <3>1, ProviderKnown DEF TypeOK, Flight, Late
      <3>. QED BY <2>1, <2>2, <3>1, <3>2, <3>3, LateKeeps
    <2>. QED BY <2>3, <2>4
  <1>11. CASE FinishLocal(i)
    <2>1. stage[i] = "local" /\ Ends(i)
      BY <1>11 DEF FinishLocal
    <2>2. /\ Sound(Release(px, i), {i}) /\ Untied(Release(px, i), i)
          /\ Eases(px, Release(px, i))
      BY <1>1, <2>1, ReleaseKeeps
    <2> DEFINE s == Store(px, i)
    <2>3. Sound(s, {}) /\ Eases(px, s)
      BY <1>1, StoreKeeps
    <2>4. px' = Release(s, i) \/ px' = Release(px, i)
      BY <1>11 DEF FinishLocal
    <2> HIDE DEF s
    <2>5. /\ Sound(Release(s, i), {i}) /\ Untied(Release(s, i), i)
          /\ Eases(s, Release(s, i))
      BY <2>1, <2>3, ReleaseKeeps
    <2>6. Eases(px, Release(s, i))
      BY <2>3, <2>5, EasesTwice
    <2>. QED BY <2>1, <2>2, <2>4, <2>5, <2>6, EndsKeeps
  <1>12. CASE Lookup(i)
    <2>1. /\ UNCHANGED <<px, target, response, overdue>>
          /\ \A j \in Calls \ {i} : stage'[j] = stage[j]
          /\ \/ stage[i] = "registered" /\ stage'[i] = "sending"
             \/ stage[i] = "timed out" /\ stage'[i] = "cancelling"
      BY <1>12 DEF Lookup, TypeOK
    <2>2. response \in SUBSET Calls
      BY DEF TypeOK
    <2>3. CASE stage[i] = "registered"
      BY <1>1, <2>1, <2>2, <2>3, CallsSettle DEF Flight
    <2>4. CASE stage[i] = "timed out"
      <3>1. Untied(px, i) /\ i \notin response
        BY <1>2, <2>4 DEF Flight, CallsInv, ResponsesKept
      <3>2. stage'[i] \in Late /\ target'[i] \in Target
        BY <2>1, <2>4, ProviderKnown DEF Late
      <3>. QED BY <1>1, <2>1, <2>2, <3>1, <3>2, LateKeeps
    <2>. QED BY <2>1, <2>3, <2>4
  <1>. QED
    BY <1>3, <1>4, <1>5, <1>6, <1>7, <1>8, <1>9, <1>10, <1>11, <1>12 DEF Progress

(* The guards of a dropped future. *)
LEMMA DroppedKeeps ==
    ASSUME CallsInv, NEW i \in Calls
    PROVE  /\ Sound(Dropped(px, i), {i}) /\ Eases(px, Dropped(px, i))
           /\ Untied(Dropped(px, i), i)
  <1>1. Sound(px, {}) /\ Sound(px, {i}) /\ Eases(px, px)
    BY SoundBut, EasesSelf DEF CallsInv
  <1>2. CASE stage[i] \in Flight
    BY <1>1, <1>2, TakeKeeps DEF Dropped, Flight
  <1>3. CASE stage[i] = "local"
    BY <1>1, <1>3, ReleaseKeeps DEF Dropped, Flight
  <1>4. CASE stage[i] \notin Flight \cup {"local"}
    <2>1. Untied(px, i)
      BY <1>1, <1>4, UntiedWhen DEF Sound, Reserved
    <2>2. Dropped(px, i) = px
      BY <1>4 DEF Dropped, Flight
    <2>. QED BY <1>1, <2>1, <2>2
  <1>. QED BY <1>2, <1>3, <1>4

LEMMA LapseKeeps ==
    ASSUME CallsInv, TypeOK, Lapse
    PROVE  CallsInv'
  <1>1. /\ UNCHANGED <<stage, target, response>> /\ response \in SUBSET Calls
        /\ overdue \subseteq overdue'
    BY DEF Lapse, TypeOK
  <1>2. px \in PendingState
    BY DEF CallsInv, Sound
  <1> DEFINE Alike ==
                /\ px' \in PendingState
                /\ px'.pending = px.pending /\ px'.perProvider = px.perProvider
                /\ px'.perTenant = px.perTenant /\ px'.reserved = px.reserved
  <1>3. Alike
    <2>1. CASE UNCHANGED px
      BY <1>2, <2>1
    <2>2. ASSUME NEW k \in Keys, px' = [px EXCEPT !.cache[k] = None]
          PROVE  Alike
      BY <1>2, <2>2 DEF PendingState
    <2>3. ASSUME NEW p \in px.blocked, px' = [px EXCEPT !.blocked = @ \ {p}]
          PROVE  Alike
      BY <1>2, <2>3 DEF PendingState
    <2>4. ASSUME NEW p \in Providers, px.failures[p] > 0,
                 px' = [px EXCEPT !.failures[p] = @ - 1]
          PROVE  Alike
      <3>1. px.failures[p] - 1 \in 0..(FailureLimit - 1)
        BY <1>2, <2>4, ProxyParts DEF PendingState
      <3> DEFINE f == [px.failures EXCEPT ![p] = px.failures[p] - 1]
      <3>2. f \in [Providers -> 0..(FailureLimit - 1)]
        BY <1>2, <3>1 DEF PendingState
      <3>3. px' = [px EXCEPT !.failures = f]
        BY <2>4
      <3> HIDE DEF f
      <3>. QED BY <1>2, <3>2, <3>3 DEF PendingState
    <2>5. \/ UNCHANGED px
          \/ \E k \in Keys : px' = [px EXCEPT !.cache[k] = None]
          \/ \E p \in px.blocked : px' = [px EXCEPT !.blocked = @ \ {p}]
          \/ \E p \in Providers :
                 px.failures[p] > 0 /\ px' = [px EXCEPT !.failures[p] = @ - 1]
      BY Zenon DEF Lapse
    <2> HIDE DEF Alike
    <2>. QED BY <2>1, <2>2, <2>3, <2>4, <2>5
  <1>4. Sound(px', {}) /\ Eases(px, px')
    BY <1>3, SameTies DEF CallsInv
  <1>. QED BY <1>1, <1>4, CallsSettle

-----------------------------------------------------------------------------
(* The requests in the inboxes.                                            *)

LEMMA RequestParts ==
    ASSUME TypeOK, NEW n \in Ids, NEW m \in Nat, IsRequest(n, m)
    PROVE  inbox[n][m] \in Message /\ inbox[n][m].call \in Calls
  <1>1. inbox[n] \in Seq(Message) /\ m \in 1..Len(inbox[n])
    BY DEF TypeOK, IsRequest
  <1>2. inbox[n][m] \in Message
    BY <1>1
  <1>. QED BY <1>2 DEF Message, IsRequest

(* Requests are not duplicated when messages only go, at the front of an   *)
(* inbox or all at once.                                                   *)
LEMMA RequestsShift ==
    ASSUME RequestsQueued, NEW by \in [Ids -> Nat],
           \A n \in Ids : \A m \in Nat : IsRequest(n, m)' =>
               IsRequest(n, m + by[n]) /\ inbox'[n][m] = inbox[n][m + by[n]]
    PROVE  \A n, o \in Ids : \A m, l \in Nat :
               /\ IsRequest(n, m)' /\ IsRequest(o, l)'
               /\ inbox'[n][m].call = inbox'[o][l].call
               => n = o /\ m = l
  <1> SUFFICES ASSUME NEW n \in Ids, NEW o \in Ids, NEW m \in Nat, NEW l \in Nat,
                      IsRequest(n, m)', IsRequest(o, l)',
                      inbox'[n][m].call = inbox'[o][l].call
               PROVE  n = o /\ m = l
    OBVIOUS
  <1>1. m + by[n] \in Nat /\ l + by[o] \in Nat
    OBVIOUS
  <1>2. /\ IsRequest(n, m + by[n]) /\ IsRequest(o, l + by[o])
        /\ inbox[n][m + by[n]].call = inbox[o][l + by[o]].call
    BY Zenon
  <1>3. n = o /\ m + by[n] = l + by[o]
    BY <1>1, <1>2 DEF RequestsQueued
  <1>. QED BY <1>3

(* The inboxes stay, and no call enters or leaves its inbox. *)
LEMMA RequestsStay ==
    ASSUME RequestsQueued, TypeOK, UNCHANGED <<inbox, busy>>,
           \A i \in Calls : /\ stage'[i] = "queued" <=> stage[i] = "queued"
                            /\ stage'[i] = "idle" => stage[i] = "idle"
    PROVE  RequestsQueued'
  <1>1. \A n \in Ids : \A m \in Nat : IsRequest(n, m)' <=> IsRequest(n, m)
    BY DEF IsRequest
  <1>2. \A n \in Ids : \A m \in Nat : IsRequest(n, m) => inbox[n][m].call \in Calls
    BY RequestParts
  <1>3. \A n \in Ids : busy[n] # None => busy[n] \in Calls
    BY DEF TypeOK
  <1>. QED BY <1>1, <1>2, <1>3 DEF RequestsQueued

(* A message that is not a request arrives. *)
LEMMA RequestsHear ==
    ASSUME RequestsQueued, TypeOK, NEW n \in Ids, NEW msg \in Message, Say(n, msg),
           msg.type # "request", UNCHANGED <<stage, busy>>
    PROVE  RequestsQueued'
  <1>1. inbox \in [Ids -> Seq(Message)]
    BY DEF TypeOK
  <1>2. ASSUME NEW o \in Ids, NEW m \in Nat, IsRequest(o, m)'
        PROVE  IsRequest(o, m) /\ inbox'[o][m] = inbox[o][m]
    <2>1. CASE o # n
      BY <1>1, <1>2, <2>1 DEF Say, IsRequest
    <2>2. CASE o = n
      <3>1. inbox'[n] = Append(inbox[n], msg) /\ inbox[n] \in Seq(Message)
        BY <1>1 DEF Say
      <3>2. /\ m \in 1..(Len(inbox[n]) + 1)
            /\ inbox'[n][m] = IF m <= Len(inbox[n]) THEN inbox[n][m] ELSE msg
        BY <1>2, <2>2, <3>1 DEF IsRequest
      <3>3. m <= Len(inbox[n])
        BY <1>2, <2>2, <3>2 DEF IsRequest
      <3>. QED BY <1>2, <2>2, <3>2, <3>3 DEF IsRequest
    <2>. QED BY <2>1, <2>2
  <1>. QED BY <1>2 DEF RequestsQueued

(* The message a processor takes is the first of its inbox. *)
LEMMA TakesParts ==
    ASSUME TypeOK, NEW n \in Ids, NEW type, Takes(n, type)
    PROVE  /\ Head(inbox[n]) \in Message /\ Head(inbox[n]) = inbox[n][1]
           /\ Head(inbox[n]).type = type /\ 1 \in 1..Len(inbox[n])
           /\ inbox' \in [Ids -> Seq(Message)]
           /\ \A o \in Ids : \A m \in Nat : IsRequest(o, m)' =>
                  /\ IsRequest(o, m + (IF o = n THEN 1 ELSE 0))
                  /\ inbox'[o][m] = inbox[o][m + (IF o = n THEN 1 ELSE 0)]
  <1>1. /\ inbox \in [Ids -> Seq(Message)] /\ inbox[n] # <<>>
        /\ inbox' = [inbox EXCEPT ![n] = Tail(@)] /\ Head(inbox[n]).type = type
    BY DEF TypeOK, Takes
  <1>2. inbox[n] \in Seq(Message) /\ inbox[n] # <<>>
    BY <1>1
  <1>3. /\ Head(inbox[n]) \in Message /\ Head(inbox[n]) = inbox[n][1]
        /\ 1 \in 1..Len(inbox[n]) /\ Tail(inbox[n]) \in Seq(Message)
        /\ Len(Tail(inbox[n])) = Len(inbox[n]) - 1 /\ Len(inbox[n]) \in Nat
        /\ \A m \in 1..(Len(inbox[n]) - 1) : Tail(inbox[n])[m] = inbox[n][m + 1]
    BY <1>2
  <1>4. inbox' \in [Ids -> Seq(Message)]
    BY <1>1, <1>3
  <1>5. ASSUME NEW o \in Ids, NEW m \in Nat, IsRequest(o, m)'
        PROVE  /\ IsRequest(o, m + (IF o = n THEN 1 ELSE 0))
               /\ inbox'[o][m] = inbox[o][m + (IF o = n THEN 1 ELSE 0)]
    <2>1. CASE o # n
      <3>1. inbox'[o] = inbox[o]
        BY <1>1, <2>1
      <3>2. m + (IF o = n THEN 1 ELSE 0) = m
        BY <2>1
      <3>. QED BY <1>5, <3>1, <3>2 DEF IsRequest
    <2>2. CASE o = n
      <3>1. inbox'[n] = Tail(inbox[n])
        BY <1>1
      <3>2. m \in 1..(Len(inbox[n]) - 1) /\ inbox'[n][m].type = "request"
        BY <1>3, <1>5, <2>2, <3>1 DEF IsRequest
      <3>3. m + 1 \in 1..Len(inbox[n]) /\ inbox'[n][m] = inbox[n][m + 1]
        BY <1>3, <3>1, <3>2
      <3>. QED BY <2>2, <3>2, <3>3 DEF IsRequest
    <2>. QED BY <2>1, <2>2
  <1>. QED BY <1>1, <1>3, <1>4, <1>5

LEMMA RequestsTaken ==
    ASSUME RequestsQueued, TypeOK, NEW n \in Ids, NEW type, Takes(n, type)
    PROVE  /\ \A o \in Ids : \A m \in Nat : IsRequest(o, m)' =>
                  \E l \in Nat : /\ IsRequest(o, l) /\ inbox'[o][m] = inbox[o][l]
                                 /\ o = n => l # 1
           /\ \A j, o \in Ids : \A m, l \in Nat :
                  /\ IsRequest(j, m)' /\ IsRequest(o, l)'
                  /\ inbox'[j][m].call = inbox'[o][l].call
                  => j = o /\ m = l
  <1> DEFINE by == [o \in Ids |-> IF o = n THEN 1 ELSE 0]
  <1>1. by \in [Ids -> Nat] /\ \A o \in Ids : by[o] = IF o = n THEN 1 ELSE 0
    OBVIOUS
  <1> HIDE DEF by
  <1>2. \A o \in Ids : \A m \in Nat : IsRequest(o, m)' =>
            IsRequest(o, m + by[o]) /\ inbox'[o][m] = inbox[o][m + by[o]]
    BY <1>1, TakesParts
  <1>3. \A o \in Ids : \A m \in Nat : IsRequest(o, m)' => m \in 1..Len(inbox'[o])
    BY DEF IsRequest
  <1>4. \A o \in Ids : \A m \in Nat : m + by[o] \in Nat
    BY <1>1
  <1>5. \A m \in Nat : IsRequest(n, m)' => m + by[n] # 1
    BY <1>1, <1>3
  <1>6. \A o \in Ids : \A m \in Nat : IsRequest(o, m)' =>
            \E l \in Nat : /\ IsRequest(o, l) /\ inbox'[o][m] = inbox[o][l]
                           /\ o = n => l # 1
    <2> SUFFICES ASSUME NEW o \in Ids, NEW m \in Nat, IsRequest(o, m)'
                 PROVE  \E l \in Nat : /\ IsRequest(o, l) /\ inbox'[o][m] = inbox[o][l]
                                       /\ o = n => l # 1
      OBVIOUS
    <2>1. /\ IsRequest(o, m + by[o]) /\ inbox'[o][m] = inbox[o][m + by[o]]
          /\ o = n => m + by[o] # 1
      BY <1>2, <1>5
    <2>. QED BY <1>4, <2>1, Zenon
  <1>7. \A j, o \in Ids : \A m, l \in Nat :
            /\ IsRequest(j, m)' /\ IsRequest(o, l)'
            /\ inbox'[j][m].call = inbox'[o][l].call
            => j = o /\ m = l
    BY <1>1, <1>2, RequestsShift
  <1>. QED BY <1>6, <1>7, Zenon

-----------------------------------------------------------------------------
(* Both together, step by step.                                            *)

Bookkeeping == CallsInv /\ RequestsQueued

LEMMA CallsUntouched ==
    ASSUME CallsInv, TypeOK, UNCHANGED <<stage, target, response, overdue>>,
           Sound(px', {}), Eases(px, px')
    PROVE  CallsInv'
  <1>1. response \in SUBSET Calls /\ {} \in SUBSET Calls
    BY DEF TypeOK
  <1>2. \A i \in Calls \ {} :
            /\ target'[i] = target[i] /\ stage'[i] = stage[i]
            /\ i \in overdue => i \in overdue'
    OBVIOUS
  <1>. QED BY <1>1, <1>2, CallsSettle

LEMMA StartStages ==
    ASSUME TypeOK, NEW i \in Calls, Start(i)
    PROVE  /\ stage'[i] \in {"done", "resolved"}
           /\ \A j \in Calls \ {i} : stage'[j] = stage[j]
  <1>1. stage \in [Calls -> Stages]
    BY DEF TypeOK
  <1>2. stage' = [stage EXCEPT ![i] = "done"] \/ stage' = [stage EXCEPT ![i] = "resolved"]
    BY Zenon DEF Start, Ends
  <1>. QED BY <1>1, <1>2

LEMMA CallSteps ==
    ASSUME Bookkeeping, TypeOK, NEW i \in Calls,
           UserCall(i) \/ Progress(i) \/ DropCall(i)
    PROVE  Bookkeeping'
  <1>1. CASE UserCall(i)
    <2>1. stage[i] = "idle" /\ Start(i) /\ UNCHANGED <<inbox, busy>>
      BY <1>1 DEF UserCall, wireVars, queueVars
    <2>2. CallsInv'
      BY <2>1, StartKeeps DEF Bookkeeping
    <2>3. \A j \in Calls : /\ stage'[j] = "queued" <=> stage[j] = "queued"
                           /\ stage'[j] = "idle" => stage[j] = "idle"
      BY <2>1, StartStages
    <2>. QED BY <2>1, <2>2, <2>3, RequestsStay DEF Bookkeeping
  <1>2. CASE Progress(i)
    <2>1. UNCHANGED <<inbox, busy>>
      BY <1>2 DEF Progress, FindUnconnected, Refuse, Admit, Lookup, Send, SendFails, Wake,
         Disconnected, Expire, TimeOut, Cancelled, AdmitLocal, FinishLocal, Elsewhere,
         wireVars, queueVars
    <2>2. /\ stage[i] \notin {"idle", "queued"}
          /\ \E g \in Stages \ {"idle", "queued"} : stage' = [stage EXCEPT ![i] = g]
      BY <1>2 DEF Progress, FindUnconnected, Refuse, Admit, Lookup, Send, SendFails, Wake,
         Disconnected, Expire, TimeOut, Cancelled, AdmitLocal, FinishLocal, Ends, Stages
    <2>3. \A j \in Calls : /\ stage'[j] = "queued" <=> stage[j] = "queued"
                           /\ stage'[j] = "idle" => stage[j] = "idle"
      BY <2>2 DEF TypeOK
    <2>. QED BY <1>2, <2>1, <2>3, RequestsStay, ProgressKeeps DEF Bookkeeping
  <1>3. CASE DropCall(i)
    <2>1. /\ stage[i] \notin {"idle", "queued"} /\ Ends(i) /\ px' = Dropped(px, i)
          /\ UNCHANGED <<inbox, busy>>
      BY <1>3 DEF DropCall, Elsewhere, wireVars, queueVars, Bookkeeping, RequestsQueued
    <2>2. CallsInv'
      BY <2>1, DroppedKeeps, EndsKeeps DEF Bookkeeping
    <2>3. \A j \in Calls : /\ stage'[j] = "queued" <=> stage[j] = "queued"
                           /\ stage'[j] = "idle" => stage[j] = "idle"
      BY <2>1 DEF Ends, TypeOK
    <2>. QED BY <2>1, <2>2, <2>3, RequestsStay DEF Bookkeeping
  <1>. QED BY <1>1, <1>2, <1>3

(* The calls and the inboxes are not touched, or only by a message that is *)
(* not a request.                                                          *)
LEMMA QuietSteps ==
    ASSUME Bookkeeping, TypeOK, NEW n \in Ids,
           \/ Connect(n) \/ SendRegistration(n) \/ (\E i \in Calls : Answer(n, i))
           \/ Notify(n) \/ Deliver(n) \/ ReadReply(n) \/ Cleanup(n)
    PROVE  Bookkeeping'
  <1>1. Sound(px, {}) /\ Eases(px, px)
    BY EasesSelf DEF Bookkeeping, CallsInv
  <1>3. CASE \/ Connect(n) \/ Notify(n) \/ Deliver(n) \/ ReadReply(n)
             \/ UnregisterSurfaces(n) \/ EndCleanup(n)
    <2>1. UNCHANGED <<callVars, inbox, busy>>
      BY <1>3 DEF Connect, Notify, Deliver, ReadReply, UnregisterSurfaces, EndCleanup,
         wireVars, queueVars
    <2>. QED BY <1>1, <2>1, CallsUntouched, RequestsStay DEF Bookkeeping, callVars
  <1>4. CASE SendRegistration(n)
    <2>1. PICK p \in Providers : Say(n, [type |-> "registration", prov |-> p])
      BY <1>4 DEF SendRegistration
    <2>2. [type |-> "registration", prov |-> p] \in Message
      BY DEF Message
    <2>. QED
      BY <1>1, <1>4, <2>1, <2>2, CallsUntouched, RequestsHear
      DEF Bookkeeping, SendRegistration, callVars
  <1>5. ASSUME NEW i \in Calls, Answer(n, i)
        PROVE  Bookkeeping'
    <2>1. [type |-> "response", call |-> i] \in Message
      BY DEF Message
    <2>. QED
      BY <1>1, <1>5, <2>1, CallsUntouched, RequestsHear DEF Bookkeeping, Answer, callVars
  <1>6. CASE FailSurfaces(n)
    <2>1. boundTo[Svc(n)] \in Providers \cup {None}
      BY IdParts DEF TypeOK
    <2>2. Sound(px', {}) /\ Eases(px, px')
      BY <1>1, <1>6, <2>1, FailInFlightKeeps DEF FailSurfaces
    <2>. QED
      BY <1>6, <2>2, CallsUntouched, RequestsStay DEF Bookkeeping, FailSurfaces, queueVars
  <1>. QED BY <1>3, <1>4, <1>5, <1>6 DEF Cleanup

LEMMA OutsideSteps ==
    ASSUME Bookkeeping, TypeOK,
           Lapse \/ \E c \in Controllers, s \in Services : Deactivate(c, s)
    PROVE  Bookkeeping'
  <1>1. Sound(px, {}) /\ Eases(px, px)
    BY EasesSelf DEF Bookkeeping, CallsInv
  <1>2. CASE Lapse
    <2>1. UNCHANGED <<inbox, busy, stage>>
      BY <1>2 DEF Lapse, wireVars, queueVars
    <2>. QED BY <1>2, <2>1, LapseKeeps, RequestsStay DEF Bookkeeping
  <1>3. CASE \E c \in Controllers, s \in Services : Deactivate(c, s)
    <2>1. UNCHANGED <<callVars, inbox, busy>>
      BY <1>3 DEF Deactivate, wireVars, queueVars
    <2>. QED BY <1>1, <2>1, CallsUntouched, RequestsStay DEF Bookkeeping, callVars
  <1>. QED BY <1>2, <1>3

LEMMA SendRequestKeeps ==
    ASSUME Bookkeeping, TypeOK, NEW n \in Ids, NEW i \in Calls, SendRequest(n, i)
    PROVE  Bookkeeping'
  <1> DEFINE msg == [type |-> "request", call |-> i]
  <1>1. /\ stage[i] = "idle" /\ Caller[i] = Svc(n) /\ Say(n, msg)
        /\ stage' = [stage EXCEPT ![i] = "queued"]
        /\ UNCHANGED <<px, target, response, overdue, busy>>
    BY DEF SendRequest
  <1>2. /\ stage'[i] = "queued" /\ \A j \in Calls \ {i} : stage'[j] = stage[j]
        /\ response \in SUBSET Calls
    BY <1>1 DEF TypeOK
  <1>3. CallsInv'
    <2>1. Sound(px, {i}) /\ Eases(px, px) /\ Untied(px, i) /\ i \notin response
      BY <1>1, SoundBut, EasesSelf, UntiedWhen
      DEF Bookkeeping, CallsInv, Sound, Reserved, Flight, ResponsesKept
    <2>. QED BY <1>1, <1>2, <2>1, CallsSettle DEF Bookkeeping
  <1>4. inbox \in [Ids -> Seq(Message)] /\ msg \in Message
    BY DEF TypeOK, Message
  <1>5. ASSUME NEW o \in Ids, NEW m \in Nat, IsRequest(o, m)'
        PROVE  \/ IsRequest(o, m) /\ inbox'[o][m] = inbox[o][m]
               \/ o = n /\ m = Len(inbox[n]) + 1 /\ inbox'[o][m] = msg
    <2>1. CASE o # n
      <3>1. inbox'[o] = inbox[o]
        BY <1>1, <1>4, <2>1 DEF Say
      <3>. QED BY <1>5, <3>1 DEF IsRequest
    <2>2. CASE o = n
      <3>1. inbox'[n] = Append(inbox[n], msg) /\ inbox[n] \in Seq(Message)
        BY <1>1, <1>4 DEF Say
      <3> HIDE DEF msg
      <3>2. /\ m \in 1..(Len(inbox[n]) + 1) /\ Len(inbox[n]) \in Nat
            /\ inbox'[n][m] = IF m <= Len(inbox[n]) THEN inbox[n][m] ELSE msg
        BY <1>5, <2>2, <3>1 DEF IsRequest
      <3>. QED BY <1>5, <2>2, <3>2 DEF IsRequest
    <2>. QED BY <2>1, <2>2
  <1>6. \A o \in Ids : \A m \in Nat : IsRequest(o, m) => inbox[o][m].call \in Calls \ {i}
    BY <1>1, RequestParts DEF Bookkeeping, RequestsQueued
  <1>7. msg.call = i
    OBVIOUS
  <1> HIDE DEF msg
  <1>8. \A o \in Ids : \A m \in Nat :
            IsRequest(o, m)' => stage'[inbox'[o][m].call] = "queued"
    BY <1>2, <1>5, <1>6, <1>7 DEF Bookkeeping, RequestsQueued
  <1>9. \A j, o \in Ids : \A m, l \in Nat :
            /\ IsRequest(j, m)' /\ IsRequest(o, l)'
            /\ inbox'[j][m].call = inbox'[o][l].call
            => j = o /\ m = l
    <2> SUFFICES ASSUME NEW j \in Ids, NEW o \in Ids, NEW m \in Nat, NEW l \in Nat,
                        IsRequest(j, m)', IsRequest(o, l)',
                        inbox'[j][m].call = inbox'[o][l].call
                 PROVE  j = o /\ m = l
      OBVIOUS
    <2>1. CASE inbox'[j][m].call = i
      BY <1>5, <1>6, <2>1
    <2>2. CASE inbox'[j][m].call # i
      <3>1. /\ IsRequest(j, m) /\ IsRequest(o, l)
            /\ inbox[j][m].call = inbox[o][l].call
        BY <1>5, <1>7, <2>2
      <3>. QED BY <3>1 DEF Bookkeeping, RequestsQueued
    <2>. QED BY <2>1, <2>2
  <1>10. \A o \in Ids : busy'[o] # None => stage'[busy'[o]] \notin {"idle", "queued"}
    <2>1. \A o \in Ids : busy[o] # None => busy[o] \in Calls \ {i}
      BY <1>1 DEF TypeOK, Bookkeeping, RequestsQueued
    <2>. QED BY <1>1, <1>2, <2>1 DEF Bookkeeping, RequestsQueued
  <1>11. \A j \in Calls : stage'[j] = "queued" => Caller[j] # User
    <2>1. Caller[i] # User
      BY <1>1, IdParts, ProxyAssumption
    <2>. QED BY <1>2, <2>1 DEF Bookkeeping, RequestsQueued
  <1>. QED BY <1>3, <1>8, <1>9, <1>10, <1>11 DEF Bookkeeping, RequestsQueued

(* A message that starts no call is taken. *)
LEMMA RequestsWait ==
    ASSUME RequestsQueued, TypeOK, NEW n \in Ids, NEW type, Takes(n, type),
           UNCHANGED <<stage, busy>>
    PROVE  RequestsQueued'
  <1>1. \A o \in Ids : \A m \in Nat :
            IsRequest(o, m)' => stage'[inbox'[o][m].call] = "queued"
    BY RequestsTaken DEF RequestsQueued
  <1>2. \A j, o \in Ids : \A m, l \in Nat :
            /\ IsRequest(j, m)' /\ IsRequest(o, l)'
            /\ inbox'[j][m].call = inbox'[o][l].call
            => j = o /\ m = l
    BY RequestsTaken
  <1>. QED BY <1>1, <1>2 DEF RequestsQueued

LEMMA HandleResponseKeeps ==
    ASSUME Bookkeeping, TypeOK, NEW n \in Ids, HandleResponse(n)
    PROVE  Bookkeeping'
  <1> DEFINE i == Head(inbox[n]).call
             x == Take(px, {i})
  <1>1. /\ Takes(n, "response") /\ px' = x
        /\ response' = response \cup ({i} \cap px.pending)
        /\ UNCHANGED <<stage, target, overdue, busy>>
    BY DEF HandleResponse
  <1>2. Sound(px, {}) /\ Sound(x, {}) /\ Eases(px, x)
    BY TakeKeeps DEF Bookkeeping, CallsInv
  <1>3. x.pending = px.pending \ {i}
    BY <1>2, TakeParts DEF Sound
  <1> HIDE DEF i, x
  <1>4. response \in SUBSET Calls /\ {} \in SUBSET Calls
    BY DEF TypeOK
  <1>5. response' \subseteq response \cup (px.pending \ x.pending)
    BY <1>1, <1>3
  <1>6. \A j \in Calls \ {} :
            /\ target'[j] = target[j] /\ stage'[j] = stage[j]
            /\ j \in overdue => j \in overdue'
    BY <1>1
  <1>7. CallsInv'
    BY <1>1, <1>2, <1>4, <1>5, <1>6, CallsSettle DEF Bookkeeping
  <1>. QED BY <1>1, <1>7, RequestsWait DEF Bookkeeping

LEMMA HandleRegistrationKeeps ==
    ASSUME Bookkeeping, TypeOK, NEW n \in Ids, HandleRegistration(n)
    PROVE  Bookkeeping'
  <1>1. /\ Takes(n, "registration")
        /\ UNCHANGED <<stage, target, response, overdue, busy>>
        /\ \/ UNCHANGED px
           \/ boundTo[Svc(n)] # None /\ px' = FailInFlight(px, boundTo[Svc(n)])
    BY DEF HandleRegistration
  <1>2. boundTo[Svc(n)] \in Providers \cup {None}
    BY IdParts DEF TypeOK
  <1>3. Sound(px, {}) /\ Eases(px, px)
    BY EasesSelf DEF Bookkeeping, CallsInv
  <1>4. Sound(px', {}) /\ Eases(px, px')
    BY <1>1, <1>2, <1>3, FailInFlightKeeps
  <1>. QED BY <1>1, <1>4, CallsUntouched, RequestsWait DEF Bookkeeping

(* handle_surface_action_request: no other message asks for the call that  *)
(* begins here.                                                            *)
LEMMA HandleRequestKeeps ==
    ASSUME Bookkeeping, TypeOK, NEW n \in Ids, HandleRequest(n)
    PROVE  Bookkeeping'
  <1> DEFINE i == Head(inbox[n]).call
  <1>1. Takes(n, "request") /\ Start(i) /\ busy' = [busy EXCEPT ![n] = i]
    BY DEF HandleRequest
  <1>2. IsRequest(n, 1) /\ inbox[n][1].call = i
    BY <1>1, TakesParts DEF IsRequest
  <1>3. i \in Calls /\ stage[i] = "queued"
    BY <1>2, RequestParts DEF Bookkeeping, RequestsQueued
  <1> HIDE DEF i
  <1>4. CallsInv'
    BY <1>1, <1>3, StartKeeps DEF Bookkeeping
  <1>5. /\ stage'[i] \in {"done", "resolved"}
        /\ \A j \in Calls \ {i} : stage'[j] = stage[j]
    BY <1>1, <1>3, StartStages
  <1>6. ASSUME NEW o \in Ids, NEW m \in Nat, IsRequest(o, m)'
        PROVE  stage'[inbox'[o][m].call] = "queued"
    <2>1. PICK l \in Nat : /\ IsRequest(o, l) /\ inbox'[o][m] = inbox[o][l]
                           /\ o = n => l # 1
      BY <1>1, <1>6, RequestsTaken DEF Bookkeeping
    <2>2. inbox[o][l].call \in Calls /\ stage[inbox[o][l].call] = "queued"
      BY <2>1, RequestParts DEF Bookkeeping, RequestsQueued
    <2>3. inbox[o][l].call # i
      BY <1>2, <2>1 DEF Bookkeeping, RequestsQueued
    <2>. QED BY <1>5, <2>1, <2>2, <2>3
  <1>7. \A j, o \in Ids : \A m, l \in Nat :
            /\ IsRequest(j, m)' /\ IsRequest(o, l)'
            /\ inbox'[j][m].call = inbox'[o][l].call
            => j = o /\ m = l
    BY <1>1, RequestsTaken DEF Bookkeeping
  <1>8. \A o \in Ids : busy'[o] # None => stage'[busy'[o]] \notin {"idle", "queued"}
    <2>1. \A o \in Ids : busy'[o] = IF o = n THEN i ELSE busy[o]
      BY <1>1 DEF TypeOK
    <2>2. \A o \in Ids : busy[o] # None => busy[o] \in Calls
      BY DEF TypeOK
    <2>. QED BY <1>5, <2>1, <2>2 DEF Bookkeeping, RequestsQueued
  <1>9. \A j \in Calls : stage'[j] = "queued" => Caller[j] # User
    BY <1>5 DEF Bookkeeping, RequestsQueued
  <1>. QED BY <1>4, <1>6, <1>7, <1>8, <1>9 DEF Bookkeeping, RequestsQueued

LEMMA SoundMore ==
    ASSUME NEW x, NEW D, NEW E, D \subseteq E, Sound(x, D)
    PROVE  Sound(x, E)
  BY DEF Sound, Reserved

(* The calls that go with a session: the guards give back what the one in  *)
(* progress has reserved, and those in the inbox have reserved nothing.    *)
LEMMA EndSessionKeeps ==
    ASSUME Bookkeeping, TypeOK, NEW n \in Ids, EndSession(n)
    PROVE  Bookkeeping'
  <1> DEFINE E == Carried(n)
             x == IF busy[n] \in InProgress THEN Dropped(px, busy[n]) ELSE px
  <1>1. /\ px' = x
        /\ stage' = [i \in Calls |-> IF i \in E THEN "done" ELSE stage[i]]
        /\ target' = [i \in Calls |-> IF i \in E THEN None ELSE target[i]]
        /\ response' = response \ E /\ overdue' = overdue \ E
        /\ inbox' = [inbox EXCEPT ![n] = <<>>]
        /\ busy' = [busy EXCEPT ![n] = None]
    BY DEF EndSession
  <1>2. /\ InProgress \in SUBSET Calls /\ E \in SUBSET Calls
        /\ \A i \in E : (i = busy[n] /\ i \in InProgress) \/ stage[i] = "queued"
        /\ busy[n] \in InProgress => busy[n] \in E
    BY DEF Carried, InProgress
  <1>3. Sound(px, {}) /\ Eases(px, px) /\ response \in SUBSET Calls
    BY EasesSelf DEF Bookkeeping, CallsInv, TypeOK
  <1>4. Sound(x, E) /\ Eases(px, x) /\ (busy[n] \in InProgress => Untied(x, busy[n]))
    <2>1. CASE busy[n] \in InProgress
      <3>1. busy[n] \in Calls /\ {busy[n]} \subseteq E
        BY <1>2, <2>1
      <3>2. /\ Sound(Dropped(px, busy[n]), {busy[n]}) /\ Eases(px, Dropped(px, busy[n]))
            /\ Untied(Dropped(px, busy[n]), busy[n])
        BY <3>1, DroppedKeeps DEF Bookkeeping
      <3>3. x = Dropped(px, busy[n])
        BY <2>1
      <3> HIDE DEF x, E
      <3>. QED BY <3>1, <3>2, <3>3, SoundMore
    <2>2. CASE busy[n] \notin InProgress
      BY <1>3, <2>2, SoundBut
    <2>. QED BY <2>1, <2>2
  <1>5. \A i \in E : Untied(x, i)
    <2>1. \A i \in E : stage[i] = "queued" => Untied(px, i)
      BY <1>2, <1>3, UntiedWhen DEF Sound, Reserved, Flight
    <2> HIDE DEF E, x
    <2>2. \A i \in E : stage[i] = "queued" => Untied(x, i)
      BY <1>2, <1>4, <2>1, EasesUntied
    <2>. QED BY <1>2, <1>4, <2>2
  <1>6. \A i \in E : \A o \in Ids : \A m \in Nat :
            IsRequest(o, m) /\ inbox[o][m].call = i => o = n
    <2> SUFFICES ASSUME NEW i \in E, NEW o \in Ids, NEW m \in Nat,
                        IsRequest(o, m), inbox[o][m].call = i
                 PROVE  o = n
      OBVIOUS
    <2>1. stage[i] = "queued"
      BY DEF Bookkeeping, RequestsQueued
    <2>2. ~(i = busy[n])
      BY <1>2, <2>1, ProxyParts DEF Bookkeeping, RequestsQueued
    <2>3. \E l \in 1..Len(inbox[n]) : inbox[n][l] = [type |-> "request", call |-> i]
      BY <2>2 DEF Carried
    <2>4. PICK l \in 1..Len(inbox[n]) : inbox[n][l] = [type |-> "request", call |-> i]
      BY <2>3
    <2>5. inbox[n] \in Seq(Message)
      BY DEF TypeOK
    <2>6. l \in Nat /\ IsRequest(n, l) /\ inbox[n][l].call = i
      BY <2>4, <2>5 DEF IsRequest
    <2>. QED BY <2>6 DEF Bookkeeping, RequestsQueued
  <1> HIDE DEF E, x
  <1>7. CallsInv'
    <2>1. /\ \A i \in E : stage'[i] = "done" /\ i \notin response'
          /\ \A i \in Calls \ E : /\ target'[i] = target[i] /\ stage'[i] = stage[i]
                                  /\ i \in overdue => i \in overdue'
          /\ response' \subseteq response \cup (px.pending \ x.pending)
      BY <1>1, <1>2
    <2>. QED BY <1>1, <1>2, <1>3, <1>4, <1>5, <2>1, CallsSettle DEF Bookkeeping
  <1>8. ASSUME NEW o \in Ids, NEW m \in Nat, IsRequest(o, m)'
        PROVE  o # n /\ IsRequest(o, m) /\ inbox'[o][m] = inbox[o][m]
    <2>1. inbox \in [Ids -> Seq(Message)]
      BY DEF TypeOK
    <2>2. o # n
      <3>1. CASE o = n
        <4>1. inbox'[n] = <<>>
          BY <1>1, <2>1
        <4>2. m \in 1..0
          BY <1>8, <3>1, <4>1 DEF IsRequest
        <4>. QED BY <4>2
      <3>. QED BY <3>1
    <2>3. inbox'[o] = inbox[o]
      BY <1>1, <2>1, <2>2
    <2>. QED BY <1>8, <2>2, <2>3 DEF IsRequest
  <1>9. ASSUME NEW o \in Ids, NEW m \in Nat, IsRequest(o, m)'
        PROVE  stage'[inbox'[o][m].call] = "queued"
    <2>1. o # n /\ IsRequest(o, m) /\ inbox'[o][m] = inbox[o][m]
      BY <1>8, <1>9
    <2>2. inbox[o][m].call \in Calls /\ stage[inbox[o][m].call] = "queued"
      BY <2>1, RequestParts DEF Bookkeeping, RequestsQueued
    <2>3. inbox[o][m].call \notin E
      BY <1>6, <2>1
    <2>. QED BY <1>1, <2>1, <2>2, <2>3
  <1>10. \A j, o \in Ids : \A m, l \in Nat :
            /\ IsRequest(j, m)' /\ IsRequest(o, l)'
            /\ inbox'[j][m].call = inbox'[o][l].call
            => j = o /\ m = l
    <2> SUFFICES ASSUME NEW j \in Ids, NEW o \in Ids, NEW m \in Nat, NEW l \in Nat,
                        IsRequest(j, m)', IsRequest(o, l)',
                        inbox'[j][m].call = inbox'[o][l].call
                 PROVE  j = o /\ m = l
      OBVIOUS
    <2>1. IsRequest(j, m) /\ IsRequest(o, l) /\ inbox[j][m].call = inbox[o][l].call
      BY <1>8
    <2>. QED BY <2>1 DEF Bookkeeping, RequestsQueued
  <1>11. \A o \in Ids : busy'[o] # None => stage'[busy'[o]] \notin {"idle", "queued"}
    <2>1. \A o \in Ids : busy'[o] # None => busy'[o] = busy[o] /\ busy[o] \in Calls
      BY <1>1 DEF TypeOK
    <2>. QED BY <1>1, <2>1 DEF Bookkeeping, RequestsQueued
  <1>12. \A j \in Calls : stage'[j] = "queued" => Caller[j] # User
    BY <1>1 DEF Bookkeeping, RequestsQueued
  <1>. QED BY <1>7, <1>9, <1>10, <1>11, <1>12 DEF Bookkeeping, RequestsQueued

(* All steps. *)
LEMMA BookkeepingPreserved ==
    ASSUME Bookkeeping, TypeOK, Next
    PROVE  Bookkeeping'
  <1>1. ASSUME NEW i \in Calls, UserCall(i) \/ Progress(i) \/ DropCall(i)
        PROVE  Bookkeeping'
    BY <1>1, CallSteps
  <1>2. ASSUME NEW n \in Ids,
               \/ Connect(n) \/ SendRegistration(n) \/ (\E i \in Calls : Answer(n, i))
               \/ Notify(n) \/ Deliver(n) \/ ReadReply(n) \/ Cleanup(n)
        PROVE  Bookkeeping'
    BY <1>2, QuietSteps
  <1>3. ASSUME NEW n \in Ids,
               (\E i \in Calls : SendRequest(n, i)) \/ Handle(n) \/ EndSession(n)
        PROVE  Bookkeeping'
    BY <1>3, SendRequestKeeps, HandleResponseKeeps, HandleRegistrationKeeps,
       HandleRequestKeeps, EndSessionKeeps DEF Handle
  <1>4. CASE (\E c \in Controllers, s \in Services : Deactivate(c, s)) \/ Lapse
    BY <1>4, OutsideSteps
  <1>. QED BY <1>1, <1>2, <1>3, <1>4 DEF Next

-----------------------------------------------------------------------------
(* The sessions and the registry.                                          *)

LEMMA SessionSteps == Next => SessionsStep
  <1> USE DEF SessionsStep
  <1>1. ASSUME NEW i \in Calls, UserCall(i) \/ Progress(i) \/ DropCall(i)
        PROVE  UNCHANGED sessionVars
    BY <1>1 DEF UserCall, DropCall, Progress, FindUnconnected, Refuse, Admit, Lookup, Send,
       SendFails, Wake, Disconnected, Expire, TimeOut, Cancelled, AdmitLocal, FinishLocal,
       Elsewhere
  <1>2. ASSUME NEW n \in Ids,
               \/ SendRegistration(n) \/ (\E i \in Calls : SendRequest(n, i) \/ Answer(n, i))
               \/ Notify(n) \/ Deliver(n) \/ ReadReply(n) \/ Handle(n)
               \/ FailSurfaces(n) \/ UnregisterSurfaces(n)
        PROVE  UNCHANGED sessionVars
    BY <1>2 DEF SendRegistration, SendRequest, Answer, Notify, Deliver, ReadReply, Handle,
       HandleResponse, HandleRegistration, HandleRequest, FailSurfaces, UnregisterSurfaces
  <1>3. ASSUME NEW n \in Ids, Connect(n) \/ EndSession(n) \/ EndCleanup(n)
        PROVE  SessionsStep
    BY <1>3 DEF Connect, EndSession, EndCleanup
  <1>4. ASSUME NEW c \in Controllers, NEW s \in Services, Deactivate(c, s)
        PROVE  SessionsStep
    BY <1>4 DEF Deactivate
  <1>5. Lapse => UNCHANGED sessionVars
    BY DEF Lapse
  <1>. QED BY <1>1, <1>2, <1>3, <1>4, <1>5 DEF Next, Cleanup

RegistryInv == RegistryIsInverse /\ ListedIsServed

(* The registry, the sessions and what they have left to do are as before. *)
LEMMA RegistryStays ==
    ASSUME RegistryInv, UNCHANGED <<serves, boundTo, phase, closing>>
    PROVE  RegistryInv'
  BY DEF RegistryInv, RegistryIsInverse, ListedIsServed

(* register_service: the entry of the former provider goes with the one    *)
(* that names it, and an id that another service holds is refused.         *)
LEMMA HandleRegistrationRegisters ==
    ASSUME RegistryInv, TypeOK, NEW n \in Ids, HandleRegistration(n)
    PROVE  /\ RegistryInv'
           /\ serves' \in [Providers -> Services \cup {None}]
           /\ boundTo' \in [Services -> Providers \cup {None}]
  <1> DEFINE s == Svc(n)
             p == Head(inbox[n]).prov
  <1>1. /\ Takes(n, "registration") /\ phase[n] = "live"
        /\ UNCHANGED <<phase, closing>>
        /\ \/ Admits(s, p) /\ serves' = Registered(s, p) /\ boundTo' = [boundTo EXCEPT ![s] = p]
           \/ UNCHANGED <<serves, boundTo>>
    BY DEF HandleRegistration, Takes, registryVars, sessionVars
  <1>2. p \in Providers
    <2>1. Head(inbox[n]) \in Message /\ Head(inbox[n]).type = "registration"
      BY <1>1, TakesParts
    <2>. QED BY <2>1 DEF Message
  <1>3. s \in Services /\ s # None
    BY IdParts, ProxyParts
  <1>4. /\ serves \in [Providers -> Services \cup {None}]
        /\ boundTo \in [Services -> Providers \cup {None}]
    BY DEF TypeOK
  <1>5. CASE UNCHANGED <<serves, boundTo>>
    BY <1>1, <1>4, <1>5, RegistryStays
  <1>6. CASE Admits(s, p) /\ serves' = Registered(s, p) /\ boundTo' = [boundTo EXCEPT ![s] = p]
    <2> HIDE DEF s, p
    <2>1. /\ serves[p] \in {None, s}
          /\ \A q \in Providers : serves'[q] = IF q = p THEN s
                                  ELSE IF serves[q] = s THEN None ELSE serves[q]
          /\ \A u \in Services : boundTo'[u] = IF u = s THEN p ELSE boundTo[u]
          /\ serves' \in [Providers -> Services \cup {None}]
          /\ boundTo' \in [Services -> Providers \cup {None}]
      BY <1>2, <1>3, <1>4, <1>6 DEF Admits, Registered
    <2>2. RegistryIsInverse'
      <3> SUFFICES ASSUME NEW u \in Services, NEW q \in Providers
                   PROVE  serves'[q] = u <=> boundTo'[u] = q
        BY DEF RegistryIsInverse
      <3>1. u # None /\ (serves[q] = u <=> boundTo[u] = q)
        BY ProxyParts DEF RegistryInv, RegistryIsInverse
      <3>. QED BY <1>2, <1>3, <2>1, <3>1
    <2>3. ListedIsServed'
      <3> SUFFICES ASSUME NEW q \in Providers, serves'[q] # None
                   PROVE  \E m \in Ids :
                              Svc(m) = serves'[q] /\ (phase[m] = "live" \/ closing[m] # "no")
        BY <1>1 DEF ListedIsServed, Svc
      <3>1. CASE q = p
        BY <1>1, <2>1, <3>1 DEF s
      <3>2. CASE q # p
        BY <2>1, <3>2 DEF RegistryInv, ListedIsServed
      <3>. QED BY <3>1, <3>2
    <2>. QED BY <2>1, <2>2, <2>3 DEF RegistryInv
  <1>. QED BY <1>1, <1>5, <1>6

(* unregister_service: only the provider of this service goes. *)
LEMMA UnregisterSurfacesRemoves ==
    ASSUME RegistryInv, TypeOK, NEW n \in Ids, UnregisterSurfaces(n)
    PROVE  /\ RegistryInv'
           /\ serves' \in [Providers -> Services \cup {None}]
           /\ boundTo' \in [Services -> Providers \cup {None}]
  <1> DEFINE s == Svc(n)
  <1>1. /\ phase' = phase /\ closing' = [closing EXCEPT ![n] = "no"]
        /\ serves' = [p \in Providers |-> IF p = boundTo[s] THEN None ELSE serves[p]]
        /\ boundTo' = [boundTo EXCEPT ![s] = None]
    BY DEF UnregisterSurfaces, sessionVars
  <1>2. s \in Services /\ s # None
    BY IdParts, ProxyParts
  <1>3. /\ serves \in [Providers -> Services \cup {None}]
        /\ boundTo \in [Services -> Providers \cup {None}]
        /\ closing \in [Ids -> {"no", "fail", "unregister"}]
    BY DEF TypeOK
  <1>4. /\ serves' \in [Providers -> Services \cup {None}]
        /\ boundTo' \in [Services -> Providers \cup {None}]
        /\ \A m \in Ids \ {n} : closing'[m] = closing[m]
    BY <1>1, <1>2, <1>3
  <1>5. RegistryIsInverse'
    <2> SUFFICES ASSUME NEW u \in Services, NEW q \in Providers
                 PROVE  serves'[q] = u <=> boundTo'[u] = q
      BY DEF RegistryIsInverse
    <2>1. /\ u # None /\ q # None
          /\ (serves[q] = u <=> boundTo[u] = q) /\ (serves[q] = s <=> boundTo[s] = q)
      BY <1>2, ProxyParts DEF RegistryInv, RegistryIsInverse
    <2> HIDE DEF s
    <2>2. serves'[q] = (IF q = boundTo[s] THEN None ELSE serves[q])
          /\ boundTo'[u] = IF u = s THEN None ELSE boundTo[u]
      BY <1>1, <1>2, <1>3
    <2>. QED BY <2>1, <2>2
  <1>6. ListedIsServed'
    <2> SUFFICES ASSUME NEW q \in Providers, serves'[q] # None
                 PROVE  \E m \in Ids :
                            Svc(m) = serves'[q] /\ (phase[m] = "live" \/ closing'[m] # "no")
      BY <1>1 DEF ListedIsServed, Svc
    <2>1. serves'[q] = serves[q] /\ q # boundTo[s]
      BY <1>1
    <2>2. serves[q] # s
      BY <1>2, <2>1 DEF RegistryInv, RegistryIsInverse
    <2>3. PICK m \in Ids : Svc(m) = serves[q] /\ (phase[m] = "live" \/ closing[m] # "no")
      BY <2>1 DEF RegistryInv, ListedIsServed
    <2>4. m # n
      BY <2>2, <2>3
    <2>. QED BY <1>4, <2>1, <2>3, <2>4
  <1>. QED BY <1>4, <1>5, <1>6 DEF RegistryInv

(* The session steps: one that leaves has its cleanup ahead of it. *)
LEMMA SessionsServe ==
    ASSUME RegistryInv, TypeOK, NEW n \in Ids,
           Connect(n) \/ EndSession(n) \/ FailSurfaces(n) \/ EndCleanup(n)
    PROVE  RegistryInv' /\ UNCHANGED <<serves, boundTo>>
  <1>1. UNCHANGED <<serves, boundTo>>
    BY DEF Connect, EndSession, FailSurfaces, EndCleanup, registryVars
  <1>2. phase \in [Ids -> Phases] /\ closing \in [Ids -> {"no", "fail", "unregister"}]
    BY DEF TypeOK, SessionsTypeOK
  <1>3. \A m \in Ids : phase[m] = "live" \/ closing[m] # "no"
                       => phase'[m] = "live" \/ closing'[m] # "no"
    <2>1. CASE Connect(n)
      BY <1>2, <2>1 DEF Connect, Register, wireVars
    <2>2. CASE EndSession(n)
      BY <1>2, <2>2 DEF EndSession, Finalize
    <2>3. CASE FailSurfaces(n)
      BY <1>2, <2>3 DEF FailSurfaces, sessionVars
    <2>4. CASE EndCleanup(n)
      BY <1>2, <2>4 DEF EndCleanup, Unregister, wireVars
    <2>. QED BY <2>1, <2>2, <2>3, <2>4
  <1>4. ListedIsServed'
    <2> SUFFICES ASSUME NEW q \in Providers, serves[q] # None
                 PROVE  \E m \in Ids :
                            Svc(m) = serves[q] /\ (phase'[m] = "live" \/ closing'[m] # "no")
      BY <1>1 DEF ListedIsServed, Svc
    <2>. QED BY <1>3 DEF RegistryInv, ListedIsServed
  <1>. QED BY <1>1, <1>4 DEF RegistryInv, RegistryIsInverse

LEMMA RegistryPreserved ==
    ASSUME RegistryInv, TypeOK, Next
    PROVE  /\ RegistryInv'
           /\ serves' \in [Providers -> Services \cup {None}]
           /\ boundTo' \in [Services -> Providers \cup {None}]
  <1>1. /\ serves \in [Providers -> Services \cup {None}]
        /\ boundTo \in [Services -> Providers \cup {None}]
    BY DEF TypeOK
  <1>2. ASSUME NEW i \in Calls, UserCall(i) \/ Progress(i) \/ DropCall(i)
        PROVE  UNCHANGED <<serves, boundTo, phase, closing>>
    BY <1>2 DEF UserCall, DropCall, Progress, FindUnconnected, Refuse, Admit, Lookup, Send,
       SendFails, Wake, Disconnected, Expire, TimeOut, Cancelled, AdmitLocal, FinishLocal,
       Elsewhere, registryVars, sessionVars, wireVars
  <1>3. ASSUME NEW n \in Ids,
               \/ SendRegistration(n) \/ (\E i \in Calls : SendRequest(n, i) \/ Answer(n, i))
               \/ Notify(n) \/ Deliver(n) \/ ReadReply(n)
               \/ HandleResponse(n) \/ HandleRequest(n)
        PROVE  UNCHANGED <<serves, boundTo, phase, closing>>
    BY <1>3 DEF SendRegistration, SendRequest, Answer, Notify, Deliver, ReadReply,
       HandleResponse, HandleRequest, registryVars, sessionVars
  <1>4. ASSUME NEW c \in Controllers, NEW s \in Services, Deactivate(c, s)
        PROVE  UNCHANGED <<serves, boundTo, phase, closing>>
    BY <1>4 DEF Deactivate, ForceDisconnect, registryVars, wireVars
  <1>5. Lapse => UNCHANGED <<serves, boundTo, phase, closing>>
    BY DEF Lapse, registryVars, sessionVars, wireVars
  <1>6. CASE UNCHANGED <<serves, boundTo, phase, closing>>
    BY <1>1, <1>6, RegistryStays
  <1>7. ASSUME NEW n \in Ids,
               Connect(n) \/ EndSession(n) \/ FailSurfaces(n) \/ EndCleanup(n)
        PROVE  /\ RegistryInv'
               /\ serves' \in [Providers -> Services \cup {None}]
               /\ boundTo' \in [Services -> Providers \cup {None}]
    BY <1>1, <1>7, SessionsServe
  <1>. QED
    BY <1>2, <1>3, <1>4, <1>5, <1>6, <1>7, HandleRegistrationRegisters,
       UnregisterSurfacesRemoves DEF Next, Handle, Cleanup

-----------------------------------------------------------------------------
(* Types.                                                                  *)

CallTypes ==
    /\ stage \in [Calls -> Stages] /\ target \in [Calls -> Target \cup {None}]
    /\ via \in [Calls -> Ids \cup {None}]
    /\ response \in SUBSET Calls /\ overdue \in SUBSET Calls
    /\ lapses \in 0..MaxLapses

PushTypes == push \in [Ids -> Seq(Calls \cup {None})]

ReplyTypes == replies \in [Ids -> 0..(ReplyRoom + 1)]

WireTypes ==
    /\ outbox \in SUBSET [call : Calls, svc : Services]
    /\ inbox \in [Ids -> Seq(Message)]
    /\ busy \in [Ids -> Calls \cup {None}]
    /\ closing \in [Ids -> {"no", "fail", "unregister"}]
    /\ sent \in 0..MaxRegistrations
    /\ notices \in 0..MaxNotices
    /\ PushTypes /\ ReplyTypes

LEMMA EndsTypes ==
    ASSUME CallTypes, NEW i \in Calls, Ends(i), UNCHANGED lapses
    PROVE  CallTypes'
  <1>1. "done" \in Stages
    BY DEF Stages
  <1>. QED BY <1>1 DEF CallTypes, Ends

LEMMA StartTypes ==
    ASSUME CallTypes, NEW i \in Calls, Start(i)
    PROVE  CallTypes'
  <1>1. UNCHANGED lapses
    BY DEF Start
  <1>2. CASE Ends(i)
    BY <1>1, <1>2, EndsTypes
  <1>3. CASE \E t \in Resolvable(i) :
                /\ target' = [target EXCEPT ![i] = t]
                /\ stage' = [stage EXCEPT ![i] = "resolved"]
                /\ UNCHANGED <<via, response, overdue>>
    <2>1. PICK t \in Resolvable(i) :
                /\ target' = [target EXCEPT ![i] = t]
                /\ stage' = [stage EXCEPT ![i] = "resolved"]
                /\ UNCHANGED <<via, response, overdue>>
      BY <1>3
    <2>2. t \in Target \cup {None} /\ "resolved" \in Stages
      BY DEF Resolvable, Stages
    <2>. QED BY <1>1, <2>1, <2>2 DEF CallTypes
  <1>. QED BY <1>2, <1>3, Zenon DEF Start

(* What the registry has for a service on the one controller. *)
LEMMA ConnParts ==
    ASSUME SessionsTypeOK, NEW s \in Services
    PROVE  Conn(s) \in Ids \cup {None}
  <1>1. Controllers # {}
    BY ProxyParts, FS_EmptySet
  <1>2. (CHOOSE c \in Controllers : TRUE) \in Controllers
    BY <1>1
  <1>. QED BY <1>2 DEF Conn, SessionsTypeOK

(* The sender a call gets is that of a session, or none. *)
LEMMA LookupTypes ==
    ASSUME CallTypes, Bookkeeping, SessionsTypeOK, NEW i \in Calls, Lookup(i)
    PROVE  CallTypes'
  <1>1. stage[i] \in Flight \cup Late
    BY DEF Lookup, Flight, Late
  <1>2. target[i].svc \in Services
    BY <1>1, ProviderKnown DEF Bookkeeping, Target
  <1>3. Conn(target[i].svc) \in Ids \cup {None}
    BY <1>2, ConnParts
  <1>4. /\ via' = [via EXCEPT ![i] = Conn(target[i].svc)]
        /\ UNCHANGED <<target, response, overdue, lapses>>
        /\ \E g \in Stages : stage' = [stage EXCEPT ![i] = g]
    BY DEF Lookup, Elsewhere, Stages
  <1>. QED BY <1>3, <1>4 DEF CallTypes

LEMMA CallTypesPreserved ==
    ASSUME CallTypes, Sound(px, {}), TypeOK, Bookkeeping, Next
    PROVE  CallTypes'
  <1>1. ASSUME NEW i \in Calls, UserCall(i) \/ Progress(i) \/ DropCall(i)
        PROVE  CallTypes'
    <2>1. CASE UserCall(i)
      BY <2>1, StartTypes DEF UserCall
    <2>2. CASE Ends(i)
      <3>1. UNCHANGED lapses
        BY <1>1, <2>2 DEF UserCall, Start, DropCall, Progress, FindUnconnected, Refuse, Admit,
           Lookup, Send, SendFails, Wake, Disconnected, Expire, TimeOut, Cancelled, AdmitLocal,
           FinishLocal, Elsewhere
      <3>. QED BY <2>2, <3>1, EndsTypes
    <2>3. CASE \E g \in Stages : /\ stage' = [stage EXCEPT ![i] = g]
                                 /\ via' = via \/ via' = [via EXCEPT ![i] = None]
                                 /\ UNCHANGED <<target, response, overdue, lapses>>
      BY <2>3 DEF CallTypes
    <2>4. UserCall(i) \/ Ends(i) \/ Lookup(i)
          \/ \E g \in Stages : /\ stage' = [stage EXCEPT ![i] = g]
                               /\ via' = via \/ via' = [via EXCEPT ![i] = None]
                               /\ UNCHANGED <<target, response, overdue, lapses>>
      BY <1>1 DEF DropCall, Progress, FindUnconnected, Refuse, Admit, Send, SendFails, Wake,
         Disconnected, Expire, TimeOut, Cancelled, AdmitLocal, FinishLocal, Elsewhere, Stages
    <2>. QED BY <2>1, <2>2, <2>3, <2>4, LookupTypes DEF TypeOK
  <1>2. CASE UNCHANGED <<stage, target, via, response, overdue, lapses>>
    BY <1>2 DEF CallTypes
  <1>3. ASSUME NEW n \in Ids, NEW i \in Calls, SendRequest(n, i)
        PROVE  CallTypes'
    BY <1>3 DEF SendRequest, CallTypes, Stages
  <1>4. ASSUME NEW n \in Ids, HandleResponse(n)
        PROVE  CallTypes'
    <2>1. px.pending \in SUBSET Calls
      BY DEF Sound, PendingState
    <2>. QED BY <1>4, <2>1 DEF HandleResponse, CallTypes
  <1>5. ASSUME NEW n \in Ids, HandleRequest(n)
        PROVE  CallTypes'
    <2>1. Takes(n, "request") /\ Start(Head(inbox[n]).call)
      BY <1>5 DEF HandleRequest
    <2>2. Head(inbox[n]) \in Message /\ Head(inbox[n]).type = "request"
      BY <2>1, TakesParts
    <2>3. Head(inbox[n]).call \in Calls
      BY <2>2 DEF Message
    <2>. QED BY <2>1, <2>3, StartTypes
  <1>6. ASSUME NEW n \in Ids, EndSession(n)
        PROVE  CallTypes'
    <2>1. "done" \in Stages
      BY DEF Stages
    <2>. QED BY <1>6, <2>1 DEF EndSession, CallTypes
  <1>7. CASE Lapse
    <2>1. /\ lapses < MaxLapses /\ lapses' = lapses + 1
          /\ UNCHANGED <<stage, target, via, response>> /\ overdue' \in SUBSET Calls
      BY <1>7 DEF Lapse, CallTypes
    <2>. QED BY <2>1, ProxyParts DEF CallTypes
  <1>8. ASSUME NEW n \in Ids,
               \/ Connect(n) \/ SendRegistration(n) \/ (\E i \in Calls : Answer(n, i))
               \/ Notify(n) \/ Deliver(n) \/ ReadReply(n)
               \/ HandleRegistration(n) \/ Cleanup(n)
        PROVE  UNCHANGED <<stage, target, via, response, overdue, lapses>>
    BY <1>8 DEF Connect, SendRegistration, Answer, Notify, Deliver, ReadReply,
       HandleRegistration, Cleanup, FailSurfaces, UnregisterSurfaces, EndCleanup, callVars
  <1>9. ASSUME NEW c \in Controllers, NEW s \in Services, Deactivate(c, s)
        PROVE  UNCHANGED <<stage, target, via, response, overdue, lapses>>
    BY <1>9 DEF Deactivate, callVars
  <1>. QED BY <1>1, <1>2, <1>3, <1>4, <1>5, <1>6, <1>7, <1>8, <1>9 DEF Next, Handle

(* A push channel grows by what is sent into it. *)
LEMMA PushGrows ==
    ASSUME PushTypes, NEW n \in Ids, NEW m \in Calls \cup {None}, Push(n, m)
    PROVE  PushTypes'
  <1>1. push[n] \in Seq(Calls \cup {None}) /\ push' = [push EXCEPT ![n] = Append(@, m)]
    BY DEF PushTypes, Push
  <1>2. Append(push[n], m) \in Seq(Calls \cup {None})
    BY <1>1
  <1>. QED BY <1>1, <1>2 DEF PushTypes

(* A processor takes a message when its last reply has found room. *)
LEMMA TakesReplies ==
    ASSUME ReplyTypes, NEW n \in Ids, NEW type, Takes(n, type)
    PROVE  ReplyTypes'
  <1>1. replies[n] \in 0..(ReplyRoom + 1) /\ replies[n] <= ReplyRoom
        /\ replies' = [replies EXCEPT ![n] = @ + 1]
    BY DEF ReplyTypes, Takes
  <1>2. replies[n] + 1 \in 0..(ReplyRoom + 1)
    BY <1>1, ProxyParts
  <1>. QED BY <1>1, <1>2 DEF ReplyTypes

LEMMA WireTypesPreserved ==
    ASSUME WireTypes, TypeOK, Bookkeeping, Next
    PROVE  WireTypes'
  <1>1. CASE UNCHANGED wireVars
    BY <1>1 DEF wireVars, queueVars, WireTypes, PushTypes, ReplyTypes
  <1>2. ASSUME NEW i \in Calls, Send(i) \/ Cancelled(i)
        PROVE  WireTypes'
    <2>1. /\ UNCHANGED <<outbox, inbox, busy, replies, closing, sent, notices>>
          /\ \/ push' = push
             \/ via[i] # None /\ (Push(via[i], i) \/ Push(via[i], None))
      BY <1>2 DEF Send, Cancelled, Unreachable
    <2>2. via[i] # None => via[i] \in Ids
      BY DEF TypeOK
    <2>3. PushTypes /\ (push' = push => PushTypes')
      BY DEF WireTypes, PushTypes
    <2>4. PushTypes'
      BY <2>1, <2>2, <2>3, PushGrows
    <2>. QED BY <2>1, <2>4 DEF WireTypes, ReplyTypes
  <1>3. ASSUME NEW i \in Calls, UserCall(i) \/ Progress(i) \/ DropCall(i)
        PROVE  Send(i) \/ Cancelled(i) \/ UNCHANGED wireVars
    BY <1>3 DEF UserCall, DropCall, Progress, FindUnconnected, Refuse, Admit, Lookup, SendFails,
       Wake, Disconnected, Expire, TimeOut, AdmitLocal, FinishLocal, Elsewhere
  <1>4. ASSUME NEW n \in Ids, NEW m \in Message, Say(n, m)
        PROVE  inbox' \in [Ids -> Seq(Message)]
    <2>1. inbox \in [Ids -> Seq(Message)]
      BY DEF WireTypes
    <2>2. Append(inbox[n], m) \in Seq(Message)
      BY <2>1
    <2>. QED BY <1>4, <2>1, <2>2 DEF Say
  <1>5. ASSUME NEW n \in Ids, SendRegistration(n)
        PROVE  WireTypes'
    <2>1. PICK p \in Providers : Say(n, [type |-> "registration", prov |-> p])
      BY <1>5 DEF SendRegistration
    <2>2. [type |-> "registration", prov |-> p] \in Message
      BY DEF Message
    <2>3. inbox' \in [Ids -> Seq(Message)]
      BY <1>4, <2>1, <2>2
    <2>4. /\ sent < MaxRegistrations /\ sent' = sent + 1
          /\ UNCHANGED <<push, busy, replies, outbox, closing, notices>>
      BY <1>5 DEF SendRegistration
    <2>. QED BY <2>3, <2>4, ProxyParts DEF WireTypes, PushTypes, ReplyTypes
  <1>6. ASSUME NEW n \in Ids, NEW i \in Calls, SendRequest(n, i) \/ Answer(n, i)
        PROVE  WireTypes'
    <2>1. /\ [type |-> "request", call |-> i] \in Message
          /\ [type |-> "response", call |-> i] \in Message
      BY DEF Message
    <2>2. inbox' \in [Ids -> Seq(Message)]
      BY <1>4, <1>6, <2>1 DEF SendRequest, Answer
    <2>3. /\ outbox' \subseteq outbox
          /\ UNCHANGED <<push, busy, replies, closing, sent, notices>>
      BY <1>6 DEF SendRequest, Answer
    <2>. QED BY <2>2, <2>3 DEF WireTypes, PushTypes, ReplyTypes
  <1>7. ASSUME NEW n \in Ids, HandleResponse(n) \/ HandleRegistration(n)
        PROVE  WireTypes'
    <2>1. inbox' \in [Ids -> Seq(Message)]
      BY <1>7, TakesParts DEF HandleResponse, HandleRegistration
    <2>2. ReplyTypes'
      BY <1>7, TakesReplies DEF HandleResponse, HandleRegistration, WireTypes
    <2>3. UNCHANGED <<push, busy, outbox, closing, sent, notices>>
      BY <1>7 DEF HandleResponse, HandleRegistration
    <2>. QED BY <2>1, <2>2, <2>3 DEF WireTypes, PushTypes
  <1>8. ASSUME NEW n \in Ids, HandleRequest(n)
        PROVE  WireTypes'
    <2>1. Takes(n, "request") /\ UNCHANGED <<push, outbox, closing, sent, notices>>
          /\ busy' = [busy EXCEPT ![n] = Head(inbox[n]).call]
      BY <1>8 DEF HandleRequest
    <2>2. /\ Head(inbox[n]) \in Message /\ Head(inbox[n]).type = "request"
          /\ inbox' \in [Ids -> Seq(Message)]
      BY <2>1, TakesParts
    <2>3. Head(inbox[n]).call \in Calls
      BY <2>2 DEF Message
    <2>4. ReplyTypes'
      BY <2>1, TakesReplies DEF WireTypes
    <2>. QED BY <2>1, <2>2, <2>3, <2>4 DEF WireTypes, PushTypes
  <1>9. ASSUME NEW n \in Ids, EndSession(n)
        PROVE  WireTypes'
    <2>1. /\ inbox' = [inbox EXCEPT ![n] = <<>>] /\ busy' = [busy EXCEPT ![n] = None]
          /\ closing' = [closing EXCEPT ![n] = "fail"]
          /\ replies' = [replies EXCEPT ![n] = 0] /\ UNCHANGED <<push, outbox, sent, notices>>
      BY <1>9 DEF EndSession
    <2>2. <<>> \in Seq(Message)
      OBVIOUS
    <2>3. ReplyTypes'
      BY <2>1, ProxyParts DEF WireTypes, ReplyTypes
    <2>. QED BY <2>1, <2>2, <2>3 DEF WireTypes, PushTypes
  <1>10. ASSUME NEW n \in Ids, FailSurfaces(n) \/ UnregisterSurfaces(n)
         PROVE  WireTypes'
    <2>1. /\ UNCHANGED <<push, inbox, busy, replies, outbox, sent, notices>>
          /\ \/ closing' = [closing EXCEPT ![n] = "unregister"]
             \/ closing' = [closing EXCEPT ![n] = "no"]
      BY <1>10 DEF FailSurfaces, UnregisterSurfaces, queueVars
    <2>. QED BY <2>1 DEF WireTypes, PushTypes, ReplyTypes
  <1>11. ASSUME NEW n \in Ids, Connect(n) \/ EndCleanup(n)
         PROVE  UNCHANGED wireVars
    BY <1>11 DEF Connect, EndCleanup
  <1>12. Lapse \/ (\E c \in Controllers, s \in Services : Deactivate(c, s)) => UNCHANGED wireVars
    BY DEF Lapse, Deactivate
  <1>13. ASSUME NEW n \in Ids, Notify(n)
         PROVE  WireTypes'
    <2>1. /\ Push(n, None) /\ notices < MaxNotices /\ notices' = notices + 1
          /\ UNCHANGED <<inbox, busy, replies, outbox, closing, sent>>
      BY <1>13 DEF Notify
    <2>2. PushTypes'
      BY <2>1, PushGrows DEF WireTypes
    <2>. QED BY <2>1, <2>2, ProxyParts DEF WireTypes, ReplyTypes
  <1>14. ASSUME NEW n \in Ids, Deliver(n)
         PROVE  WireTypes'
    <2>1. push[n] \in Seq(Calls \cup {None}) /\ push[n] # <<>>
      BY <1>14 DEF Deliver, WireTypes, PushTypes
    <2>2. Head(push[n]) \in Calls \cup {None} /\ Tail(push[n]) \in Seq(Calls \cup {None})
      BY <2>1
    <2>3. /\ push' = [push EXCEPT ![n] = Tail(@)]
          /\ outbox' = outbox \cup {[call |-> i, svc |-> Svc(n)] : i \in {Head(push[n])} \ {None}}
          /\ UNCHANGED <<inbox, busy, replies, closing, sent, notices>>
      BY <1>14 DEF Deliver
    <2>4. PushTypes'
      BY <2>2, <2>3 DEF WireTypes, PushTypes
    <2>5. \A i \in {Head(push[n])} \ {None} :
              [call |-> i, svc |-> Svc(n)] \in [call : Calls, svc : Services]
      BY <2>2, IdParts
    <2>6. outbox' \in SUBSET [call : Calls, svc : Services]
      BY <2>3, <2>5 DEF WireTypes
    <2>. QED BY <2>3, <2>4, <2>6 DEF WireTypes, ReplyTypes
  <1>15. ASSUME NEW n \in Ids, ReadReply(n)
         PROVE  WireTypes'
    <2>1. /\ replies[n] \in 0..(ReplyRoom + 1) /\ replies[n] > 0
          /\ replies' = [replies EXCEPT ![n] = @ - 1]
          /\ UNCHANGED <<push, inbox, busy, outbox, closing, sent, notices>>
      BY <1>15, ProxyParts DEF ReadReply, WireTypes, ReplyTypes
    <2>2. replies[n] - 1 \in 0..(ReplyRoom + 1)
      BY <2>1, ProxyParts
    <2>3. ReplyTypes'
      BY <2>1, <2>2 DEF WireTypes, ReplyTypes
    <2>. QED BY <2>1, <2>3 DEF WireTypes, PushTypes
  <1>. QED
    BY <1>1, <1>2, <1>3, <1>5, <1>6, <1>7, <1>8, <1>9, <1>10, <1>11, <1>12, <1>13, <1>14, <1>15
    DEF Next, Handle, Cleanup

-----------------------------------------------------------------------------
(* The theorems.                                                           *)

(* The inductive invariant.  BudgetsExact and ReservationsHeld need each   *)
(* other (what is taken out of a budget is what the entry had put in), the *)
(* target of every call on its way, and that a call is begun only once:    *)
(* a second Start would overwrite the target its entry is counted under.   *)
ProxyInv == TypeOK /\ SessionsInv /\ RegistryInv /\ Bookkeeping

LEMMA TypeParts ==
    TypeOK <=> /\ SessionsTypeOK
               /\ serves \in [Providers -> Services \cup {None}]
               /\ boundTo \in [Services -> Providers \cup {None}]
               /\ px \in PendingState
               /\ CallTypes /\ WireTypes
  BY DEF TypeOK, PendingState, CallTypes, WireTypes, PushTypes, ReplyTypes

LEMMA ProxyInitially == Init => ProxyInv
  <1> SUFFICES ASSUME Init PROVE ProxyInv
    OBVIOUS
  <1> USE DEF Init
  <1>1. SessionsInv
    BY SessionsInitially
  <1>2. px \in PendingState
    <2>1. 0 \in 0..MaxPerProvider /\ 0 \in 0..MaxPerTenant /\ 0 \in 0..(FailureLimit - 1)
      BY ProxyParts
    <2>. QED BY <2>1 DEF PendingState
  <1>3. CallTypes /\ WireTypes
    <2>1. /\ 0 \in 0..MaxLapses /\ 0 \in 0..MaxRegistrations /\ "idle" \in Stages
          /\ 0 \in 0..MaxNotices /\ 0 \in 0..(ReplyRoom + 1)
          /\ <<>> \in Seq(Message) /\ <<>> \in Seq(Calls \cup {None})
      BY ProxyParts DEF Stages
    <2>. QED BY <2>1 DEF CallTypes, WireTypes, PushTypes, ReplyTypes
  <1>4. TypeOK
    BY <1>1, <1>2, <1>3, TypeParts DEF SessionsInv
  <1>5. RegistryInv
    BY ProxyParts DEF RegistryInv, RegistryIsInverse, ListedIsServed
  <1>6. Counted(px)
    <2>1. IsFiniteSet({}) /\ Cardinality({}) = 0
      BY FS_EmptySet
    <2>2. \A p \in Providers : PendingOf(px, p) = {}
      BY DEF PendingOf
    <2>. QED BY <2>1, <2>2 DEF Counted
  <1>7. CallsInv
    BY <1>2, <1>6 DEF CallsInv, Sound, Reserved, Targeted, ResponsesKept, Flight, Late
  <1>8. RequestsQueued
    BY DEF RequestsQueued, IsRequest
  <1>. QED BY <1>1, <1>4, <1>5, <1>7, <1>8 DEF ProxyInv, Bookkeeping

LEMMA ProxyPreserved == ProxyInv /\ [Next]_vars => ProxyInv'
  <1> SUFFICES ASSUME ProxyInv, [Next]_vars PROVE ProxyInv'
    OBVIOUS
  <1>1. CASE Next
    <2>1. SessionsInv'
      BY <1>1, SessionSteps, SessionsPreserved DEF ProxyInv
    <2>2. Bookkeeping'
      BY <1>1, BookkeepingPreserved DEF ProxyInv
    <2>3. /\ RegistryInv' /\ serves' \in [Providers -> Services \cup {None}]
          /\ boundTo' \in [Services -> Providers \cup {None}]
      BY <1>1, RegistryPreserved DEF ProxyInv
    <2>4. CallTypes' /\ WireTypes'
      BY <1>1, TypeParts, CallTypesPreserved, WireTypesPreserved
      DEF ProxyInv, Bookkeeping, CallsInv
    <2>5. px' \in PendingState'
      BY <2>2 DEF Bookkeeping, CallsInv, Sound
    <2>6. SessionsTypeOK'
      BY <2>1 DEF SessionsInv
    <2>7. TypeOK'
      BY <2>3, <2>4, <2>5, <2>6
      DEF TypeOK, PendingState, CallTypes, WireTypes, PushTypes, ReplyTypes
    <2>. QED BY <2>1, <2>2, <2>3, <2>7 DEF ProxyInv
  <1>2. CASE UNCHANGED vars
    <2>1. UNCHANGED <<sessionVars, serves, boundTo, callVars, push, inbox, busy, replies, outbox,
                      closing, sent, notices>>
      BY <1>2 DEF vars, registryVars, wireVars, queueVars
    <2>2. SessionsInv'
      BY <2>1, SessionsPreserved DEF ProxyInv, SessionsStep
    <2>3. RegistryInv'
      BY <2>1, RegistryStays DEF ProxyInv, sessionVars
    <2>4. Bookkeeping'
      <3>1. Sound(px, {}) /\ Eases(px, px)
        BY EasesSelf DEF ProxyInv, Bookkeeping, CallsInv
      <3>. QED BY <2>1, <3>1, CallsUntouched, RequestsStay DEF ProxyInv, Bookkeeping, callVars
    <2>5. TypeOK'
      BY <2>1 DEF ProxyInv, TypeOK, SessionsTypeOK, sessionVars, callVars
    <2>. QED BY <2>2, <2>3, <2>4, <2>5 DEF ProxyInv
  <1>. QED BY <1>1, <1>2

(* The inductive invariant holds in every state that calls, answers,       *)
(* timeouts, dropped futures, registrations and ending sessions reach.     *)
THEOREM ProxyInvariant == Spec => []ProxyInv
  <1>. QED BY ProxyInitially, ProxyPreserved, PTL DEF Spec

(* The maps, budgets, stages, targets and messages of the surface proxy    *)
(* keep their types; in particular no budget passes its limit, whatever    *)
(* the limits are, and the failure count of a provider stays below         *)
(* FAILURE_LIMIT.                                                          *)
THEOREM ProxyTypeCorrect == Spec => []TypeOK
  <1>1. ProxyInv => TypeOK
    BY DEF ProxyInv
  <1>. QED BY <1>1, ProxyInvariant, PTL

(* The budgets of providers and of the tenant count the calls in flight    *)
(* exactly, whoever gives a call's share back and in whatever order.       *)
THEOREM BudgetsStayExact == Spec => []BudgetsExact
  <1>1. ProxyInv => BudgetsExact
    BY DEF ProxyInv, Bookkeeping, CallsInv, Sound, Counted, PendingOf, BudgetsExact
  <1>. QED BY <1>1, ProxyInvariant, PTL

(* Every reservation of an idempotency key belongs to a call that is still *)
(* going on, and every call in flight holds the reservation of its key.    *)
THEOREM ReservationsAreHeld == Spec => []ReservationsHeld
  <1>1. ProxyInv => ReservationsHeld
    BY DEF ProxyInv, Bookkeeping, CallsInv, Sound, Reserved, Flight, ReservationsHeld
  <1>. QED BY <1>1, ProxyInvariant, PTL

(* The two maps of SurfaceRegistry stay inverse to each other through      *)
(* registrations, rotations and the unregistrations of old sessions.       *)
THEOREM RegistryStaysInverse == Spec => []RegistryIsInverse
  <1>1. ProxyInv => RegistryIsInverse
    BY DEF ProxyInv, RegistryInv
  <1>. QED BY <1>1, ProxyInvariant, PTL

(* A listed provider always has a session of its service that is live or   *)
(* still has to unregister it.                                             *)
THEOREM ListedAreServed == Spec => []ListedIsServed
  <1>1. ProxyInv => ListedIsServed
    BY DEF ProxyInv, RegistryInv
  <1>. QED BY <1>1, ProxyInvariant, PTL
=============================================================================
