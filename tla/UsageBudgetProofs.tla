------------------------- MODULE UsageBudgetProofs -------------------------
(***************************************************************************)
(* Proofs about UsageBudget, for every set of leases and every amount.     *)
(***************************************************************************)
EXTENDS UsageBudget, TLAPS

(* Rounding up to whole seconds, the way durationSeconds does, gives a     *)
(* natural number of seconds that covers the duration.                     *)
LEMMA DurationCovers ==
    ASSUME NEW d \in Nat
    PROVE  /\ DurationSeconds(d) \in Nat
           /\ DurationSeconds(d) * TicksPerSecond >= d
           /\ d > 0 => DurationSeconds(d) >= 1
  BY BudgetConstants DEF BudgetConstants, DurationSeconds

(* durationSeconds never makes the longer of two durations the smaller. *)
LEMMA DurationMonotone ==
    ASSUME NEW c \in Nat, NEW d \in Nat, c <= d
    PROVE  DurationSeconds(c) <= DurationSeconds(d)
  BY BudgetConstants DEF BudgetConstants, DurationSeconds

(* The instant at which an entry runs out is not before its start. *)
LEMMA ExpiryAfterStart ==
    ASSUME NEW e \in Entry
    PROVE  ExpiresAt(e) \in Nat /\ ExpiresAt(e) >= e.started
  <1>1. e.started \in Nat /\ e.seconds \in Nat /\ TicksPerSecond \in Nat
    BY BudgetConstants DEF BudgetConstants, Entry
  <1>2. e.seconds * TicksPerSecond \in Nat
    BY <1>1
  <1> QED  BY <1>1, <1>2 DEF ExpiresAt

(* Expiry changes only whether an entry is active and when it was charged. *)
LEMMA ExpireEntry ==
    ASSUME NEW e \in Entry
    PROVE  /\ Expire(e) \in Entry
           /\ Expire(e).started = e.started /\ Expire(e).seconds = e.seconds
           /\ Expire(e).confirmed = e.confirmed
           /\ Expire(e).active => e.active
           /\ ~Expire(e).active => \/ ~e.active /\ Expire(e).charged = e.charged
                                   \/ Expire(e).charged >= e.started
  <1>1. ExpiresAt(e) \in Nat /\ ExpiresAt(e) >= e.started
    BY ExpiryAfterStart
  <1> QED  BY <1>1 DEF Expire, Entry

(* prune drops entries and expires others; it adds and merges none. *)
LEMMA PrunedLedger ==
    ASSUME NEW L, IsLedger(L)
    PROVE  /\ IsLedger(Pruned(L))
           /\ DOMAIN Pruned(L) \subseteq DOMAIN L
           /\ \A l \in DOMAIN Pruned(L) : Pruned(L)[l] = Expire(L[l])
  <1>1. /\ DOMAIN Pruned(L) \subseteq DOMAIN L
        /\ Pruned(L) = [l \in DOMAIN Pruned(L) |-> Pruned(L)[l]]
        /\ \A l \in DOMAIN Pruned(L) : Pruned(L)[l] = Expire(L[l])
    BY DEF Pruned
  <1>2. \A l \in DOMAIN Pruned(L) : Pruned(L)[l] \in Entry
    BY <1>1, ExpireEntry DEF IsLedger
  <1> QED  BY <1>1, <1>2 DEF IsLedger

(* Writing one entry leaves the others. *)
LEMMA WithLedger ==
    ASSUME NEW L, IsLedger(L), NEW l \in Leases, NEW e \in Entry
    PROVE  /\ IsLedger(With(L, l, e))
           /\ DOMAIN With(L, l, e) = DOMAIN L \cup {l}
           /\ \A k \in DOMAIN With(L, l, e) : With(L, l, e)[k] = IF k = l THEN e ELSE L[k]
  BY DEF With, IsLedger

(* Removing one entry leaves the others. *)
LEMMA WithoutLedger ==
    ASSUME NEW L, IsLedger(L), NEW l
    PROVE  /\ IsLedger(Without(L, l))
           /\ DOMAIN Without(L, l) \subseteq DOMAIN L
           /\ \A k \in DOMAIN Without(L, l) : Without(L, l)[k] = L[k]
  BY DEF Without, IsLedger
----------------------------------------------------------------------------
(* Type correctness. *)

(* What settleAt and reconcile charge for a closed entry: at least one     *)
(* second, at most what was reserved, and in between enough for the        *)
(* elapsed time.                                                           *)
LEMMA SettledSeconds ==
    ASSUME NEW e \in Entry, NEW stop \in Nat
    PROVE  /\ Elapsed(e, stop) \in Nat /\ Elapsed(e, stop) <= e.seconds
           /\ e.seconds >= 1 => Elapsed(e, stop) >= 1
           /\ \/ Elapsed(e, stop) = e.seconds
              \/ Elapsed(e, stop) >= DurationSeconds(stop - e.started)
  <1>1. e.seconds \in Nat /\ stop - e.started \in Int
    BY DEF Entry
  <1>2. DurationSeconds(stop - e.started) \in Int
    BY <1>1, BudgetConstants DEF BudgetConstants, DurationSeconds
  <1> QED  BY <1>1, <1>2 DEF Elapsed, Smaller, Larger

(* A write leaves a ledger on disk and a ledger in memory. *)
LEMMA PersistLedger ==
    ASSUME NEW new, NEW old, IsLedger(new), IsLedger(old), IsLedger(disk), Persist(new, old)
    PROVE  IsLedger(entries') /\ IsLedger(disk')
  BY DEF Persist

(* The empty ledger is one. *)
LEMMA EmptyLedger == IsLedger(Empty) /\ DOMAIN Empty = {}
  BY DEF IsLedger, Empty

(* A lease that is given up has no run, and a worker at most in the future. *)
LEMMA GivenUpLife ==
    ASSUME now \in Nat, reservation \in Lifetimes
    PROVE  /\ Void \in Life /\ Void.phase = "void" /\ Void.from = 0
           /\ Void \in GivenUp
           /\ \A f \in GivenUp :
                 /\ f \in Life /\ f.from = 0
                 /\ \/ f.phase = "void"
                    \/ f.phase = "coming" /\ f.to = now + (reservation - Shutdown)
  <1>1. reservation - Shutdown \in Nat
    BY BudgetConstants DEF BudgetConstants
  <1> QED  BY <1>1 DEF GivenUp, Void, Coming, Life

(* What the end of the process does to the workers' lives. *)
LEMMA StopLife ==
    ASSUME Stop
    PROVE  /\ \A l \in Held : life'[l] \in GivenUp
           /\ \A l \in Leases \ Held : life'[l] = life[l]
           /\ life' = [l \in Leases |-> life'[l]]
  <1>1. PICK F \in [Held -> GivenUp] :
           life' = [l \in Leases |-> IF l \in Held THEN F[l] ELSE life[l]]
    BY DEF Stop
  <1>2. Held \subseteq Leases
    BY DEF Held
  <1> QED  BY <1>1, <1>2

(* Every step of usage_budget.go keeps its variables, the ledgers in       *)
(* memory and on disk among them, of their types.                          *)
THEOREM TypeCorrect == Spec => []TypeOK
<1>1. Init => TypeOK
  BY EmptyLedger DEF Init, TypeOK, Life, Fresh
<1>2. TypeOK /\ [Next]_vars => TypeOK'
  <2> SUFFICES ASSUME TypeOK, [Next]_vars PROVE TypeOK'
    OBVIOUS
  <2> USE DEF TypeOK
  <2>0. /\ reservation \in Nat /\ DurationSeconds(reservation) \in Nat
        /\ reservation - Shutdown \in Nat
    BY BudgetConstants, DurationCovers DEF BudgetConstants
  <2>g. Void \in Life /\ \A f \in GivenUp : f \in Life
    BY GivenUpLife
  <2>1. CASE Tick
    BY <2>1 DEF Tick, IsLedger
  <2>2. CASE Stop
    <3>2. life' \in [Leases -> Life]
      BY <2>2, <2>g, StopLife
    <3> QED  BY <2>2, <3>2, EmptyLedger DEF Stop, IsLedger
  <2>3. ASSUME NEW r \in Lifetimes, NewUsageBudget(r) PROVE TypeOK'
    <3>1. IsLedger(Pruned(disk))
      BY PrunedLedger
    <3> QED  BY <2>3, <3>1 DEF NewUsageBudget, IsLedger
  <2>4. ASSUME NEW l \in Leases, WorkerStarts(l) PROVE TypeOK'
    BY <2>0, <2>4 DEF WorkerStarts, Life, IsLedger
  <2>a. ASSUME NEW l \in Leases, WorkerAppears(l) PROVE TypeOK'
    BY <2>a DEF WorkerAppears, Life, Larger, IsLedger
  <2>b. ASSUME NEW l \in Leases, JobFinishes(l) PROVE TypeOK'
    BY <2>b DEF JobFinishes, Life, IsLedger
  <2>5. ASSUME NEW l \in Leases, WorkerStops(l) PROVE TypeOK'
    BY <2>5 DEF WorkerStops, Life, IsLedger
  <2>6. ASSUME NEW l \in Leases, Reserve(l) PROVE TypeOK'
    <3> DEFINE e == [started |-> now, charged |-> now, seconds |-> DurationSeconds(reservation),
                     active |-> TRUE, confirmed |-> FALSE]
    <3>1. e \in Entry
      BY <2>0 DEF Entry
    <3>2. IsLedger(Pruned(entries))
      BY PrunedLedger
    <3>3. IsLedger(With(Pruned(entries), l, e))
      BY <3>1, <3>2, WithLedger
    <3>4. IsLedger(entries') /\ IsLedger(disk')
      BY <2>6, <3>2, <3>3, PersistLedger DEF Reserve
    <3>5. life' \in [Leases -> Life]
      <4> DEFINE held == [phase |-> "held", from |-> now, finish |-> 0, to |-> 0]
      <4>1. held \in Life
        BY DEF Life
      <4>2. \/ life' = life \/ life' = [life EXCEPT ![l] = held]
            \/ life' = [life EXCEPT ![l] = Void]
        BY <2>6 DEF Reserve
      <4> HIDE DEF held
      <4> QED  BY <2>g, <4>1, <4>2
    <3> QED  BY <2>6, <3>4, <3>5 DEF Reserve
  <2>7. ASSUME NEW l \in Leases, NEW t \in Nat, Settle(l, t) PROVE TypeOK'
    <3> DEFINE e == entries[l]
               stop == IF t = 0 \/ t < e.started \/ t > now THEN now ELSE t
               settled == [e EXCEPT !.active = FALSE, !.charged = now,
                                    !.seconds = Elapsed(e, stop)]
    <3>1. l \in DOMAIN entries /\ e \in Entry /\ stop \in Nat
      BY <2>7 DEF Settle, Active, IsLedger
    <3>2. Elapsed(e, stop) \in Nat
      BY <3>1, SettledSeconds
    <3>3. settled \in Entry
      BY <3>1, <3>2 DEF Entry
    <3>4. Persist(Pruned(With(entries, l, settled)), entries)
      BY <2>7 DEF Settle
    <3> HIDE DEF settled
    <3>5. IsLedger(Pruned(With(entries, l, settled)))
      BY <3>3, WithLedger, PrunedLedger
    <3>6. IsLedger(entries') /\ IsLedger(disk')
      BY <3>4, <3>5, PersistLedger
    <3>7. outrun' \subseteq Leases
      BY <2>7 DEF Settle
    <3> QED  BY <2>7, <3>6, <3>7 DEF Settle
  <2>8. ASSUME NEW l \in Leases, Forfeit(l) PROVE TypeOK'
    <3> DEFINE e == [entries[l] EXCEPT !.active = FALSE, !.charged = now]
    <3>1. l \in DOMAIN entries /\ entries[l] \in Entry
      BY <2>8 DEF Forfeit, Active, IsLedger
    <3>2. e \in Entry
      BY <3>1 DEF Entry
    <3>3. IsLedger(With(entries, l, e))
      BY <3>2, WithLedger
    <3>4. IsLedger(entries') /\ IsLedger(disk')
      BY <2>8, <3>3, PersistLedger DEF Forfeit
    <3>5. life' \in [Leases -> Life]
      BY <2>8, <2>g DEF Forfeit
    <3> QED  BY <2>8, <3>4, <3>5 DEF Forfeit
  <2>9. ASSUME NEW l \in Leases, Release(l) PROVE TypeOK'
    <3>1. IsLedger(Without(entries, l))
      BY WithoutLedger
    <3>2. IsLedger(entries') /\ IsLedger(disk')
      BY <2>9, <3>1, PersistLedger DEF Release, IsLedger
    <3>3. life' \in [Leases -> Life]
      BY <2>9, <2>g DEF Release
    <3> QED  BY <2>9, <3>2, <3>3 DEF Release
  <2>10. ASSUME NEW l \in Leases, Adopt(l) PROVE TypeOK'
    <3> DEFINE fresh == [started |-> life[l].from, charged |-> life[l].from,
                         seconds |-> DurationSeconds(reservation), active |-> TRUE,
                         confirmed |-> TRUE]
               raised == [entries[l] EXCEPT !.confirmed = TRUE,
                             !.seconds = Larger(@, DurationSeconds(reservation))]
    <3>1. IsLedger(With(entries, l, fresh))
      <4>1. fresh \in Entry
        BY <2>0 DEF Entry, Life
      <4> QED  BY <4>1, WithLedger
    <3>2. l \in DOMAIN entries => IsLedger(With(entries, l, raised))
      <4> SUFFICES ASSUME l \in DOMAIN entries PROVE IsLedger(With(entries, l, raised))
        OBVIOUS
      <4>1. raised \in Entry
        BY <2>0 DEF Entry, Larger, IsLedger
      <4> QED  BY <4>1, WithLedger
    <3>3. IsLedger(entries') /\ IsLedger(disk')
      BY <2>10, <3>1, <3>2, PersistLedger DEF Adopt, Active, IsLedger
    <3>4. outrun' \subseteq Leases
      BY <2>10 DEF Adopt
    <3> QED  BY <2>10, <3>3, <3>4 DEF Adopt
  <2>11. ASSUME NEW S \in SUBSET Leases, Reconcile(S) PROVE TypeOK'
    <3> DEFINE Close(e) ==
                 [e EXCEPT !.active = FALSE, !.charged = now,
                           !.seconds = IF e.confirmed THEN Elapsed(e, now) ELSE e.seconds]
               closed == [l \in DOMAIN entries |->
                             IF entries[l].active /\ l \notin S
                             THEN Close(entries[l]) ELSE entries[l]]
    <3>1. ASSUME NEW e \in Entry PROVE Close(e) \in Entry
      <4> DEFINE seconds == IF e.confirmed THEN Elapsed(e, now) ELSE e.seconds
      <4>2. seconds \in Nat
        BY SettledSeconds DEF Entry
      <4>3. Close(e) = [e EXCEPT !.active = FALSE, !.charged = now, !.seconds = seconds]
        OBVIOUS
      <4> HIDE DEF seconds, Close
      <4> QED  BY <4>2, <4>3 DEF Entry
    <3> HIDE DEF Close
    <3>2. IsLedger(closed)
      BY <3>1 DEF IsLedger
    <3>3. IsLedger(Pruned(closed))
      BY <3>2, PrunedLedger
    <3> HIDE DEF closed
    <3>4. /\ entries' \in {entries, Pruned(closed), Empty}
          /\ disk' \in {disk, Pruned(closed)}
          /\ status' \in {"serving", "down"}
          /\ outrun' \subseteq Leases
      BY <2>11 DEF Reconcile, closed, Close, Live
    <3> QED  BY <2>11, <3>3, <3>4, EmptyLedger DEF Reconcile, IsLedger
  <2>12. CASE UNCHANGED vars
    BY <2>12 DEF vars, IsLedger
  <2>13. ASSUME NEW l \in Leases PROVE WorkerStoppedAt(life[l].finish) \in Nat
    BY BudgetConstants DEF TypeOK, Life, WorkerStoppedAt, BudgetConstants
  <2> QED  BY <2>1, <2>2, <2>3, <2>4, <2>5, <2>6, <2>7, <2>8, <2>9, <2>10, <2>11, <2>12,
              <2>13, <2>a, <2>b DEF Next
<1> QED  BY <1>1, <1>2, PTL DEF Spec
----------------------------------------------------------------------------
(* The ledger is one that validate accepts.  validate checks active and    *)
(* closed entries differently, so the invariant has to say of an active    *)
(* entry what keeps it valid once it is closed: that it began in the past. *)

Sound(e, t, r) ==
    /\ 1 <= e.seconds /\ e.seconds <= DurationSeconds(Longest)
    /\ e.active => e.seconds >= DurationSeconds(r) /\ e.started <= t
    /\ ~e.active => e.charged >= e.started

SoundLedger(L, t, r) == \A l \in DOMAIN L : Sound(L[l], t, r)

Loadable ==
    /\ status # "refused"
    /\ SoundLedger(entries, now, reservation)
    /\ SoundLedger(disk, now, reservation)
    /\ \A l \in Leases : life[l].from <= now

(* A full reservation is an amount validate accepts. *)
LEMMA ReservationBounds ==
    ASSUME NEW r \in Lifetimes
    PROVE  /\ r \in Nat /\ DurationSeconds(r) \in Nat
           /\ DurationSeconds(r) >= 1 /\ DurationSeconds(r) <= DurationSeconds(Longest)
           /\ DurationSeconds(Longest) \in Nat
  <1>1. r \in Nat /\ r > 0 /\ r <= Longest /\ Longest \in Nat
    BY BudgetConstants DEF BudgetConstants
  <1> QED  BY <1>1, DurationCovers, DurationMonotone

(* prune keeps a ledger sound. *)
LEMMA SoundPruned ==
    ASSUME NEW L, IsLedger(L), NEW r, SoundLedger(L, now, r)
    PROVE  SoundLedger(Pruned(L), now, r)
  <1> SUFFICES ASSUME NEW l \in DOMAIN Pruned(L) PROVE Sound(Pruned(L)[l], now, r)
    BY DEF SoundLedger
  <1>1. l \in DOMAIN L /\ Pruned(L)[l] = Expire(L[l]) /\ L[l] \in Entry
    BY PrunedLedger DEF IsLedger
  <1>2. Sound(L[l], now, r)
    BY <1>1 DEF SoundLedger
  <1> QED  BY <1>1, <1>2, ExpireEntry DEF Sound

(* A ledger with one sound entry more is sound. *)
LEMMA SoundWith ==
    ASSUME NEW L, IsLedger(L), NEW t, NEW r, SoundLedger(L, t, r),
           NEW l \in Leases, NEW e \in Entry, Sound(e, t, r)
    PROVE  SoundLedger(With(L, l, e), t, r)
  <1> SUFFICES ASSUME NEW k \in DOMAIN With(L, l, e) PROVE Sound(With(L, l, e)[k], t, r)
    BY DEF SoundLedger
  <1>1. With(L, l, e)[k] = IF k = l THEN e ELSE L[k]
    BY DEF With
  <1>2. k = l \/ k \in DOMAIN L
    BY DEF With
  <1>3. CASE k = l
    BY <1>1, <1>3
  <1>4. CASE k # l
    BY <1>1, <1>2, <1>4 DEF SoundLedger
  <1> QED  BY <1>3, <1>4

(* A write keeps both ledgers sound. *)
LEMMA SoundPersist ==
    ASSUME NEW new, NEW old, NEW t, NEW r, Persist(new, old),
           SoundLedger(new, t, r), SoundLedger(old, t, r), SoundLedger(disk, t, r)
    PROVE  SoundLedger(entries', t, r) /\ SoundLedger(disk', t, r)
  BY DEF Persist

(* A sound ledger stays sound as time passes and the lifetime is lowered. *)
LEMMA SoundLater ==
    ASSUME NEW L, IsLedger(L), NEW t \in Nat, NEW u \in Nat, t <= u,
           NEW r \in Lifetimes, NEW q \in Lifetimes, q <= r, SoundLedger(L, t, r)
    PROVE  SoundLedger(L, u, q)
  <1> SUFFICES ASSUME NEW l \in DOMAIN L PROVE Sound(L[l], u, q)
    BY DEF SoundLedger
  <1>1. L[l] \in Entry /\ Sound(L[l], t, r)
    BY DEF IsLedger, SoundLedger
  <1>2. DurationSeconds(q) <= DurationSeconds(r)
    BY ReservationBounds, DurationMonotone
  <1> QED  BY <1>1, <1>2, ReservationBounds DEF Sound, Entry

(* Closing an active entry now, for at most what it reserved, keeps it     *)
(* sound.                                                                  *)
LEMMA SoundClosed ==
    ASSUME NEW e \in Entry, NEW t \in Nat, NEW r, Sound(e, t, r), e.active,
           NEW s \in Nat, 1 <= s, s <= e.seconds
    PROVE  LET c == [e EXCEPT !.active = FALSE, !.charged = t, !.seconds = s]
           IN  c \in Entry /\ Sound(c, t, r)
  <1>1. DurationSeconds(Longest) \in Nat
    BY BudgetConstants, DurationCovers DEF BudgetConstants
  <1> DEFINE c == [e EXCEPT !.active = FALSE, !.charged = t, !.seconds = s]
  <1>2. /\ c \in Entry /\ c.active = FALSE /\ c.charged = t /\ c.seconds = s
        /\ c.started = e.started
    BY DEF Entry
  <1> HIDE DEF c
  <1>3. Sound(c, t, r)
    BY <1>1, <1>2 DEF Sound, Entry
  <1> QED  BY <1>2, <1>3 DEF c

(* Start-up accepts a sound ledger. *)
LEMMA SoundIsValid ==
    ASSUME NEW L, NEW t, NEW r, SoundLedger(L, t, r)
    PROVE  Valid(L, r)
  BY DEF SoundLedger, Sound, Valid

(* RUNNER_MAX_LIFETIME is never raised. *)
NeverRaised == ~MayRaise \/ \A q, r \in Lifetimes : q = r

(* Loadable is inductive as long as the lifetime is not raised: every      *)
(* operation of the ledger, and a restart, keep the entries sound.         *)
LEMMA StaysLoadable ==
    ASSUME NeverRaised
    PROVE  Spec => []Loadable
<1>1. Init => Loadable
  BY EmptyLedger, BudgetConstants DEF Init, Loadable, SoundLedger, Fresh, BudgetConstants
<1>2. TypeOK /\ TypeOK' /\ Loadable /\ [Next]_vars => Loadable'
  <2> SUFFICES ASSUME TypeOK, TypeOK', Loadable, [Next]_vars PROVE Loadable'
    OBVIOUS
  <2>0. /\ now \in Nat /\ IsLedger(entries) /\ IsLedger(disk) /\ reservation \in Lifetimes
        /\ life \in [Leases -> Life] /\ status # "refused"
        /\ SoundLedger(entries, now, reservation) /\ SoundLedger(disk, now, reservation)
        /\ \A l \in Leases : life[l].from \in Nat /\ life[l].from <= now
    BY DEF TypeOK, Loadable, Life
  <2>e. SoundLedger(Empty, now, reservation)
    BY EmptyLedger DEF SoundLedger
  <2>g. Void.from = 0 /\ (\A f \in GivenUp : f.from = 0) /\ 0 <= now
    BY <2>0, GivenUpLife
  <2>1. CASE Tick
    <3>1. now' = now + 1 /\ UNCHANGED <<status, reservation, entries, disk, life>>
      BY <2>1 DEF Tick
    <3>2. SoundLedger(entries, now + 1, reservation) /\ SoundLedger(disk, now + 1, reservation)
      <4>1. now + 1 \in Nat /\ now <= now + 1 /\ reservation <= reservation
        BY <2>0, ReservationBounds
      <4> QED  BY <2>0, <4>1, SoundLater
    <3>3. \A l \in Leases : life[l].from <= now + 1
      BY <2>0
    <3> QED  BY <2>0, <3>1, <3>2, <3>3 DEF Loadable
  <2>2. CASE Stop
    <3>2. \A k \in Leases : life'[k].from <= now
      BY <2>0, <2>2, <2>g, StopLife
    <3> QED  BY <2>0, <2>2, <2>e, <3>2 DEF Stop, Loadable
  <2>3. ASSUME NEW r \in Lifetimes, NewUsageBudget(r) PROVE Loadable'
    <3>1. r <= reservation
      BY <2>0, <2>3, ReservationBounds DEF NewUsageBudget, NeverRaised
    <3>2. SoundLedger(entries, now, r) /\ SoundLedger(disk, now, r)
      BY <2>0, <3>1, SoundLater
    <3>3. SoundLedger(Pruned(disk), now, r)
      BY <2>0, <3>2, SoundPruned
    <3>4. Valid(disk, r)
      BY <3>2, SoundIsValid
    <3> QED  BY <2>0, <2>3, <3>2, <3>3, <3>4 DEF NewUsageBudget, Loadable
  <2>4. ASSUME NEW l \in Leases, WorkerStarts(l) PROVE Loadable'
    BY <2>0, <2>4 DEF WorkerStarts, Loadable, Life
  <2>a. ASSUME NEW l \in Leases, WorkerAppears(l) PROVE Loadable'
    BY <2>0, <2>a DEF WorkerAppears, Loadable, Life
  <2>b. ASSUME NEW l \in Leases, JobFinishes(l) PROVE Loadable'
    BY <2>0, <2>b DEF JobFinishes, Loadable, Life
  <2>5. ASSUME NEW l \in Leases, WorkerStops(l) PROVE Loadable'
    BY <2>0, <2>5 DEF WorkerStops, Loadable, Life
  <2>6. ASSUME NEW l \in Leases, Reserve(l) PROVE Loadable'
    <3> DEFINE e == [started |-> now, charged |-> now, seconds |-> DurationSeconds(reservation),
                     active |-> TRUE, confirmed |-> FALSE]
               new == With(Pruned(entries), l, e)
    <3>1. e \in Entry /\ Sound(e, now, reservation)
      BY <2>0, ReservationBounds DEF Entry, Sound
    <3>2. IsLedger(Pruned(entries)) /\ SoundLedger(Pruned(entries), now, reservation)
      BY <2>0, PrunedLedger, SoundPruned
    <3> HIDE DEF e
    <3>3. SoundLedger(new, now, reservation)
      BY <3>1, <3>2, SoundWith
    <3>4. \/ entries' = Pruned(entries) /\ disk' = disk
          \/ Persist(new, Pruned(entries))
      BY <2>6 DEF Reserve, e
    <3> HIDE DEF new
    <3>5. SoundLedger(entries', now, reservation) /\ SoundLedger(disk', now, reservation)
      BY <2>0, <3>2, <3>3, <3>4, SoundPersist
    <3>6. /\ UNCHANGED <<now, status, reservation>>
          /\ \A k \in Leases : life'[k].from <= now
      <4> DEFINE held == [phase |-> "held", from |-> now, finish |-> 0, to |-> 0]
      <4>1. held.from = now /\ now <= now
        BY <2>0
      <4>2. /\ UNCHANGED <<now, status, reservation>>
            /\ \/ life' = life \/ life' = [life EXCEPT ![l] = held]
               \/ life' = [life EXCEPT ![l] = Void]
        BY <2>6 DEF Reserve
      <4> HIDE DEF held
      <4> QED  BY <2>0, <2>g, <4>1, <4>2
    <3> QED  BY <2>0, <3>5, <3>6 DEF Loadable
  <2>7. ASSUME NEW l \in Leases, NEW t \in Nat, Settle(l, t) PROVE Loadable'
    <3> DEFINE e == entries[l]
               stop == IF t = 0 \/ t < e.started \/ t > now THEN now ELSE t
               seconds == Elapsed(e, stop)
               settled == [e EXCEPT !.active = FALSE, !.charged = now, !.seconds = seconds]
    <3>1. e \in Entry /\ e.active /\ Sound(e, now, reservation) /\ stop \in Nat
      BY <2>0, <2>7 DEF Settle, Active, IsLedger, SoundLedger
    <3>2. Persist(Pruned(With(entries, l, settled)), entries)
      BY <2>7 DEF Settle
    <3>3. seconds \in Nat /\ 1 <= seconds /\ seconds <= e.seconds
      BY <3>1, SettledSeconds DEF Sound
    <3> HIDE DEF seconds
    <3>4. settled \in Entry /\ Sound(settled, now, reservation)
      BY <2>0, <3>1, <3>3, SoundClosed
    <3> HIDE DEF settled
    <3>5. SoundLedger(Pruned(With(entries, l, settled)), now, reservation)
      BY <2>0, <3>4, WithLedger, SoundWith, SoundPruned
    <3>7. SoundLedger(entries', now, reservation) /\ SoundLedger(disk', now, reservation)
      BY <2>0, <3>2, <3>5, SoundPersist
    <3> QED  BY <2>0, <2>7, <3>7 DEF Settle, Loadable
  <2>8. ASSUME NEW l \in Leases, Forfeit(l) PROVE Loadable'
    <3> DEFINE c == [entries[l] EXCEPT !.active = FALSE, !.charged = now]
    <3>1. entries[l] \in Entry /\ entries[l].active /\ Sound(entries[l], now, reservation)
      BY <2>0, <2>8 DEF Forfeit, Active, IsLedger, SoundLedger
    <3>2. c \in Entry /\ Sound(c, now, reservation)
      BY <2>0, <3>1 DEF Entry, Sound
    <3> HIDE DEF c
    <3>3. SoundLedger(With(entries, l, c), now, reservation)
      BY <2>0, <3>2, SoundWith
    <3>4. SoundLedger(entries', now, reservation) /\ SoundLedger(disk', now, reservation)
      BY <2>0, <2>8, <3>3, SoundPersist DEF Forfeit, c
    <3>5. \A k \in Leases : life'[k].from <= now
      BY <2>0, <2>8, <2>g DEF Forfeit
    <3> QED  BY <2>0, <2>8, <3>4, <3>5 DEF Forfeit, Loadable
  <2>9. ASSUME NEW l \in Leases, Release(l) PROVE Loadable'
    <3>1. SoundLedger(Without(entries, l), now, reservation)
      BY <2>0, WithoutLedger DEF SoundLedger
    <3>2. SoundLedger(entries', now, reservation) /\ SoundLedger(disk', now, reservation)
      BY <2>0, <2>9, <3>1, SoundPersist DEF Release
    <3>3. \A k \in Leases : life'[k].from <= now
      BY <2>0, <2>9, <2>g DEF Release
    <3> QED  BY <2>0, <2>9, <3>2, <3>3 DEF Release, Loadable
  <2>10. ASSUME NEW l \in Leases, Adopt(l) PROVE Loadable'
    <3> DEFINE fresh == [started |-> life[l].from, charged |-> life[l].from,
                         seconds |-> DurationSeconds(reservation), active |-> TRUE,
                         confirmed |-> TRUE]
               raised == [entries[l] EXCEPT !.confirmed = TRUE,
                             !.seconds = Larger(@, DurationSeconds(reservation))]
    <3>1. fresh \in Entry /\ Sound(fresh, now, reservation)
      BY <2>0, ReservationBounds DEF Entry, Sound
    <3>2. SoundLedger(With(entries, l, fresh), now, reservation)
      BY <2>0, <3>1, SoundWith
    <3>3. l \in DOMAIN entries /\ entries[l].active
             => SoundLedger(With(entries, l, raised), now, reservation)
      <4> SUFFICES ASSUME l \in DOMAIN entries, entries[l].active
                   PROVE  SoundLedger(With(entries, l, raised), now, reservation)
        OBVIOUS
      <4>1. entries[l] \in Entry /\ Sound(entries[l], now, reservation)
        BY <2>0 DEF IsLedger, SoundLedger
      <4>2. /\ raised \in Entry /\ raised.active /\ raised.started = entries[l].started
            /\ raised.seconds = Larger(entries[l].seconds, DurationSeconds(reservation))
        BY <2>0, <4>1, ReservationBounds DEF Entry, Larger
      <4> HIDE DEF raised
      <4>3. Sound(raised, now, reservation)
        BY <2>0, <4>1, <4>2, ReservationBounds DEF Entry, Sound, Larger
      <4> QED  BY <2>0, <4>2, <4>3, SoundWith
    <3>4. \/ UNCHANGED <<entries, disk>>
          \/ l \in DOMAIN entries /\ entries[l].active /\ Persist(With(entries, l, raised), entries)
          \/ Persist(With(entries, l, fresh), entries)
          \/ Persist(With(entries, l, fresh), With(entries, l, fresh))
      BY <2>10 DEF Adopt, Active
    <3> HIDE DEF fresh, raised
    <3>5. SoundLedger(entries', now, reservation) /\ SoundLedger(disk', now, reservation)
      BY <2>0, <3>2, <3>3, <3>4, SoundPersist
    <3> QED  BY <2>0, <2>10, <3>5 DEF Adopt, Loadable
  <2>11. ASSUME NEW S \in SUBSET Leases, Reconcile(S) PROVE Loadable'
    <3> DEFINE Close(e) ==
                 [e EXCEPT !.active = FALSE, !.charged = now,
                           !.seconds = IF e.confirmed THEN Elapsed(e, now) ELSE e.seconds]
               closed == [l \in DOMAIN entries |->
                             IF entries[l].active /\ l \notin S
                             THEN Close(entries[l]) ELSE entries[l]]
    <3>1. ASSUME NEW e \in Entry, e.active, Sound(e, now, reservation)
          PROVE  Close(e) \in Entry /\ Sound(Close(e), now, reservation)
      <4> DEFINE s == IF e.confirmed THEN Elapsed(e, now) ELSE e.seconds
      <4>2. s \in Nat /\ 1 <= s /\ s <= e.seconds
        BY <2>0, <3>1, SettledSeconds DEF Sound, Entry
      <4>3. Close(e) = [e EXCEPT !.active = FALSE, !.charged = now, !.seconds = s]
        OBVIOUS
      <4> HIDE DEF s, Close
      <4>4. LET c == [e EXCEPT !.active = FALSE, !.charged = now, !.seconds = s]
            IN  c \in Entry /\ Sound(c, now, reservation)
        BY <2>0, <3>1, <4>2, SoundClosed
      <4> QED  BY <4>3, <4>4
    <3> HIDE DEF Close
    <3>2. IsLedger(closed) /\ SoundLedger(closed, now, reservation)
      BY <2>0, <3>1 DEF IsLedger, SoundLedger
    <3>3. SoundLedger(Pruned(closed), now, reservation)
      BY <3>2, SoundPruned
    <3> HIDE DEF closed
    <3>4. /\ entries' \in {entries, Pruned(closed), Empty}
          /\ disk' \in {disk, Pruned(closed)}
          /\ status' \in {"serving", "down"}
          /\ UNCHANGED <<now, reservation, life>>
      BY <2>11 DEF Reconcile, closed, Close
    <3> QED  BY <2>0, <2>e, <3>3, <3>4 DEF Loadable
  <2>12. CASE UNCHANGED vars
    BY <2>0, <2>12 DEF vars, Loadable
  <2>13. ASSUME NEW l \in Leases PROVE WorkerStoppedAt(life[l].finish) \in Nat
    BY BudgetConstants DEF TypeOK, Life, WorkerStoppedAt, BudgetConstants
  <2> QED  BY <2>1, <2>2, <2>3, <2>4, <2>5, <2>6, <2>7, <2>8, <2>9, <2>10, <2>11, <2>12,
              <2>13, <2>a, <2>b DEF Next
<1> QED  BY <1>1, <1>2, TypeCorrect, PTL DEF Spec

(* As long as RUNNER_MAX_LIFETIME is not raised, newUsageBudget loads what *)
(* any run of the controller left on disk, failed writes included.         *)
THEOREM LedgerLoads ==
    ASSUME NeverRaised
    PROVE  Spec => []NeverRefused
<1>1. Loadable => NeverRefused
  BY DEF Loadable, NeverRefused
<1> QED  BY <1>1, StaysLoadable, PTL
----------------------------------------------------------------------------
(* Charges cover the time that workers ran.  An entry is written before    *)
(* its worker has run at all, so the invariant speaks of what the worker   *)
(* may still run, and of what a close will compute the charge from: the    *)
(* instant an active entry counts from is not after its worker's start.    *)

Ticks(e) == e.seconds * TicksPerSecond

(* When the chargeable part of a run ends, at the latest. *)
Ends(f) == IF f.finish = 0 THEN f.to ELSE Smaller(f.to, f.finish + Grace)

(* What the entry of a lease in state f has to hold at time t, when a      *)
(* launch would be given r.                                                *)
Owes(f, t, r) ==
    IF f.phase = "held" THEN r
    ELSE IF f.phase = "coming" THEN Larger(0, f.to - t)
    ELSE IF f.phase \in {"live", "gone"} THEN Larger(0, Ends(f) - f.from) ELSE 0

LifeOK(f, t) ==
    /\ f.phase = "live" => f.from <= t /\ t <= f.to
    /\ f.phase = "gone" => f.from <= f.to /\ f.to <= t

Covers(e, f, t, r) ==
    /\ Ticks(e) >= Owes(f, t, r)
    /\ f.phase \in {"held", "coming"} => ~e.confirmed
    /\ f.phase \in {"live", "gone"} /\ e.active => e.started <= f.from

CoveredLedger(L, F, O, t, r) ==
    \A l \in DOMAIN L : L[l].started <= t /\ (l \notin O => Covers(L[l], F[l], t, r))

Covered ==
    /\ \A l \in Leases : LifeOK(life[l], now)
    /\ CoveredLedger(entries, life, outrun, now, reservation)
    /\ CoveredLedger(disk, life, outrun, now, reservation)
    /\ \A l \in Leases : life[l].phase = "held" => status = "serving"

(* A lease that owes nothing new when its state turns from f to g. *)
Eases(f, g, t, r) ==
    /\ Owes(g, t, r) <= Owes(f, t, r) \/ Owes(g, t, r) = 0
    /\ g.phase \in {"held", "coming"} => f.phase \in {"held", "coming"}
    /\ g.phase \in {"live", "gone"} =>
          (f.phase \in {"live", "gone"} /\ g.from = f.from) \/ g.from = t

(* Ticks are naturals, and more seconds are at least as many ticks. *)
LEMMA TicksMonotone ==
    ASSUME NEW c \in Entry, NEW e \in Entry
    PROVE  /\ Ticks(c) \in Nat /\ Ticks(e) \in Nat
           /\ c.seconds <= e.seconds => Ticks(c) <= Ticks(e)
           /\ c.seconds = e.seconds => Ticks(c) = Ticks(e)
  <1>1. c.seconds \in Nat /\ e.seconds \in Nat /\ TicksPerSecond \in Nat
    BY BudgetConstants DEF BudgetConstants, Entry
  <1>2. ASSUME NEW a \in Nat, NEW b \in Nat, NEW k \in Nat
        PROVE  a * k \in Nat /\ (a <= b => a * k <= b * k)
    OBVIOUS
  <1> QED  BY <1>1, <1>2 DEF Ticks

(* What a lease owes is a natural number. *)
LEMMA OwesNat ==
    ASSUME NEW f \in Life, NEW t \in Nat, NEW r \in Nat
    PROVE  Owes(f, t, r) \in Nat /\ Ends(f) \in Nat /\ Ends(f) <= f.to
  BY BudgetConstants DEF Owes, Ends, Larger, Smaller, Life, BudgetConstants

(* prune keeps the charges. *)
LEMMA CoveredPruned ==
    ASSUME NEW L, IsLedger(L), NEW F, NEW O, NEW t, NEW r, CoveredLedger(L, F, O, t, r)
    PROVE  CoveredLedger(Pruned(L), F, O, t, r)
  <1> SUFFICES ASSUME NEW l \in DOMAIN Pruned(L)
               PROVE  /\ Pruned(L)[l].started <= t
                      /\ l \notin O => Covers(Pruned(L)[l], F[l], t, r)
    BY DEF CoveredLedger
  <1>1. l \in DOMAIN L /\ Pruned(L)[l] = Expire(L[l]) /\ L[l] \in Entry
    BY PrunedLedger DEF IsLedger
  <1>2. L[l].started <= t /\ (l \notin O => Covers(L[l], F[l], t, r))
    BY <1>1 DEF CoveredLedger
  <1>3. /\ Expire(L[l]).started = L[l].started /\ Expire(L[l]).seconds = L[l].seconds
        /\ Expire(L[l]).active => L[l].active
        /\ Expire(L[l]).confirmed = L[l].confirmed
    BY <1>1, ExpireEntry
  <1> QED  BY <1>1, <1>2, <1>3 DEF Covers, Ticks

(* One entry more that covers its worker. *)
LEMMA CoveredWith ==
    ASSUME NEW L, NEW F, NEW O, NEW t, NEW r, CoveredLedger(L, F, O, t, r),
           NEW l, NEW e, e.started <= t, l \notin O => Covers(e, F[l], t, r)
    PROVE  CoveredLedger(With(L, l, e), F, O, t, r)
  <1> SUFFICES ASSUME NEW k \in DOMAIN With(L, l, e)
               PROVE  /\ With(L, l, e)[k].started <= t
                      /\ k \notin O => Covers(With(L, l, e)[k], F[k], t, r)
    BY DEF CoveredLedger
  <1>1. CASE k = l
    BY <1>1 DEF With
  <1>2. CASE k # l
    <2>1. k \in DOMAIN L /\ With(L, l, e)[k] = L[k]
      BY <1>2 DEF With
    <2> QED  BY <2>1 DEF CoveredLedger
  <1> QED  BY <1>1, <1>2

(* A write keeps the charges in memory and on disk. *)
LEMMA CoveredPersist ==
    ASSUME NEW new, NEW old, NEW F, NEW O, NEW t, NEW r, Persist(new, old),
           CoveredLedger(new, F, O, t, r), CoveredLedger(old, F, O, t, r),
           CoveredLedger(disk, F, O, t, r)
    PROVE  CoveredLedger(entries', F, O, t, r) /\ CoveredLedger(disk', F, O, t, r)
  BY DEF Persist

(* With more leases excepted, the ledger still covers the others. *)
LEMMA CoveredExcept ==
    ASSUME NEW L, NEW F, NEW O, NEW P, NEW t, NEW r, CoveredLedger(L, F, O, t, r), O \subseteq P
    PROVE  CoveredLedger(L, F, P, t, r)
  BY DEF CoveredLedger

(* An entry covers a lease that owes nothing new. *)
LEMMA EasedCovers ==
    ASSUME NEW e \in Entry, NEW f \in Life, NEW g \in Life, NEW t \in Nat, NEW r \in Nat,
           e.started <= t, Covers(e, f, t, r), Eases(f, g, t, r)
    PROVE  Covers(e, g, t, r)
  <1>1. Ticks(e) \in Nat /\ Owes(f, t, r) \in Nat /\ Owes(g, t, r) \in Nat
    BY TicksMonotone, OwesNat
  <1>2. Ticks(e) >= Owes(g, t, r)
    BY <1>1 DEF Covers, Eases
  <1> QED  BY <1>2 DEF Covers, Eases

(* And so does a ledger, when every lease that changes owes nothing new. *)
LEMMA CoveredEased ==
    ASSUME NEW L, IsLedger(L), NEW F \in [Leases -> Life], NEW G \in [Leases -> Life],
           NEW O, NEW t \in Nat, NEW r \in Nat, CoveredLedger(L, F, O, t, r),
           \A k \in Leases : G[k] = F[k] \/ Eases(F[k], G[k], t, r)
    PROVE  CoveredLedger(L, G, O, t, r)
  <1> SUFFICES ASSUME NEW k \in DOMAIN L
               PROVE  L[k].started <= t /\ (k \notin O => Covers(L[k], G[k], t, r))
    BY DEF CoveredLedger
  <1>1. L[k] \in Entry /\ k \in Leases
    BY DEF IsLedger
  <1>2. L[k].started <= t /\ (k \notin O => Covers(L[k], F[k], t, r))
    BY DEF CoveredLedger
  <1> QED  BY <1>1, <1>2, EasedCovers

(* Closing the entry of a worker at an instant not before its chargeable   *)
(* run ended charges all of that run.                                      *)
LEMMA ClosedCovers ==
    ASSUME NEW e \in Entry, NEW f \in Life, NEW t \in Nat, NEW r \in Nat, Covers(e, f, t, r),
           f.phase \in {"live", "gone"}, e.active,
           NEW stop \in Nat, e.started <= stop, stop >= Ends(f),
           NEW c \in Entry, c.active = FALSE, c.seconds = Elapsed(e, stop)
    PROVE  Covers(c, f, t, r)
  <1>0. /\ e.seconds \in Nat /\ c.seconds \in Nat /\ e.started \in Nat
        /\ f.from \in Nat /\ f.to \in Nat /\ stop - e.started \in Nat
        /\ Ticks(c) \in Nat /\ Ticks(e) \in Nat
        /\ Owes(f, t, r) \in Nat /\ Ends(f) \in Nat
        /\ e.started <= f.from
    <2>1. /\ e.seconds \in Nat /\ c.seconds \in Nat /\ e.started \in Nat
          /\ f.from \in Nat /\ f.to \in Nat
      BY DEF Entry, Life
    <2>2. stop - e.started \in Nat
      BY <2>1
    <2>3. e.started <= f.from
      BY DEF Covers
    <2> QED  BY <2>1, <2>2, <2>3, TicksMonotone, OwesNat
  <1>1. CASE c.seconds = e.seconds
    <2>1. Ticks(c) = Ticks(e)
      BY <1>1 DEF Ticks
    <2> QED  BY <2>1 DEF Covers
  <1>2. CASE c.seconds >= DurationSeconds(stop - e.started)
    <2> DEFINE d == stop - e.started
               x == DurationSeconds(d) * TicksPerSecond
    <2>1. DurationSeconds(d) \in Nat /\ x >= d
      BY <1>0, DurationCovers
    <2>2. x \in Nat /\ x <= Ticks(c)
      <3>1. ASSUME NEW a \in Nat, NEW b \in Nat, NEW k \in Nat, a <= b
            PROVE  a * k \in Nat /\ a * k <= b * k
        BY <3>1
      <3> QED  BY <1>0, <1>2, <2>1, <3>1, BudgetConstants DEF Ticks, BudgetConstants
    <2>3. d \in Nat /\ d >= Ends(f) - f.from
      BY <1>0
    <2> HIDE DEF d, x
    <2>4. Owes(f, t, r) = Larger(0, Ends(f) - f.from)
      BY DEF Owes
    <2>5. Ticks(c) >= Owes(f, t, r)
      BY <1>0, <2>1, <2>2, <2>3, <2>4 DEF Larger
    <2> QED  BY <2>5 DEF Covers
  <1> QED  BY <1>1, <1>2, SettledSeconds

(* Every charge in the ledger covers the run of its worker, in memory and  *)
(* on disk, through crashes, failed writes, late creates, expiry, adoption *)
(* and reconciliation, whatever lifetimes the configurations had; only the *)
(* leases in outrun are excepted.                                          *)
THEOREM ChargesCoverRuns == Spec => []ChargeCoversRun
<1>1. Init => Covered
  BY EmptyLedger, BudgetConstants DEF Init, Covered, CoveredLedger, LifeOK, Fresh, BudgetConstants
<1>2. TypeOK /\ TypeOK' /\ Covered /\ [Next]_vars => Covered'
  <2> SUFFICES ASSUME TypeOK, TypeOK', Covered, [Next]_vars PROVE Covered'
    OBVIOUS
  <2>0. /\ now \in Nat /\ IsLedger(entries) /\ IsLedger(disk)
        /\ reservation \in Lifetimes /\ reservation \in Nat
        /\ reservation - Shutdown \in Nat /\ reservation - Shutdown <= reservation
        /\ life \in [Leases -> Life] /\ life' \in [Leases -> Life]
        /\ \A l \in Leases : life[l] \in Life
        /\ CoveredLedger(entries, life, outrun, now, reservation)
        /\ CoveredLedger(disk, life, outrun, now, reservation)
        /\ \A l \in Leases : LifeOK(life[l], now)
        /\ \A l \in Leases : life[l].phase = "held" => status = "serving"
        /\ IsLedger(entries') /\ IsLedger(disk')
    BY BudgetConstants DEF TypeOK, Covered, BudgetConstants
  <2>e. \A F, O, t, r : CoveredLedger(Empty, F, O, t, r)
    BY EmptyLedger DEF CoveredLedger
  (* Steps of the workers alone, and steps that also give leases up. *)
  <2>w. ASSUME UNCHANGED <<now, status, reservation, outrun>>,
               CoveredLedger(entries', life, outrun, now, reservation),
               CoveredLedger(disk', life, outrun, now, reservation),
               \A k \in Leases : \/ life'[k] = life[k]
                                 \/ /\ Eases(life[k], life'[k], now, reservation)
                                    /\ LifeOK(life'[k], now) /\ life'[k].phase # "held"
        PROVE  Covered'
    <3>1. /\ CoveredLedger(entries', life', outrun, now, reservation)
          /\ CoveredLedger(disk', life', outrun, now, reservation)
      BY <2>0, <2>w, CoveredEased
    <3>2. \A k \in Leases : /\ LifeOK(life'[k], now)
                            /\ life'[k].phase = "held" => status = "serving"
      BY <2>0, <2>w
    <3> QED  BY <2>w, <3>1, <3>2 DEF Covered
  <2>g. ASSUME NEW f \in Life, f.phase \in {"fresh", "held"}, NEW g \in GivenUp,
               g.phase = "void" \/ f.phase = "held"
        PROVE  Eases(f, g, now, reservation) /\ LifeOK(g, now) /\ g.phase # "held"
    <3>1. /\ g \in Life /\ g.from = 0
          /\ \/ g.phase = "void"
             \/ g.phase = "coming" /\ g.to = now + (reservation - Shutdown)
      BY <2>0, GivenUpLife
    <3>2. CASE g.phase = "void"
      BY <3>2 DEF Eases, Owes, LifeOK
    <3>3. CASE g.phase = "coming" /\ f.phase = "held"
      <4>1. g.to - now = reservation - Shutdown
        BY <2>0, <3>1, <3>3
      <4>2. Owes(f, now, reservation) = reservation
        BY <3>3 DEF Owes
      <4>3. Owes(g, now, reservation) = Larger(0, reservation - Shutdown)
        BY <3>3, <4>1 DEF Owes
      <4>4. Larger(0, reservation - Shutdown) <= reservation
        BY <2>0 DEF Larger
      <4> QED  BY <3>3, <4>2, <4>3, <4>4 DEF Eases, LifeOK
    <3> QED  BY <2>g, <3>1, <3>2, <3>3
  <2>v. Void \in GivenUp /\ Void.phase = "void"
    BY <2>0, GivenUpLife
  <2>1. CASE Tick
    <3>1. /\ now' = now + 1 /\ UNCHANGED <<status, reservation, entries, disk, life, outrun>>
          /\ \A l \in Leases : life[l].phase = "live" => now < life[l].to
      BY <2>1 DEF Tick, Live
    <3>2. \A l \in Leases : LifeOK(life[l], now + 1)
      BY <2>0, <3>1 DEF LifeOK, Life
    <3>3. ASSUME NEW L, IsLedger(L), CoveredLedger(L, life, outrun, now, reservation)
          PROVE  CoveredLedger(L, life, outrun, now + 1, reservation)
      <4> SUFFICES ASSUME NEW k \in DOMAIN L
                   PROVE  /\ L[k].started <= now + 1
                          /\ k \notin outrun => Covers(L[k], life[k], now + 1, reservation)
        BY DEF CoveredLedger
      <4>1. L[k] \in Entry /\ k \in Leases /\ life[k] \in Life
        BY <2>0, <3>3 DEF IsLedger
      <4>2. L[k].started <= now /\ (k \notin outrun => Covers(L[k], life[k], now, reservation))
        BY <3>3 DEF CoveredLedger
      <4>3. L[k].started <= now + 1
        BY <2>0, <4>1, <4>2 DEF Entry
      <4>4. Owes(life[k], now + 1, reservation) <= Owes(life[k], now, reservation)
        <5>1. life[k].to \in Nat /\ Ends(life[k]) - life[k].from \in Int
          BY <2>0, <4>1, OwesNat DEF Life
        <5> QED  BY <2>0, <5>1 DEF Owes, Larger
      <4>5. /\ Ticks(L[k]) \in Nat /\ Owes(life[k], now + 1, reservation) \in Nat
            /\ Owes(life[k], now, reservation) \in Nat
        <5>1. now + 1 \in Nat
          BY <2>0
        <5> QED  BY <2>0, <4>1, <5>1, TicksMonotone, OwesNat
      <4>6. ASSUME k \notin outrun PROVE Covers(L[k], life[k], now + 1, reservation)
        <5>1. Ticks(L[k]) >= Owes(life[k], now + 1, reservation)
          BY <4>2, <4>4, <4>5, <4>6 DEF Covers
        <5> QED  BY <4>2, <4>6, <5>1 DEF Covers
      <4> QED  BY <4>3, <4>6
    <3> QED  BY <2>0, <3>1, <3>2, <3>3 DEF Covered
  <2>2. CASE Stop
    <3>1. /\ UNCHANGED <<now, reservation, disk, outrun>> /\ entries' = Empty
      BY <2>2 DEF Stop
    <3>2. ASSUME NEW k \in Leases
          PROVE  \/ life'[k] = life[k] /\ life[k].phase # "held"
                 \/ /\ Eases(life[k], life'[k], now, reservation)
                    /\ LifeOK(life'[k], now) /\ life'[k].phase # "held"
      <4>1. CASE k \in Held
        BY <2>0, <2>2, <2>g, <4>1, StopLife DEF Held
      <4>2. CASE k \notin Held
        BY <2>2, <4>2, StopLife DEF Held
      <4> QED  BY <4>1, <4>2
    <3>3. CoveredLedger(disk, life', outrun, now, reservation)
      BY <2>0, <3>2, CoveredEased
    <3>4. \A k \in Leases : LifeOK(life'[k], now) /\ life'[k].phase # "held"
      BY <2>0, <3>2
    <3> QED  BY <2>0, <2>e, <3>1, <3>3, <3>4 DEF Covered
  <2>3. ASSUME NEW r \in Lifetimes, NewUsageBudget(r) PROVE Covered'
    <3>1. /\ status = "down" /\ reservation' = r /\ UNCHANGED <<now, life, outrun>>
          /\ entries' \in {entries, Pruned(disk)} /\ disk' \in {disk, Pruned(disk)}
      BY <2>3 DEF NewUsageBudget
    <3>2. \A k \in Leases : life[k].phase # "held"
      BY <2>0, <3>1
    <3>3. ASSUME NEW L, IsLedger(L), CoveredLedger(L, life, outrun, now, reservation)
          PROVE  CoveredLedger(L, life, outrun, now, r)
      <4>1. \A k \in DOMAIN L : Owes(life[k], now, r) = Owes(life[k], now, reservation)
        BY <3>2, <3>3 DEF Owes, IsLedger
      <4> QED  BY <3>3, <4>1 DEF CoveredLedger, Covers
    <3>4. CoveredLedger(Pruned(disk), life, outrun, now, reservation) /\ IsLedger(Pruned(disk))
      BY <2>0, CoveredPruned, PrunedLedger
    <3>5. CoveredLedger(entries', life, outrun, now, r) /\ CoveredLedger(disk', life, outrun, now, r)
      BY <2>0, <3>1, <3>3, <3>4
    <3> QED  BY <2>0, <3>1, <3>2, <3>5 DEF Covered
  <2>4. ASSUME NEW l \in Leases, WorkerStarts(l) PROVE Covered'
    <3> DEFINE g == [phase |-> "live", from |-> now, finish |-> 0,
                     to |-> now + (reservation - Shutdown)]
    <3>1. /\ UNCHANGED <<now, status, reservation, entries, disk, outrun>>
          /\ life[l].phase = "held" /\ life' = [life EXCEPT ![l] = g]
      BY <2>4 DEF WorkerStarts, Held
    <3>2. Ends(g) - g.from = reservation - Shutdown
      BY <2>0 DEF Ends
    <3>3. Owes(g, now, reservation) <= Owes(life[l], now, reservation)
      BY <2>0, <3>1, <3>2 DEF Owes, Larger
    <3>4. Eases(life[l], g, now, reservation) /\ LifeOK(g, now) /\ g.phase # "held"
      BY <2>0, <3>3 DEF Eases, LifeOK
    <3> HIDE DEF g
    <3> QED  BY <2>0, <2>w, <3>1, <3>4
  <2>a. ASSUME NEW l \in Leases, WorkerAppears(l) PROVE Covered'
    <3> DEFINE g == [phase |-> "live", from |-> now, finish |-> 0,
                     to |-> Larger(now, life[l].to)]
    <3>1. /\ UNCHANGED <<now, status, reservation, entries, disk, outrun>>
          /\ life[l].phase = "coming" /\ life' = [life EXCEPT ![l] = g]
      BY <2>a DEF WorkerAppears
    <3>2. life[l].to \in Nat
      BY <2>0 DEF Life
    <3>3. Larger(0, Ends(g) - g.from) = Larger(0, life[l].to - now)
      BY <2>0, <3>2 DEF Ends, Larger
    <3>4. Owes(g, now, reservation) = Owes(life[l], now, reservation)
      BY <3>1, <3>3 DEF Owes
    <3>5. Owes(life[l], now, reservation) \in Nat
      BY <2>0, OwesNat
    <3>6. Eases(life[l], g, now, reservation) /\ LifeOK(g, now) /\ g.phase # "held"
      BY <2>0, <3>2, <3>4, <3>5 DEF Eases, LifeOK, Larger
    <3> HIDE DEF g
    <3> QED  BY <2>0, <2>w, <3>1, <3>6
  <2>b. ASSUME NEW l \in Leases, JobFinishes(l) PROVE Covered'
    <3>1. /\ UNCHANGED <<now, status, reservation, entries, disk, outrun>>
          /\ life[l].phase = "live" /\ life[l].finish = 0
          /\ life' = [life EXCEPT ![l].finish = now]
      BY <2>b DEF JobFinishes, Live
    <3>2. /\ life'[l].phase = "live" /\ life'[l].from = life[l].from
          /\ life'[l].to = life[l].to /\ life'[l].finish = now
          /\ \A k \in Leases : k # l => life'[k] = life[k]
      BY <2>0, <3>1 DEF Life
    <3>3. LifeOK(life'[l], now)
      BY <2>0, <3>1, <3>2 DEF LifeOK
    <3>4. Eases(life[l], life'[l], now, reservation)
      <4>1. /\ Ends(life'[l]) \in Nat /\ Ends(life'[l]) <= life[l].to
            /\ life[l].to \in Nat /\ life[l].from \in Nat
        BY <2>0, <3>2, OwesNat DEF Life
      <4>2. Ends(life[l]) = life[l].to
        BY <3>1 DEF Ends
      <4>3. Owes(life'[l], now, reservation) <= Owes(life[l], now, reservation)
        BY <3>1, <3>2, <4>1, <4>2 DEF Owes, Larger
      <4> QED  BY <3>1, <3>2, <4>3 DEF Eases
    <3>5. life'[l].phase # "held"
      BY <3>2
    <3> QED  BY <2>0, <2>w, <3>1, <3>2, <3>3, <3>4, <3>5
  <2>5. ASSUME NEW l \in Leases, WorkerStops(l) PROVE Covered'
    <3>1. /\ UNCHANGED <<now, status, reservation, entries, disk, outrun>>
          /\ life[l].phase = "live"
          /\ life' = [life EXCEPT ![l].phase = "gone", ![l].to = now]
      BY <2>5 DEF WorkerStops, Live
    <3>2. /\ life'[l].phase = "gone" /\ life'[l].from = life[l].from
          /\ life'[l].to = now /\ life'[l].finish = life[l].finish
          /\ \A k \in Leases : k # l => life'[k] = life[k]
      BY <2>0, <3>1 DEF Life
    <3>3. /\ life[l].from \in Nat /\ life[l].to \in Nat /\ life[l].finish \in Nat
          /\ life[l].from <= now /\ now <= life[l].to
      BY <2>0, <3>1 DEF LifeOK, Life
    <3>4. LifeOK(life'[l], now)
      BY <2>0, <3>2, <3>3 DEF LifeOK
    <3>5. Eases(life[l], life'[l], now, reservation)
      <4>1. Ends(life'[l]) \in Nat /\ Ends(life[l]) \in Nat
        BY <2>0, OwesNat
      <4>2. Ends(life'[l]) <= Ends(life[l])
        BY <2>0, <3>2, <3>3, BudgetConstants DEF Ends, Smaller, BudgetConstants
      <4>3. Owes(life'[l], now, reservation) <= Owes(life[l], now, reservation)
        BY <3>1, <3>2, <3>3, <4>1, <4>2 DEF Owes, Larger
      <4> QED  BY <3>1, <3>2, <4>3 DEF Eases
    <3>6. life'[l].phase # "held"
      BY <3>2
    <3> QED  BY <2>0, <2>w, <3>1, <3>2, <3>4, <3>5, <3>6
  <2>6. ASSUME NEW l \in Leases, Reserve(l) PROVE Covered'
    <3> DEFINE e == [started |-> now, charged |-> now, seconds |-> DurationSeconds(reservation),
                     active |-> TRUE, confirmed |-> FALSE]
               held == [phase |-> "held", from |-> now, finish |-> 0, to |-> 0]
               pruned == Pruned(entries)
               new == With(pruned, l, e)
    <3>1. /\ UNCHANGED <<now, status, reservation, outrun>> /\ status = "serving"
          /\ life[l].phase = "fresh" /\ l \notin DOMAIN pruned
          /\ \/ entries' = pruned /\ disk' = disk /\ life' = life
             \/ /\ Persist(new, pruned)
                /\ life' = [life EXCEPT ![l] = IF entries' = new THEN held ELSE Void]
      BY <2>6 DEF Reserve
    <3>2. e \in Entry /\ Ticks(e) >= reservation /\ e.started <= now /\ Ticks(e) \in Nat
      <4>1. e \in Entry /\ e.started <= now
        BY <2>0, DurationCovers DEF Entry
      <4>2. Ticks(e) >= reservation
        BY <2>0, DurationCovers DEF Ticks
      <4> QED  BY <4>1, <4>2, TicksMonotone
    <3>3. held \in Life /\ held.phase = "held"
      BY <2>0 DEF Life
    <3>4. ~e.confirmed
      OBVIOUS
    <3> HIDE DEF e, held
    <3>5. IsLedger(pruned) /\ CoveredLedger(pruned, life, outrun, now, reservation)
      BY <2>0, PrunedLedger, CoveredPruned
    <3>6. Covers(e, life[l], now, reservation) /\ Covers(e, held, now, reservation)
      BY <3>1, <3>2, <3>3, <3>4 DEF Covers, Owes
    <3>7. CoveredLedger(new, life, outrun, now, reservation)
      BY <3>2, <3>5, <3>6, CoveredWith
    <3>8. new # pruned
      BY <3>1 DEF With
    <3>9. CASE entries' = pruned /\ disk' \in {disk, new}
               /\ (life' = life \/ life' = [life EXCEPT ![l] = Void])
      <4>1. Eases(life[l], Void, now, reservation) /\ LifeOK(Void, now) /\ Void.phase # "held"
        BY <2>0, <2>g, <2>v, <3>1
      <4> HIDE DEF new, pruned
      <4> QED  BY <2>0, <2>w, <3>1, <3>5, <3>7, <3>9, <4>1
    <3>10. CASE entries' = new /\ disk' = new /\ life' = [life EXCEPT ![l] = held]
      <4>1. CoveredLedger(pruned, life', outrun, now, reservation)
        <5> SUFFICES ASSUME NEW k \in DOMAIN pruned
                     PROVE  /\ pruned[k].started <= now
                            /\ k \notin outrun => Covers(pruned[k], life'[k], now, reservation)
          BY DEF CoveredLedger
        <5>1. k # l /\ k \in Leases
          BY <3>1, <3>5 DEF IsLedger
        <5>2. life'[k] = life[k]
          BY <2>0, <3>10, <5>1
        <5> QED  BY <3>5, <5>2 DEF CoveredLedger
      <4>2. life'[l] = held
        BY <2>0, <3>10
      <4>3. CoveredLedger(new, life', outrun, now, reservation)
        BY <3>2, <3>6, <4>1, <4>2, CoveredWith
      <4>4. \A k \in Leases : LifeOK(life'[k], now)
        BY <2>0, <3>3, <3>10 DEF LifeOK
      <4> HIDE DEF new
      <4> QED  BY <2>0, <3>1, <3>10, <4>3, <4>4 DEF Covered
    <3> HIDE DEF new, pruned
    <3> QED  BY <3>1, <3>8, <3>9, <3>10 DEF Persist
  <2>7. ASSUME NEW l \in Leases, NEW t \in {0, WorkerStoppedAt(life[l].finish)}, Settle(l, t)
        PROVE  Covered'
    <3> DEFINE e == entries[l]
               stop == IF t = 0 \/ t < e.started \/ t > now THEN now ELSE t
               settled == [e EXCEPT !.active = FALSE, !.charged = now,
                                    !.seconds = Elapsed(e, stop)]
    <3>1. /\ UNCHANGED <<now, status, reservation, life>>
          /\ l \in DOMAIN entries /\ e.active /\ life[l].phase \in {"live", "gone"}
          /\ Persist(Pruned(With(entries, l, settled)), entries)
          /\ outrun \subseteq outrun'
          /\ life[l].phase = "live" => UNCHANGED <<entries, disk>> \/ l \in outrun'
      BY <2>7 DEF Settle, Active, Gone, Live
    <3>2. /\ e \in Entry /\ e.started <= now
          /\ l \notin outrun => Covers(e, life[l], now, reservation)
      BY <2>0, <3>1 DEF IsLedger, CoveredLedger
    <3>3. t \in Nat /\ e.started \in Nat /\ life[l].to \in Nat /\ life[l].finish \in Nat
      BY <2>0, <3>2, BudgetConstants DEF Entry, BudgetConstants, Life, WorkerStoppedAt
    <3>4. stop \in Nat /\ e.started <= stop
      BY <2>0, <3>2, <3>3
    <3>5. life[l].phase = "gone" => stop >= Ends(life[l])
      <4> SUFFICES ASSUME life[l].phase = "gone" PROVE stop >= Ends(life[l])
        OBVIOUS
      <4>1. life[l].to <= now /\ Ends(life[l]) <= life[l].to /\ Ends(life[l]) \in Nat
        BY <2>0, OwesNat DEF LifeOK
      <4>2. t = 0 \/ t >= Ends(life[l])
        BY <2>0, <3>3, <4>1, BudgetConstants DEF Ends, Smaller, WorkerStoppedAt, BudgetConstants
      <4> QED  BY <2>0, <3>3, <4>1, <4>2
    <3>6. Elapsed(e, stop) \in Nat
      BY <3>2, <3>4, SettledSeconds
    <3> HIDE DEF stop
    <3>7. /\ settled \in Entry /\ settled.active = FALSE /\ settled.started = e.started
          /\ settled.seconds = Elapsed(e, stop)
      BY <2>0, <3>2, <3>6 DEF Entry
    <3> HIDE DEF settled
    <3>8. CASE UNCHANGED <<entries, disk>>
      <4>1. /\ CoveredLedger(entries, life, outrun', now, reservation)
            /\ CoveredLedger(disk, life, outrun', now, reservation)
        BY <2>0, <3>1, CoveredExcept
      <4> QED  BY <2>0, <3>1, <3>8, <4>1 DEF Covered
    <3>9. CASE life[l].phase = "gone" \/ l \in outrun'
      <4>1. l \notin outrun' => Covers(settled, life[l], now, reservation)
        BY <2>0, <3>1, <3>2, <3>4, <3>5, <3>7, <3>9, ClosedCovers
      <4>2. /\ CoveredLedger(entries, life, outrun', now, reservation)
            /\ CoveredLedger(disk, life, outrun', now, reservation)
        BY <2>0, <3>1, CoveredExcept
      <4>3. CoveredLedger(With(entries, l, settled), life, outrun', now, reservation)
        BY <3>2, <3>7, <4>1, <4>2, CoveredWith
      <4>4. CoveredLedger(Pruned(With(entries, l, settled)), life, outrun', now, reservation)
        BY <2>0, <3>7, <4>3, WithLedger, CoveredPruned
      <4>5. /\ CoveredLedger(entries', life, outrun', now, reservation)
            /\ CoveredLedger(disk', life, outrun', now, reservation)
        BY <3>1, <4>2, <4>4, CoveredPersist
      <4> QED  BY <2>0, <3>1, <4>5 DEF Covered
    <3> QED  BY <3>1, <3>8, <3>9
  <2>8. ASSUME NEW l \in Leases, Forfeit(l) PROVE Covered'
    <3> DEFINE c == [entries[l] EXCEPT !.active = FALSE, !.charged = now]
    <3>1. /\ UNCHANGED <<now, status, reservation, outrun>>
          /\ l \in DOMAIN entries
          /\ life' = life \/ (l \in Held /\ \E f \in GivenUp : life' = [life EXCEPT ![l] = f])
          /\ Persist(With(entries, l, c), entries)
      BY <2>8 DEF Forfeit, Active
    <3>2. /\ entries[l] \in Entry /\ entries[l].started <= now
          /\ l \notin outrun => Covers(entries[l], life[l], now, reservation)
      BY <2>0, <3>1 DEF IsLedger, CoveredLedger
    <3>3. /\ c.started = entries[l].started /\ c.seconds = entries[l].seconds
          /\ c.active = FALSE /\ c.confirmed = entries[l].confirmed
      BY <3>2 DEF Entry
    <3> HIDE DEF c
    <3>4. l \notin outrun => Covers(c, life[l], now, reservation)
      BY <3>2, <3>3 DEF Covers, Ticks
    <3>5. CoveredLedger(With(entries, l, c), life, outrun, now, reservation)
      BY <2>0, <3>2, <3>3, <3>4, CoveredWith
    <3>6. /\ CoveredLedger(entries', life, outrun, now, reservation)
          /\ CoveredLedger(disk', life, outrun, now, reservation)
      BY <2>0, <3>1, <3>5, CoveredPersist
    <3>7. CASE life' = life
      BY <2>w, <3>1, <3>6, <3>7
    <3>8. ASSUME l \in Held, NEW f \in GivenUp, life' = [life EXCEPT ![l] = f] PROVE Covered'
      <4>1. Eases(life[l], f, now, reservation) /\ LifeOK(f, now) /\ f.phase # "held"
        BY <2>0, <2>g, <3>8 DEF Held
      <4> QED  BY <2>0, <2>w, <3>1, <3>6, <3>8, <4>1
    <3> QED  BY <3>1, <3>7, <3>8
  <2>9. ASSUME NEW l \in Leases, Release(l) PROVE Covered'
    <3>1. /\ UNCHANGED <<now, status, reservation, outrun>>
          /\ life[l].phase = "held" /\ life' = [life EXCEPT ![l] = Void]
          /\ Persist(Without(entries, l), entries) \/ UNCHANGED <<entries, disk>>
      BY <2>9 DEF Release, Held
    <3>2. CoveredLedger(Without(entries, l), life, outrun, now, reservation)
      BY <2>0, WithoutLedger DEF CoveredLedger
    <3>3. /\ CoveredLedger(entries', life, outrun, now, reservation)
          /\ CoveredLedger(disk', life, outrun, now, reservation)
      BY <2>0, <3>1, <3>2, CoveredPersist
    <3>4. Eases(life[l], Void, now, reservation) /\ LifeOK(Void, now) /\ Void.phase # "held"
      BY <2>0, <2>g, <2>v, <3>1
    <3> QED  BY <2>0, <2>w, <3>1, <3>3, <3>4
  <2>10. ASSUME NEW l \in Leases, Adopt(l) PROVE Covered'
    <3> DEFINE full == DurationSeconds(reservation)
               fresh == [started |-> life[l].from, charged |-> life[l].from,
                         seconds |-> full, active |-> TRUE, confirmed |-> TRUE]
               raised == [entries[l] EXCEPT !.confirmed = TRUE, !.seconds = Larger(@, full)]
               short == full * TicksPerSecond < life[l].to - life[l].from
    <3>0. /\ life[l].phase \in {"live", "gone"} /\ UNCHANGED <<now, status, reservation, life>>
          /\ life[l].from \in Nat /\ life[l].to \in Nat /\ life[l].from <= now /\ full \in Nat
      <4>1. life[l].phase \in {"live", "gone"} /\ UNCHANGED <<now, status, reservation, life>>
        BY <2>10 DEF Adopt, Live, Gone
      <4>2. life[l].from \in Nat /\ life[l].to \in Nat /\ life[l] \in Life
        BY <2>0 DEF Life
      <4>3. life[l].from <= now
        BY <2>0, <4>1, <4>2 DEF LifeOK
      <4> QED  BY <2>0, <4>1, <4>2, <4>3, DurationCovers
    <3>1. \/ l \in Active(entries) /\ outrun' = outrun /\ UNCHANGED <<entries, disk>>
          \/ /\ l \in Active(entries) /\ outrun' = outrun
             /\ Persist(With(entries, l, raised), entries)
          \/ /\ l \notin Active(entries)
             /\ \/ Persist(With(entries, l, fresh), entries)
                \/ Persist(With(entries, l, fresh), With(entries, l, fresh))
             /\ outrun' = IF short THEN outrun \cup {l}
                          ELSE IF l \in Active(entries') /\ entries' = disk'
                               THEN outrun \ {l} ELSE outrun
      BY <2>10 DEF Adopt, Active
    <3>2. CASE outrun' = outrun /\ UNCHANGED <<entries, disk>>
      BY <2>0, <3>0, <3>2 DEF Covered
    <3>3. CASE l \in Active(entries) /\ outrun' = outrun
               /\ Persist(With(entries, l, raised), entries)
      <4>1. /\ entries[l] \in Entry /\ entries[l].started <= now
            /\ l \notin outrun => Covers(entries[l], life[l], now, reservation)
        BY <2>0, <3>3 DEF IsLedger, CoveredLedger, Active
      <4>2. /\ raised.started = entries[l].started /\ raised.active = entries[l].active
            /\ raised \in Entry /\ entries[l].seconds <= raised.seconds
        <5> DEFINE most == Larger(entries[l].seconds, full)
        <5>1. most \in Nat /\ entries[l].seconds <= most
          BY <3>0, <4>1 DEF Entry, Larger
        <5>2. raised = [entries[l] EXCEPT !.confirmed = TRUE, !.seconds = most]
          BY <4>1 DEF Entry
        <5> HIDE DEF most, raised
        <5> QED  BY <4>1, <5>1, <5>2 DEF Entry
      <4> HIDE DEF raised
      <4>3. /\ Ticks(entries[l]) \in Nat /\ Ticks(raised) \in Nat
            /\ Ticks(entries[l]) <= Ticks(raised) /\ Owes(life[l], now, reservation) \in Nat
        BY <2>0, <4>1, <4>2, TicksMonotone, OwesNat
      <4>4. l \notin outrun => Ticks(raised) >= Owes(life[l], now, reservation)
        BY <4>1, <4>3 DEF Covers
      <4>5. l \notin outrun => Covers(raised, life[l], now, reservation)
        BY <3>0, <4>1, <4>2, <4>4 DEF Covers
      <4>6. CoveredLedger(With(entries, l, raised), life, outrun, now, reservation)
        BY <2>0, <4>1, <4>2, <4>5, CoveredWith
      <4>7. /\ CoveredLedger(entries', life, outrun, now, reservation)
            /\ CoveredLedger(disk', life, outrun, now, reservation)
        BY <2>0, <3>3, <4>6, CoveredPersist
      <4> QED  BY <2>0, <3>0, <3>3, <4>7 DEF Covered
    <3>4. fresh \in Entry /\ fresh.started = life[l].from /\ fresh.started <= now
      BY <3>0 DEF Entry
    <3>5. ~short => Covers(fresh, life[l], now, reservation)
      <4>1. Ticks(fresh) = full * TicksPerSecond
        BY DEF Ticks
      <4>2. Ticks(fresh) \in Nat /\ Ends(life[l]) <= life[l].to /\ Ends(life[l]) \in Nat
        BY <2>0, <3>4, TicksMonotone, OwesNat
      <4>3. Owes(life[l], now, reservation) = Larger(0, Ends(life[l]) - life[l].from)
        BY <3>0 DEF Owes
      <4>4. ~short => Ticks(fresh) >= life[l].to - life[l].from
        BY <3>0, <4>1, <4>2
      <4> HIDE DEF fresh, short
      <4>5. ~short => Ticks(fresh) >= Owes(life[l], now, reservation)
        BY <3>0, <4>2, <4>3, <4>4 DEF Larger
      <4> QED  BY <3>0, <3>4, <4>5 DEF Covers
    <3>6. ASSUME NEW P, l \in P \/ ~short, NEW L, CoveredLedger(L, life, P, now, reservation)
          PROVE  CoveredLedger(With(L, l, fresh), life, P, now, reservation)
      <4> HIDE DEF fresh, short
      <4> QED  BY <3>4, <3>5, <3>6, CoveredWith
    <3> HIDE DEF short
    <3>7. CASE /\ outrun \subseteq outrun' /\ (l \in outrun' \/ ~short)
               /\ \/ Persist(With(entries, l, fresh), entries)
                  \/ Persist(With(entries, l, fresh), With(entries, l, fresh))
      <4>1. /\ CoveredLedger(entries, life, outrun', now, reservation)
            /\ CoveredLedger(disk, life, outrun', now, reservation)
        BY <2>0, <3>7, CoveredExcept
      <4>2. CoveredLedger(With(entries, l, fresh), life, outrun', now, reservation)
        BY <3>6, <3>7, <4>1
      <4> HIDE DEF fresh
      <4>3. /\ CoveredLedger(entries', life, outrun', now, reservation)
            /\ CoveredLedger(disk', life, outrun', now, reservation)
        BY <3>7, <4>1, <4>2, CoveredPersist
      <4> QED  BY <2>0, <3>0, <4>3 DEF Covered
    <3>8. CASE /\ outrun' = outrun \ {l} /\ ~short
               /\ entries' = With(entries, l, fresh) /\ disk' = entries'
      <4> HIDE DEF fresh
      <4>1. CoveredLedger(With(entries, l, fresh), life, outrun, now, reservation)
        BY <2>0, <3>6, <3>8
      <4>2. CoveredLedger(With(entries, l, fresh), life, outrun', now, reservation)
        <5> SUFFICES ASSUME NEW k \in DOMAIN With(entries, l, fresh), k \notin outrun'
                     PROVE  Covers(With(entries, l, fresh)[k], life[k], now, reservation)
          BY <4>1 DEF CoveredLedger
        <5>1. CASE k = l
          BY <3>5, <3>8, <5>1 DEF With
        <5>2. CASE k # l
          BY <3>8, <4>1, <5>2 DEF CoveredLedger
        <5> QED  BY <5>1, <5>2
      <4> QED  BY <2>0, <3>0, <3>8, <4>2 DEF Covered
    <3> HIDE DEF fresh, raised
    <3>9. l \notin Active(entries) /\ entries' = entries => l \notin Active(entries')
      OBVIOUS
    <3> QED  BY <3>1, <3>2, <3>3, <3>7, <3>8, <3>9 DEF Persist
  <2>11. ASSUME NEW S \in SUBSET Leases, Reconcile(S) PROVE Covered'
    <3> DEFINE Close(e) ==
                 [e EXCEPT !.active = FALSE, !.charged = now,
                           !.seconds = IF e.confirmed THEN Elapsed(e, now) ELSE e.seconds]
               closed == [l \in DOMAIN entries |->
                             IF entries[l].active /\ l \notin S
                             THEN Close(entries[l]) ELSE entries[l]]
               missed == {l \in (Live \cap Active(entries)) \ S : entries[l].confirmed}
    <3>1. /\ status = "recovering" /\ UNCHANGED <<now, reservation, life>>
          /\ outrun' = outrun \cup missed
          /\ entries' \in {entries, Pruned(closed), Empty} /\ disk' \in {disk, Pruned(closed)}
      BY <2>11 DEF Reconcile
    <3>2. ASSUME NEW l \in DOMAIN entries, entries[l].active, l \notin S
          PROVE  /\ Close(entries[l]) \in Entry /\ Close(entries[l]).started <= now
                 /\ l \notin outrun' => Covers(Close(entries[l]), life[l], now, reservation)
      <4> DEFINE e == entries[l]
                 s == IF e.confirmed THEN Elapsed(e, now) ELSE e.seconds
      <4>1. /\ e \in Entry /\ e.started <= now /\ l \in Leases /\ life[l] \in Life
            /\ l \notin outrun => Covers(e, life[l], now, reservation)
            /\ LifeOK(life[l], now)
        BY <2>0 DEF IsLedger, CoveredLedger
      <4>2. s \in Nat
        BY <2>0, <4>1, SettledSeconds DEF Entry
      <4>3. Close(e) = [e EXCEPT !.active = FALSE, !.charged = now, !.seconds = s]
        OBVIOUS
      <4> HIDE DEF s, Close
      <4>4. /\ Close(e) \in Entry /\ Close(e).active = FALSE /\ Close(e).seconds = s
            /\ Close(e).started = e.started /\ Close(e).confirmed = e.confirmed
        BY <2>0, <4>1, <4>2, <4>3 DEF Entry
      <4>5. ASSUME l \notin outrun' PROVE Covers(Close(e), life[l], now, reservation)
        <5>1. Covers(e, life[l], now, reservation) /\ l \notin missed
          BY <3>1, <4>1, <4>5
        <5>2. CASE ~e.confirmed \/ life[l].phase \in {"fresh", "void"}
          <6>1. CASE ~e.confirmed
            BY <4>4, <5>1, <6>1 DEF Covers, Ticks, s
          <6>2. CASE life[l].phase \in {"fresh", "void"}
            <7>1. Ticks(Close(e)) \in Nat /\ Owes(life[l], now, reservation) = 0
              BY <4>4, <6>2, TicksMonotone DEF Owes
            <7> QED  BY <6>2, <7>1 DEF Covers
          <6> QED  BY <5>2, <6>1, <6>2
        <5>3. CASE e.confirmed /\ life[l].phase = "gone"
          <6>1. now >= Ends(life[l]) /\ e.started <= now
            <7>1. life[l].to <= now /\ Ends(life[l]) <= life[l].to /\ Ends(life[l]) \in Nat
                  /\ life[l].to \in Nat
              BY <2>0, <4>1, <5>3, OwesNat DEF LifeOK, Life
            <7>2. now \in Nat /\ e.started <= now
              BY <2>0, <4>1
            <7> HIDE DEF e, closed, missed
            <7> QED  BY <7>1, <7>2
          <6>2. Close(e).seconds = Elapsed(e, now)
            BY <4>4, <5>3 DEF s
          <6> QED  BY <2>0, <3>2, <4>1, <4>4, <5>1, <5>3, <6>1, <6>2, ClosedCovers
        <5>4. CASE e.confirmed /\ life[l].phase = "live"
          BY <3>2, <4>1, <5>1, <5>4 DEF Live, Active
        <5>5. life[l].phase \in {"held", "coming"} => ~e.confirmed
          BY <5>1 DEF Covers
        <5> QED  BY <4>1, <5>2, <5>3, <5>4, <5>5 DEF Life
      <4> QED  BY <4>1, <4>4, <4>5
    <3>3. /\ CoveredLedger(entries, life, outrun', now, reservation)
          /\ CoveredLedger(disk, life, outrun', now, reservation)
      BY <2>0, <3>1, CoveredExcept
    <3> HIDE DEF Close, missed
    <3>4. IsLedger(closed) /\ CoveredLedger(closed, life, outrun', now, reservation)
      BY <2>0, <3>2, <3>3 DEF IsLedger, CoveredLedger
    <3>5. CoveredLedger(Pruned(closed), life, outrun', now, reservation)
      BY <3>4, CoveredPruned
    <3> HIDE DEF closed
    <3>6. /\ CoveredLedger(entries', life, outrun', now, reservation)
          /\ CoveredLedger(disk', life, outrun', now, reservation)
      BY <2>e, <3>1, <3>3, <3>5
    <3> QED  BY <2>0, <3>1, <3>6 DEF Covered
  <2>12. CASE UNCHANGED vars
    BY <2>0, <2>12 DEF vars, Covered
  <2> QED  BY <2>1, <2>2, <2>3, <2>4, <2>5, <2>6, <2>7, <2>8, <2>9, <2>10, <2>11, <2>12,
              <2>a, <2>b DEF Next
<1>3. TypeOK /\ Covered => ChargeCoversRun
  <2> SUFFICES ASSUME TypeOK, Covered, NEW l \in Leases \ outrun, NEW L, IsLedger(L),
                      CoveredLedger(L, life, outrun, now, reservation), l \in DOMAIN L
               PROVE  L[l].seconds * TicksPerSecond >= OwedSince(l, 0)
    BY DEF ChargeCoversRun, Covered, TypeOK
  <2>1. /\ L[l] \in Entry /\ Covers(L[l], life[l], now, reservation) /\ reservation \in Nat
        /\ LifeOK(life[l], now) /\ now \in Nat /\ life[l] \in Life
    BY BudgetConstants DEF IsLedger, CoveredLedger, Covered, TypeOK, BudgetConstants
  <2>2. /\ Ticks(L[l]) \in Nat /\ Owes(life[l], now, reservation) \in Nat
        /\ Ends(life[l]) \in Nat
    BY <2>1, TicksMonotone, OwesNat
  <2>3. OwedSince(l, 0) <= Owes(life[l], now, reservation) /\ OwedSince(l, 0) \in Nat
    <3>1. /\ life[l].from \in Nat /\ life[l].to \in Nat /\ life[l].finish \in Nat
          /\ Larger(life[l].from, 0) = life[l].from
      BY <2>1 DEF Life, Larger
    <3>2. CASE l \notin Live \cup Gone
      BY <2>2, <3>2 DEF OwedSince
    <3>3. CASE l \in Live \cup Gone
      <4> DEFINE until == IF l \in Live THEN now ELSE life[l].to
                 owed == IF life[l].finish = 0 THEN until
                         ELSE Smaller(until, life[l].finish + Grace)
      <4>1. OwedSince(l, 0) = Larger(0, owed - life[l].from)
        BY <3>1, <3>3 DEF OwedSince
      <4>2. Owes(life[l], now, reservation) = Larger(0, Ends(life[l]) - life[l].from)
        BY <3>3 DEF Owes, Live, Gone
      <4>3. until \in Nat /\ until <= life[l].to
        BY <2>1, <3>1 DEF LifeOK, Live
      <4> HIDE DEF until
      <4>4. owed \in Nat /\ owed <= Ends(life[l])
        BY <3>1, <4>3, BudgetConstants DEF Ends, Smaller, BudgetConstants
      <4> HIDE DEF owed
      <4> QED  BY <2>2, <3>1, <4>1, <4>2, <4>4 DEF Larger
    <3> QED  BY <3>2, <3>3
  <2> QED  BY <2>1, <2>2, <2>3 DEF Covers, Ticks
<1> QED  BY <1>1, <1>2, <1>3, TypeCorrect, PTL DEF Spec
----------------------------------------------------------------------------
(* When nothing is excepted.  A worker outruns its charge only if a        *)
(* listing or a deletion was wrong about it, or the lifetime changed.      *)

LifeBound(f, t, r) ==
    /\ f.phase = "coming" => f.to <= t + r
    /\ f.phase = "live" => t <= f.to
    /\ f.phase \in {"live", "gone"} => f.to - f.from <= r

NoneOutrun ==
    /\ \A l \in Leases : LifeBound(life[l], now, reservation)
    /\ outrun = {}

(* With one RUNNER_MAX_LIFETIME, and listings and deletions that tell the  *)
(* truth, no worker outruns its charge: settle and reconcile close only    *)
(* what has ended, and adopt reserves enough.                              *)
THEOREM NothingOutrun ==
    ASSUME "unseen" \notin Faults, \A q, r \in Lifetimes : q = r
    PROVE  Spec => [](outrun = {})
<1>1. Init => NoneOutrun
  BY DEF Init, NoneOutrun, LifeBound, Fresh
<1>2. TypeOK /\ TypeOK' /\ NoneOutrun /\ [Next]_vars => NoneOutrun'
  <2> SUFFICES ASSUME TypeOK, TypeOK', NoneOutrun, [Next]_vars PROVE NoneOutrun'
    OBVIOUS
  <2>0. /\ now \in Nat /\ reservation \in Lifetimes /\ reservation \in Nat
        /\ reservation - Shutdown \in Nat /\ reservation - Shutdown <= reservation
        /\ reservation' = reservation /\ outrun = {}
        /\ life \in [Leases -> Life] /\ life' \in [Leases -> Life]
        /\ \A l \in Leases : life[l] \in Life /\ LifeBound(life[l], now, reservation)
    BY BudgetConstants DEF TypeOK, NoneOutrun, BudgetConstants
  <2>w. ASSUME UNCHANGED <<now, outrun>>, NEW l \in Leases,
               \A k \in Leases \ {l} : life'[k] = life[k], LifeBound(life'[l], now, reservation)
        PROVE  NoneOutrun'
    BY <2>0, <2>w DEF NoneOutrun
  <2>g. \A f \in GivenUp : LifeBound(f, now, reservation)
    <3> SUFFICES ASSUME NEW f \in GivenUp PROVE LifeBound(f, now, reservation)
      OBVIOUS
    <3>1. f.phase = "void" \/ (f.phase = "coming" /\ f.to = now + (reservation - Shutdown))
      BY <2>0, GivenUpLife
    <3> QED  BY <2>0, <3>1 DEF LifeBound
  <2>v. Void \in GivenUp
    BY <2>0, GivenUpLife
  <2>1. CASE Tick
    <3>1. /\ now' = now + 1 /\ UNCHANGED <<life, outrun>>
          /\ \A l \in Leases : life[l].phase = "live" => now < life[l].to
      BY <2>1 DEF Tick, Live
    <3>2. \A l \in Leases : LifeBound(life[l], now + 1, reservation)
      BY <2>0, <3>1 DEF LifeBound, Life
    <3> QED  BY <2>0, <3>1, <3>2 DEF NoneOutrun
  <2>2. CASE Stop
    <3>1. UNCHANGED <<now, outrun>>
      BY <2>2 DEF Stop
    <3>2. \A l \in Leases : LifeBound(life'[l], now, reservation)
      BY <2>0, <2>2, <2>g, StopLife
    <3> QED  BY <2>0, <3>1, <3>2 DEF NoneOutrun
  <2>3. ASSUME NEW r \in Lifetimes, NewUsageBudget(r) PROVE NoneOutrun'
    BY <2>0, <2>3 DEF NewUsageBudget, NoneOutrun
  <2>4. ASSUME NEW l \in Leases, WorkerStarts(l) PROVE NoneOutrun'
    <3>1. /\ UNCHANGED <<now, outrun>> /\ \A k \in Leases \ {l} : life'[k] = life[k]
          /\ life'[l].phase = "live" /\ life'[l].from = now
          /\ life'[l].to = now + (reservation - Shutdown)
      BY <2>0, <2>4 DEF WorkerStarts
    <3>2. LifeBound(life'[l], now, reservation)
      BY <2>0, <3>1 DEF LifeBound
    <3> QED  BY <2>w, <3>1, <3>2
  <2>a. ASSUME NEW l \in Leases, WorkerAppears(l) PROVE NoneOutrun'
    <3>1. /\ UNCHANGED <<now, outrun>> /\ \A k \in Leases \ {l} : life'[k] = life[k]
          /\ life[l].phase = "coming" /\ life'[l].phase = "live" /\ life'[l].from = now
          /\ life'[l].to = Larger(now, life[l].to)
      BY <2>0, <2>a DEF WorkerAppears
    <3>2. life[l].to \in Nat /\ life[l].to <= now + reservation
      BY <2>0, <3>1 DEF LifeBound, Life
    <3>3. LifeBound(life'[l], now, reservation)
      BY <2>0, <3>1, <3>2 DEF LifeBound, Larger
    <3> QED  BY <2>w, <3>1, <3>3
  <2>b. ASSUME NEW l \in Leases, JobFinishes(l) PROVE NoneOutrun'
    <3>1. /\ UNCHANGED <<now, outrun>> /\ \A k \in Leases \ {l} : life'[k] = life[k]
          /\ life[l].phase = "live" /\ life'[l].phase = "live"
          /\ life'[l].from = life[l].from /\ life'[l].to = life[l].to
      BY <2>0, <2>b DEF JobFinishes, Live, Life
    <3>2. LifeBound(life'[l], now, reservation)
      BY <2>0, <3>1 DEF LifeBound
    <3> QED  BY <2>w, <3>1, <3>2
  <2>5. ASSUME NEW l \in Leases, WorkerStops(l) PROVE NoneOutrun'
    <3>1. /\ UNCHANGED <<now, outrun>> /\ \A k \in Leases \ {l} : life'[k] = life[k]
          /\ life[l].phase = "live" /\ life'[l].phase = "gone"
          /\ life'[l].from = life[l].from /\ life'[l].to = now
          /\ life[l].to \in Nat /\ life[l].from \in Nat
      BY <2>0, <2>5 DEF WorkerStops, Live, Life
    <3>2. LifeBound(life'[l], now, reservation)
      BY <2>0, <3>1 DEF LifeBound
    <3> QED  BY <2>w, <3>1, <3>2
  <2>6. ASSUME NEW l \in Leases, Reserve(l) PROVE NoneOutrun'
    <3> DEFINE held == [phase |-> "held", from |-> now, finish |-> 0, to |-> 0]
    <3>1. /\ UNCHANGED <<now, outrun>>
          /\ \/ life' = life \/ life' = [life EXCEPT ![l] = held]
             \/ life' = [life EXCEPT ![l] = Void]
      BY <2>6 DEF Reserve
    <3>2. LifeBound(held, now, reservation)
      BY DEF LifeBound
    <3> HIDE DEF held
    <3> QED  BY <2>0, <2>g, <2>v, <2>w, <3>1, <3>2
  <2>7. ASSUME NEW l \in Leases, NEW t, Settle(l, t) PROVE NoneOutrun'
    <3>1. UNCHANGED <<now, life>> /\ l \in Gone
          /\ (outrun' = outrun \/ outrun' = outrun \cup ({l} \cap Live))
      BY <2>7 DEF Settle
    <3>2. l \notin Live
      BY <3>1 DEF Live, Gone
    <3> QED  BY <2>0, <3>1, <3>2 DEF NoneOutrun
  <2>8. ASSUME NEW l \in Leases, Forfeit(l) PROVE NoneOutrun'
    <3>1. /\ UNCHANGED <<now, outrun>>
          /\ life' = life \/ \E f \in GivenUp : life' = [life EXCEPT ![l] = f]
      BY <2>8 DEF Forfeit
    <3> QED  BY <2>0, <2>g, <2>w, <3>1
  <2>9. ASSUME NEW l \in Leases, Release(l) PROVE NoneOutrun'
    <3>1. UNCHANGED <<now, outrun>> /\ life' = [life EXCEPT ![l] = Void]
      BY <2>9 DEF Release
    <3> QED  BY <2>0, <2>g, <2>v, <2>w, <3>1
  <2>10. ASSUME NEW l \in Leases, Adopt(l) PROVE NoneOutrun'
    <3> DEFINE full == DurationSeconds(reservation) * TicksPerSecond
    <3>1. /\ UNCHANGED <<now, life>> /\ life[l].phase \in {"live", "gone"}
          /\ \/ outrun' = outrun \/ outrun' = outrun \ {l}
             \/ full < life[l].to - life[l].from
      BY <2>10 DEF Adopt, Live, Gone
    <3>2. full >= reservation /\ full \in Nat
      BY <2>0, DurationCovers, BudgetConstants DEF BudgetConstants
    <3> HIDE DEF full
    <3>3. life[l].to - life[l].from <= reservation /\ life[l].to - life[l].from \in Int
      BY <2>0, <3>1 DEF LifeBound, Life
    <3>4. outrun' = {}
      BY <2>0, <3>1, <3>2, <3>3
    <3> QED  BY <2>0, <3>1, <3>4 DEF NoneOutrun
  <2>11. ASSUME NEW S \in SUBSET Leases, Reconcile(S) PROVE NoneOutrun'
    <3>1. /\ UNCHANGED <<now, life>>
          /\ \A l \in Live \ S : ~(l \in Active(entries) /\ entries[l].confirmed)
          /\ outrun' = outrun \cup {l \in (Live \cap Active(entries)) \ S : entries[l].confirmed}
      BY <2>11 DEF Reconcile
    <3>2. outrun' = {}
      BY <2>0, <3>1
    <3> QED  BY <2>0, <3>1, <3>2 DEF NoneOutrun
  <2>12. CASE UNCHANGED vars
    BY <2>0, <2>12 DEF vars, NoneOutrun
  <2> QED  BY <2>1, <2>2, <2>3, <2>4, <2>5, <2>6, <2>7, <2>8, <2>9, <2>10, <2>11, <2>12,
              <2>a, <2>b DEF Next
<1>3. NoneOutrun => outrun = {}
  BY DEF NoneOutrun
<1> QED  BY <1>1, <1>2, <1>3, TypeCorrect, PTL DEF Spec

(* Under the same assumptions, every entry the ledger holds charges at     *)
(* least the chargeable run of its worker, without exception.              *)
THEOREM EveryRunCharged ==
    ASSUME "unseen" \notin Faults, \A q, r \in Lifetimes : q = r
    PROVE  Spec => [](\A l \in DOMAIN entries :
                         entries[l].seconds * TicksPerSecond >= OwedSince(l, 0))
<1>1. TypeOK /\ outrun = {} /\ ChargeCoversRun
         => \A l \in DOMAIN entries : entries[l].seconds * TicksPerSecond >= OwedSince(l, 0)
  BY DEF TypeOK, IsLedger, ChargeCoversRun
<1> QED  BY <1>1, TypeCorrect, NothingOutrun, ChargesCoverRuns, PTL
=============================================================================
