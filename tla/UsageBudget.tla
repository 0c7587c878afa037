---------------------------- MODULE UsageBudget ----------------------------
(***************************************************************************)
(* The durable usage ledger of controller/usage_budget.go: every launch    *)
(* reserves one full maximum lifetime, a finished worker is settled at its *)
(* actual lifetime, and what was charged counts until it leaves a rolling  *)
(* window.                                                                 *)
(*                                                                         *)
(* Time is a number of ticks, TicksPerSecond of them to a second, because  *)
(* the code compares instants exactly but charges whole seconds, rounded   *)
(* up.  The ledger is a function from the lease ids it holds to entries:   *)
(* reserve and adopt look a lease up before they append, so the slice of   *)
(* the code holds each lease once.                                         *)
(*                                                                         *)
(* The workers themselves (life) are not part of the ledger.  They record  *)
(* when compute really ran and when the job on it finished, and they bring *)
(* the calls in the order in which scaler.go makes them: a lease is        *)
(* released only when nothing was launched, and its worker is destroyed    *)
(* before it is settled.  Faults names what may break that order.          *)
(***************************************************************************)
EXTENDS Integers, FiniteSetsExt

CONSTANTS Leases,           \* lease ids the controller may generate
          Limit,            \* RUNNER_USAGE_BUDGET, in ticks
          Window,           \* RUNNER_BUDGET_WINDOW, in ticks
          Lifetimes,        \* RUNNER_MAX_LIFETIME of the configurations, in ticks
          MayRaise,         \* may a restart raise RUNNER_MAX_LIFETIME?
          Faults,           \* what may go wrong, among those below
          Longest,          \* longestReservation, in ticks
          TicksPerSecond,
          Shutdown,         \* the deadline precedes the reservation's end by this
          Grace,            \* workerTeardownGrace, in ticks
          MaxTime           \* bound: the clock stops here

(* "write": writing the state file fails.  "slow": a launch reaches the    *)
(* provider more than Shutdown after its reservation.  "late": a create    *)
(* that failed, or that a crash cut short, takes effect afterwards.        *)
(* "unseen": a listing misses a running worker or shows a destroyed one,   *)
(* or a deletion that failed is taken for done.                            *)
AllFaults == {"write", "slow", "late", "unseen"}

(* RUNNER_MAX_LIFETIME is at least a minute, and at most the budget and    *)
(* longestReservation; the deadline is 30 seconds short of it.             *)
ASSUME BudgetConstants ==
    /\ TicksPerSecond \in Nat \ {0}
    /\ Longest \in Nat /\ Limit \in Nat /\ Window \in Nat /\ Shutdown \in Nat
    /\ Grace \in Nat /\ MaxTime \in Nat
    /\ MayRaise \in BOOLEAN /\ Faults \subseteq AllFaults
    /\ Lifetimes \subseteq {r \in Nat : Shutdown < r /\ r <= Longest /\ r <= Limit}
    /\ Lifetimes # {}

VARIABLES now,          \* the controller's clock
          status,       \* "down", "recovering", "serving", or "refused" at start-up
          reservation,  \* RUNNER_MAX_LIFETIME of the current configuration
          entries,      \* usageBudget.entries, in memory
          disk,         \* the entries in the state file
          life,         \* what really happened to each lease's worker
          outrun        \* leases whose worker may outrun its charge

vars == <<now, status, reservation, entries, disk, life, outrun>>
----------------------------------------------------------------------------
(* Entries and the arithmetic on them. *)

Entry == [started: Nat, charged: Nat, seconds: Nat, active: BOOLEAN,
          confirmed: BOOLEAN]

Empty == [l \in {} |-> 0]

(* Mutant: rounds down. *)
DurationSecondsFloor(d) == d \div TicksPerSecond

(* The smallest number of whole seconds that is at least d ticks. *)
DurationSeconds(d) == -((-d) \div TicksPerSecond)

(* Mutant: the lower bound of one second is lost. *)
LargerUnbounded(a, b) == b

Larger(a, b) == IF a < b THEN b ELSE a

Smaller(a, b) == IF a < b THEN a ELSE b

(* Mutant: counts back from the start. *)
ExpiresBefore(e) == e.started - e.seconds * TicksPerSecond

ExpiresAt(e) == e.started + e.seconds * TicksPerSecond

With(ledger, l, e) ==
    [k \in DOMAIN ledger \cup {l} |-> IF k = l THEN e ELSE ledger[k]]

Without(ledger, l) == [k \in DOMAIN ledger \ {l} |-> ledger[k]]

Active(ledger) == {l \in DOMAIN ledger : ledger[l].active}

UsedSeconds(ledger) == MapThenSumSet(LAMBDA l : ledger[l].seconds, DOMAIN ledger)

(* Mutant: every closed lease costs the least there is. *)
ElapsedLeast(e, stop) == Smaller(e.seconds, 1)

(* What a lease that began with e.started and ended at stop costs. *)
Elapsed(e, stop) == Smaller(e.seconds, Larger(1, DurationSeconds(stop - e.started)))

(* A reservation that ran out is charged in full at the instant it ran out. *)
Expire(e) ==
    IF e.active /\ now >= ExpiresAt(e)
    THEN [e EXCEPT !.active = FALSE, !.charged = ExpiresAt(e)]
    ELSE e

Pruned(ledger) ==
    LET expired == [l \in DOMAIN ledger |-> Expire(ledger[l])]
        kept == {l \in DOMAIN ledger :
                    expired[l].active \/ expired[l].charged >= now - Window}
    IN  [l \in kept |-> expired[l]]

(* What start-up accepts: validate. *)
Valid(ledger, r) ==
    \A l \in DOMAIN ledger :
        LET e == ledger[l]
        IN  /\ 1 <= e.seconds /\ e.seconds <= DurationSeconds(Longest)
            /\ e.active => e.seconds >= DurationSeconds(r)
            /\ ~e.active => e.charged >= e.started
----------------------------------------------------------------------------
(* The workers (external).  A held lease has a reservation and no worker   *)
(* yet, a coming one is given up but may still get a worker, and a void    *)
(* one never gets any.  from is when the worker began to run (when it was  *)
(* reserved, while it is held), to when it ended or, before that, when it  *)
(* has to end, and finish when its job finished, 0 for not yet.            *)

Fresh == [phase |-> "fresh", from |-> 0, finish |-> 0, to |-> 0]

Live == {l \in Leases : life[l].phase = "live"}

Gone == {l \in Leases : life[l].phase = "gone"}

Held == {l \in Leases : life[l].phase = "held"}

(* Launch: the deadline is counted from here, not from the reservation. *)
WorkerStarts(l) ==
    /\ status = "serving" /\ l \in Held
    /\ now <= life[l].from + Shutdown \/ "slow" \in Faults
    /\ life' = [life EXCEPT ![l] = [phase |-> "live", from |-> now, finish |-> 0,
                                    to |-> now + (reservation - Shutdown)]]
    /\ UNCHANGED <<now, status, reservation, entries, disk, outrun>>

(* What becomes of a lease that is given up before its worker was seen. *)
Void == [phase |-> "void", from |-> 0, finish |-> 0, to |-> 0]

Coming == [phase |-> "coming", from |-> 0, finish |-> 0,
           to |-> now + (reservation - Shutdown)]

GivenUp == IF "late" \in Faults THEN {Void, Coming} ELSE {Void}

WorkerAppears(l) ==
    /\ life[l].phase = "coming"
    /\ life' = [life EXCEPT ![l] = [phase |-> "live", from |-> now, finish |-> 0,
                                    to |-> Larger(now, life[l].to)]]
    /\ UNCHANGED <<now, status, reservation, entries, disk, outrun>>

JobFinishes(l) ==
    /\ l \in Live /\ life[l].finish = 0 /\ life[l].from < now
    /\ life' = [life EXCEPT ![l].finish = now]
    /\ UNCHANGED <<now, status, reservation, entries, disk, outrun>>

(* The runner exits, is destroyed, or reaches its deadline: before the end *)
(* of its job, at it, or after it (the diagnostic hold).                   *)
WorkerStops(l) ==
    /\ l \in Live
    /\ life' = [life EXCEPT ![l].phase = "gone", ![l].to = now]
    /\ UNCHANGED <<now, status, reservation, entries, disk, outrun>>

(* A worker enforces its own deadline: the clock does not pass it.  *)
Tick ==
    /\ now < MaxTime
    /\ \A l \in Live : now < life[l].to
    /\ now' = now + 1
    /\ UNCHANGED <<status, reservation, entries, disk, life, outrun>>
----------------------------------------------------------------------------
(* persist: the file is replaced by a rename.  A failure before the rename *)
(* leaves the old file, one after it (the directory sync) the new; in both *)
(* the caller restores what it remembers.                                  *)

Persist(new, restored) ==
    \/ entries' = new /\ disk' = new
    \/ "write" \in Faults /\ entries' = restored /\ disk' \in {disk, new}

Reserve(l) ==
    /\ status = "serving" /\ life[l].phase = "fresh"
    /\ LET pruned == Pruned(entries)
           requested == DurationSeconds(reservation)
           used == UsedSeconds(pruned)
           limit == DurationSeconds(Limit)
           new == With(pruned, l, [started |-> now, charged |-> now,
                      seconds |-> requested, active |-> TRUE, confirmed |-> FALSE])
       IN  /\ l \notin DOMAIN pruned
           /\ \/ /\ used > limit \/ requested > limit - used
                 /\ entries' = pruned /\ UNCHANGED <<disk, life>>
              \/ /\ used <= limit /\ requested <= limit - used
                 /\ Persist(new, pruned)
                 /\ life' = [life EXCEPT ![l] =
                                IF entries' = new
                                THEN [phase |-> "held", from |-> now, finish |-> 0, to |-> 0]
                                ELSE Void]
    /\ UNCHANGED <<now, status, reservation, outrun>>

(* Mutant: the teardown grace is lost. *)
WorkerStoppedAtFinish(finished) == finished

(* When the worker of a job that finished then is taken to have stopped. *)
WorkerStoppedAt(finished) == IF finished = 0 THEN 0 ELSE finished + Grace

(* settleAt, with the stop time of finishRetirement: that of JobCompleted, *)
(* or the zero time, written 0.  The worker was destroyed before, or was   *)
(* not in the listing.                                                     *)
Settle(l, stoppedAt) ==
    /\ status \in {"serving", "recovering"} /\ l \in Active(entries)
    /\ l \in Gone \/ (l \in Live /\ "unseen" \in Faults)
    /\ LET e == entries[l]
           stop == IF stoppedAt = 0 \/ stoppedAt < e.started \/ stoppedAt > now
                   THEN now ELSE stoppedAt
           settled == [e EXCEPT !.active = FALSE, !.charged = now,
                                !.seconds = Elapsed(e, stop)]
       IN  Persist(Pruned(With(entries, l, settled)), entries)
    /\ outrun' = IF <<entries, disk>>' = <<entries, disk>> THEN outrun
                ELSE outrun \cup ({l} \cap Live)
    /\ UNCHANGED <<now, status, reservation, life>>

(* forfeit: a launch whose outcome is unknown.  Its worker may run, or     *)
(* come to run later.                                                      *)
Forfeit(l) ==
    /\ status \in {"serving", "recovering"} /\ l \in Active(entries)
    /\ l \in Live => "unseen" \in Faults
    /\ Persist(With(entries, l, [entries[l] EXCEPT !.active = FALSE, !.charged = now]),
               entries)
    /\ \/ l \notin Held /\ UNCHANGED life
       \/ l \in Held /\ \E f \in GivenUp : life' = [life EXCEPT ![l] = f]
    /\ UNCHANGED <<now, status, reservation, outrun>>

Release(l) ==
    /\ status = "serving" /\ l \in Held
    /\ \/ l \in Active(entries) /\ Persist(Without(entries, l), entries)
       \/ l \notin Active(entries) /\ UNCHANGED <<entries, disk>>
    /\ life' = [life EXCEPT ![l] = Void]
    /\ UNCHANGED <<now, status, reservation, outrun>>

(* adopt: a lease the ledger does not hold is appended without a look at   *)
(* the limit, and that append is not undone when the write fails.          *)
Adopt(l) ==
    /\ status \in {"serving", "recovering"}
    /\ l \in Live \/ (l \in Gone /\ (l \in Active(entries) \/ "unseen" \in Faults))
    /\ LET full == DurationSeconds(reservation)
           fresh == [started |-> life[l].from, charged |-> life[l].from,
                     seconds |-> full, active |-> TRUE, confirmed |-> TRUE]
       IN  \/ /\ l \in Active(entries) /\ entries[l].confirmed
              /\ UNCHANGED <<entries, disk>>
           \/ /\ l \in Active(entries) /\ ~entries[l].confirmed
              /\ Persist(With(entries, l, [entries[l] EXCEPT !.confirmed = TRUE,
                                              !.seconds = Larger(@, full)]), entries)
           \/ /\ l \in DOMAIN entries /\ ~entries[l].active
              /\ Persist(With(entries, l, fresh), entries)
           \/ /\ l \notin DOMAIN entries
              /\ Persist(With(entries, l, fresh), With(entries, l, fresh))
    /\ LET anew == l \notin Active(entries)
           short == DurationSeconds(reservation) * TicksPerSecond < life[l].to - life[l].from
       IN  outrun' = IF anew /\ short THEN outrun \cup {l}
                     ELSE IF anew /\ l \in Active(entries') /\ entries' = disk'
                          THEN outrun \ {l} ELSE outrun
    /\ UNCHANGED <<now, status, reservation, life>>

(* reconcile at the end of recovery: active entries of leases the provider *)
(* did not list are closed, confirmed ones at their elapsed time.  What it *)
(* listed has been adopted, and may be gone by now; what it did not list   *)
(* runs only if the listing was wrong or the worker came after it.         *)
Reconcile(listed) ==
    /\ status = "recovering"
    /\ listed \subseteq {l \in (Live \cup Gone) \cap Active(entries) : entries[l].confirmed}
    /\ \A l \in Live \ listed :
          \/ "unseen" \in Faults
          \/ "late" \in Faults /\ ~(l \in Active(entries) /\ entries[l].confirmed)
    /\ LET Close(e) ==
             [e EXCEPT !.active = FALSE, !.charged = now,
                       !.seconds = IF e.confirmed THEN Elapsed(e, now) ELSE e.seconds]
           closed == [l \in DOMAIN entries |->
                         IF entries[l].active /\ l \notin listed
                         THEN Close(entries[l]) ELSE entries[l]]
           new == Pruned(closed)
       IN  \/ new = entries /\ status' = "serving" /\ UNCHANGED <<entries, disk>>
           \/ new # entries /\ entries' = new /\ disk' = new /\ status' = "serving"
           \/ new # entries /\ "write" \in Faults /\ entries' = Empty /\ disk' \in {disk, new}
              /\ status' = "down"
    /\ outrun' = outrun \cup {l \in (Live \cap Active(entries)) \ listed : entries[l].confirmed}
    /\ UNCHANGED <<now, reservation, life>>
----------------------------------------------------------------------------
(* The process.  A launch in flight when it ends may take effect later. *)

Stop ==
    /\ status \in {"serving", "recovering"}
    /\ status' = "down"
    /\ \E F \in [Held -> GivenUp] :
          life' = [l \in Leases |-> IF l \in Held THEN F[l] ELSE life[l]]
    /\ entries' = Empty
    /\ UNCHANGED <<now, reservation, disk, outrun>>

(* newUsageBudget with the configured lifetime r. *)
NewUsageBudget(r) ==
    /\ status = "down"
    /\ r <= reservation \/ MayRaise
    /\ reservation' = r
    /\ \/ /\ ~Valid(disk, r)
          /\ status' = "refused" /\ UNCHANGED <<entries, disk>>
       \/ /\ Valid(disk, r)
          /\ \/ /\ entries' = Pruned(disk) /\ disk' = Pruned(disk)
                /\ status' = "recovering"
             \/ /\ Pruned(disk) # disk /\ "write" \in Faults
                /\ disk' \in {disk, Pruned(disk)}
                /\ status' = "down" /\ UNCHANGED entries
    /\ UNCHANGED <<now, life, outrun>>

(* InitializeUsageBudget wrote an empty ledger. *)
Init ==
    /\ now = 0
    /\ status = "down"
    /\ reservation \in Lifetimes
    /\ entries = Empty /\ disk = Empty
    /\ life = [l \in Leases |-> Fresh] /\ outrun = {}

Next ==
    \/ Tick
    \/ Stop
    \/ \E r \in Lifetimes : NewUsageBudget(r)
    \/ \E l \in Leases : \/ WorkerStarts(l) \/ WorkerAppears(l)
                         \/ JobFinishes(l) \/ WorkerStops(l)
                         \/ Reserve(l) \/ Forfeit(l) \/ Release(l) \/ Adopt(l)
                         \/ Settle(l, 0) \/ Settle(l, WorkerStoppedAt(life[l].finish))
    \/ \E S \in SUBSET Leases : Reconcile(S)

Spec == Init /\ [][Next]_vars
----------------------------------------------------------------------------
Life == [phase: {"fresh", "held", "coming", "live", "gone", "void"},
         from: Nat, finish: Nat, to: Nat]

IsLedger(f) ==
    /\ DOMAIN f \subseteq Leases
    /\ f = [l \in DOMAIN f |-> f[l]]
    /\ \A l \in DOMAIN f : f[l] \in Entry

(* The clock, the ledger and the workers keep their types; in particular   *)
(* every entry the handlers compute is one the file format can hold, with  *)
(* no negative charge or instant.                                          *)
TypeOK ==
    /\ now \in Nat
    /\ status \in {"down", "recovering", "serving", "refused"}
    /\ reservation \in Lifetimes
    /\ IsLedger(entries) /\ IsLedger(disk)
    /\ life \in [Leases -> Life]
    /\ outrun \subseteq Leases

(* The ledger the controller wrote, whatever write failed and whenever it  *)
(* died, is one that newUsageBudget loads again, also after                *)
(* RUNNER_MAX_LIFETIME was lowered.  (Raised above an active reservation,  *)
(* validate does refuse it.)                                               *)
NeverRefused == status # "refused"

(* Ticks between since and the instant at which l's worker ended, so far   *)
(* or for good.                                                            *)
RanSince(l, since) ==
    LET until == IF l \in Live THEN now ELSE life[l].to
    IN  IF l \in Live \cup Gone THEN Larger(0, until - Larger(life[l].from, since)) ELSE 0

(* The same, but a run ends workerTeardownGrace after its job at the       *)
(* latest: what comes after is not charged (docs/operations.md: "charged   *)
(* from the worker's creation to GitHub's job finish time plus a short     *)
(* teardown grace").                                                       *)
OwedSince(l, since) ==
    LET until == IF l \in Live THEN now ELSE life[l].to
        owed == IF life[l].finish = 0 THEN until
                ELSE Smaller(until, life[l].finish + Grace)
    IN  IF l \in Live \cup Gone THEN Larger(0, owed - Larger(life[l].from, since)) ELSE 0

(* RUNNER_USAGE_BUDGET is a ceiling on compute, not only on entries: the   *)
(* chargeable time that workers ran inside any window stays below the      *)
(* limit that reserve admits against.                                      *)
RollingCap ==
    MapThenSumSet(LAMBDA l : OwedSince(l, now - Window), Leases)
        <= DurationSeconds(Limit) * TicksPerSecond

(* What docs/operations.md says of RUNNER_USAGE_BUDGET: it is "the maximum *)
(* worker runtime inside the rolling RUNNER_BUDGET_WINDOW".                *)
RuntimeCap ==
    MapThenSumSet(LAMBDA l : RanSince(l, now - Window), Leases)
        <= DurationSeconds(Limit) * TicksPerSecond

(* As long as an entry is in the ledger, in memory or on disk, it charges  *)
(* at least the chargeable time its worker ran: settling, expiring,        *)
(* reconciling and rounding never undercharge.  Two leases are excepted:   *)
(* one that was closed while its worker ran, because a listing missed it,  *)
(* until adopt reopens it; and one that adopt reopened after the lifetime  *)
(* was lowered, with less than its worker may run.                         *)
ChargeCoversRun ==
    \A l \in Leases \ outrun :
        /\ l \in DOMAIN entries => entries[l].seconds * TicksPerSecond >= OwedSince(l, 0)
        /\ l \in DOMAIN disk => disk[l].seconds * TicksPerSecond >= OwedSince(l, 0)
=============================================================================
