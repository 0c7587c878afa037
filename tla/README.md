# A TLA+ model of runneryard

runneryard starts one-job GitHub Actions runners on cloud machines and takes
them away again. Its controller keeps four places in agreement that fail
independently: two files of its own, the compute provider, and GitHub. These
modules model that agreement, TLC checks them on small instances, and TLAPS
proves the ledger's properties for all sizes.

## The system and its parts

| Part | Source | Model |
| --- | --- | --- |
| Usage budget ledger: reserves a full lifetime per launch, charges what was used, limits a rolling window | `controller/usage_budget.go` | `UsageBudget`, `UsageBudgetProofs` |
| Scaler: launches, retires, reconciles, recovers | `controller/scaler.go` | `Scaler` |
| Retirement journal: what is to be taken apart, written first | `controller/retirement_queue.go` | `journal` in `Scaler` |
| Worker state: the fleet in memory | `controller/state.go` | `fleet`, `missing` in `Scaler` |
| What a lease costs, as a promise | the two above | `LeaseCharge` |
| Launch gate, probe timer, waking session | `controller/scaler.go`, `controller/wake.go` | not yet |
| Sessions, scale-set routing | `controller/controller.go`, `controller/scale_sets.go` | not yet |
| Conditions, alerts, status | `controller/conditions.go`, `alert.go`, `status.go` | not yet |
| Provider contract, retries, limiter | `provider/` | error classes only, as faults of `Scaler` |
| Host pool and placement | `pool/` | not yet |
| Host agent | `hostagent/` | not yet |
| Merge queue | `mergequeue/` | not yet |
| Fly and Hetzner adapters, registry, GitHub App set-up, command line, web site | the rest | not modelled: request building, parsing, prompts |

GitHub's listener calls three handlers, one at a time behind `handlerMu`.
`HandleDesiredRunnerCount` reconciles with the provider's inventory and then
launches, several launches at once. `HandleJobStarted` marks a worker busy.
`HandleJobCompleted` retires it. Each launch and each retirement writes the
journal and the ledger around its calls to the provider and to GitHub.

## UsageBudget

`entries` is the ledger in memory and `disk` the state file, both functions
from lease ids to entries. Reserve, Settle, Forfeit, Release, Adopt, Reconcile
and NewUsageBudget are the methods of `usageBudget`. `Persist` is the rename:
when writing fails, the file is the old or the new one and memory is what the
method restores. The exception is kept: an append by `adopt` is not undone.

`life` is not in the code. It records when each worker really ran and when its
job finished, so that properties can compare charges with compute, and it
keeps the calls in the order `scaler.go` makes them. A lease is `fresh`, then
`held` while its launch is in flight, `live` while its worker runs and `gone`
after it; a launch that is given up is `void`, or `coming` if it may still take
effect. A worker runs until its deadline at the latest, as `startWorker` asks
the provider, and may run on after its job finished: settlement does not wait
for the moment it stopped. `Settle` is called with the zero time (stopped
workers, timeouts, pending retirements) or with the job's finish time plus
`Grace` (`workerTeardownGrace`), as `HandleJobCompleted` does.

What breaks the usual order is a constant, `Faults`:

| Fault | Stands for |
| --- | --- |
| `write` | writing the state file fails, before or after the rename |
| `slow` | a launch reaches the provider more than `Shutdown` after its reservation |
| `late` | a create that failed, or that a crash cut short, takes effect afterwards |
| `unseen` | a listing misses a running worker or shows a destroyed one, or a failed deletion is taken for done |

`outrun` is a history variable: the leases that were closed while their worker
ran, because of `unseen`, until `adopt` reopens them, and the leases `adopt`
reopened after `RUNNER_MAX_LIFETIME` was lowered, with less than their worker
may still run. Nothing in the code knows of these, and their charge can fall
short; all other charges may not.

Time is counted in ticks, `TicksPerSecond` to the second: the code compares
exact instants but charges whole seconds, rounded up. A worker *owes* the time
it ran, up to `Grace` after its job: the documentation says a completed job is
charged to its finish time "plus a short teardown grace".

| Property | Says |
| --- | --- |
| `TypeOK` | types, no negative charge |
| `NeverRefused` | the controller's own ledger always loads again, also after the lifetime was lowered |
| `RollingCap` | what workers owe for any window stays within the limit |
| `RuntimeCap` | the same for all the time they ran (violated) |
| `ChargeCoversRun` | an entry, in memory or on disk, never charges less than its worker owes, unless the lease is in `outrun` |

## Scaler

One lease id names everything made for it, so every variable is a function of
leases: `journal` and `ledger` (files), `worker`, `reg` and `job` (the world),
`fleet` and `missing` (memory), `call` (the launch or retirement in progress).
One step is one durable write or one call, and `Crash` may fall between any
two. `ctl`, `mode`, `snap` and `todo` are the handler thread: which handler it
runs, the inventory it works from, and what is left of its loop.

Failures come from `Faults`, at most `MaxFaults` of them:

| Fault | Stands for |
| --- | --- |
| `transient`, `rejected`, `denied`, `capacity` | the classes of a failed create |
| `late`, `partial` | a failed create that takes effect later; one that names its worker |
| `provider` | a transient failure of inventory or deletion |
| `lag` | an inventory that misses a running worker |
| `github` | a failed GitHub call |
| `write` | a failed write of journal or ledger, before or after its rename |
| `crash` | the process dies |

A failed write ends the controller once the launches in flight have returned.
Until then another launch may write the same file from memory, so either
outcome can be on disk at the end; the step that fails chooses.

Ages are 0 (young), 1 (past `RUNNER_DANGLING_TIMEOUT`) and 2 (past
`RUNNER_MAX_LIFETIME`). The demand and the launch gate only reduce the number
of launches; the model starts any number up to the ceiling.

| Property | Says |
| --- | --- |
| `TypeOK` | types; no cycle plans more than `MAX_RUNNERS` launches |
| `NoFreeCompute` | a worker that exists is charged for |
| `NothingLost` | between handlers every worker is recorded or journaled |
| `Ceiling` | no more workers run than `MAX_RUNNERS` |
| `RegistrationOutlivesWorker` | a registration is removed only when its worker is gone |
| `JobsSurvive` | while a job runs, the end of its worker is decided only by age: the maximum lifetime, or the dangling timeout if this process launched it and read no JobStarted |
| `KeepsServing` | the passing failures of a run never end a serving controller |
| `RetirementsFinish`, `WorkersEnd` | journaled retirements finish; workers end |
| `ChargesAsPromised` | `Scaler` implements `LeaseCharge` |

`JobsSurvive` excepts one more end of a job: the forfeit entry of a launch that
was never committed is carried out, and destroys the worker, even if a
reconciliation has adopted the worker in the meantime.

Not every property survives every fault. The inventory is all the controller
knows of the provider, and a fault that makes it wrong shows:

| Property | `late` | `lag` | `partial` |
| --- | --- | --- | --- |
| `NoFreeCompute` | holds | broken: recovery settles what it does not list | holds |
| `NothingLost` | broken until the next reconciliation | broken likewise | broken: see `ScalerPartial` |
| `Ceiling` | broken: the late worker is not counted | broken likewise | holds |
| `RegistrationOutlivesWorker` | broken: absence was proved too early | broken likewise | broken: see `ScalerPartial` |
| `ChargesAsPromised` | holds | broken: settled while it runs | holds |
| `JobsSurvive` | holds | broken: a missing worker is retired | holds |

The runs check each property where it is meant to hold: the first four without
these three faults, the last two with `late` and `partial`. `RetirementsFinish`
and `WorkersEnd` are checked with all of them.

`LeaseCharge` says what a lease may cost: compute only while the charge is
held or forfeited, a refund or a settlement once and only without compute. The
refinement mapping reads the charge off the ledger; an entry that is absent is
new before its reservation was tried and refunded afterwards.

## Runs

| Run | Instance | Result |
| --- | --- | --- |
| `UsageBudget` | 2 leases of 3 s, limit 5 s, window 6 s, failing writes | pass |
| `UsageBudgetFaults` | 1 lease, 2 lifetimes, half-second ticks, all faults | pass |
| `ScalerCrash` | 2 leases at once, 3 failures of 6 kinds | pass |
| `ScalerCeiling` | 2 leases, room for 1, 2 failures | pass |
| `ScalerPromise` | 1 lease, 4 failures of 10 kinds | pass |
| `ScalerServing` | 2 leases, speculation, 2 provider failures | pass |
| `ScalerLive` | 1 lease, 3 failures of 11 kinds, fairness | pass |
| `UsageBudgetRuntime` | as `UsageBudget` | violates `RuntimeCap` |
| `ScalerPartial` | partial create, then a failed deletion | violates `RegistrationOutlivesWorker` |
| `ScalerSpare` | ambiguous create, failed inventory, then speculation | violates `Ceiling` |
| `ScalerClash` | a stopped worker retired while a forfeit entry is pending | violates `KeepsServing` |
| `ScalerRejection` | a permanent rejection | violates `RejectionRefunded` |

The last five are places where the code and its documentation disagree;
`PROJECT.json` quotes the lines under `findings`.

- `UsageBudgetRuntime`: a worker runs from 0 to 3, its job finishes at 1 and is
  settled at 2 s; the second lease fits, runs 3 s, and 6 s of runtime fall into
  a window with a limit of 5. `RollingCap` holds for the same instance.
- `ScalerPartial`: the deletion of a partial worker fails, which `retireWorker`
  reports as success; its registration goes while it runs.
- `ScalerSpare`: the inventory of `cleanupAmbiguousLaunch` fails, so the worker
  is journaled only, and speculation does not count it.
- `ScalerClash`: that inventory and the retried deletion fail, the worker stops,
  and the same scan retires it with another disposition than the pending one.
- `ScalerRejection`: a rejected launch is charged for a full lifetime.

They also say how far the passing runs reach: `Ceiling` is checked without
speculation, `RegistrationOutlivesWorker` without partial creates, and
`KeepsServing` with failures of inventory, deletion and capacity only. Adding
crashes or ambiguous creates to the latter brings back the clash of
`ScalerClash`; adding GitHub failures ends the controller, as every error of a
handler does.

### Bounds

- `Leases`: an id is used once. Two let launches overlap, and one worker wait
  for the room of another.
- `Limit`, `Window` and `Lifetimes` of `UsageBudget`: one lifetime fits into the
  limit and two do not, so the second lease is admitted beside the first only
  if that was settled for less; the window is longer than the limit, so two
  full runs that fell into it would exceed it. A ledger that settles every run
  at one second breaks `RollingCap` here.
- `UsageBudgetFaults`: two ticks to the second make rounding visible, a window
  shorter than the longer lifetime lets `adopt` find its entry gone, and a
  `Shutdown` of one tick separates slow launches from others.
- `MaxFaults`: three failures are what the longest known failure sequence
  takes (a create, its cleanup, the retry). `ScalerPromise` goes to four.
- `MaxAge`: 2 in the one-lease runs; 1 in `ScalerCeiling` and `ScalerServing`,
  which leaves the maximum lifetime to those; 0 in `ScalerCrash`, where workers
  are retired because their job completed, they stopped or their launch failed.
- `MaxTime`: long enough for a reservation, its expiry and its departure from
  the window.
- The ledger may run out of ticks and leases, so its runs allow a deadlock.
  The scaler's runs do not: GitHub keeps sending the desired count.
- Lease ids are interchangeable: the safety runs use symmetry, `ScalerLive`
  has one lease and none.

### Fairness

`ScalerLive` uses `FairSpec`. Handlers go on once begun (`HandlerStep`), the
process is restarted when it ended (`Start`; the deployment restarts it),
desired counts keep arriving (`HandleDesiredRunnerCount`; the listener hands on
the last statistics after an empty poll), GitHub and the provider finish what
they began, and time passes. Jobs need not end, workers need not exit, and
messages need not arrive: a hung worker is ended by its age alone.

## Proofs

`UsageBudgetProofs` proves for all constants that satisfy `BudgetConstants`:

- `TypeCorrect`: `Spec => []TypeOK`.
- `LedgerLoads`: `Spec => []NeverRefused`, assuming that restarts never raise
  the lifetime: `validate` refuses active entries smaller than a raised one.
  `NeverRefused` is not inductive, since it only looks at the outcome of a
  start-up. `Loadable` adds what `validate` will look at: entries on disk and
  in memory are `Sound`, that is, charged between one second and the longest
  reservation, at least the current lifetime while active, and not before
  their start.
- `ChargesCoverRuns`: `Spec => []ChargeCoversRun`, with all faults and any
  lifetimes. The invariant `Covered` says for each phase of a worker what its
  entry must hold: a held, coming or live one enough for the latest instant up
  to which it may come to owe (`Owes`), a gone one enough for what it owes. It
  needs that a live worker is within its deadline and a gone one ended by now
  (`LifeOK`), that an active entry starts no later than its worker did, and that
  the entry of a worker not seen yet is unconfirmed, so that reconcile charges
  it in full. Since a failed write leaves memory and file apart, all of it is
  said of both.
- `NothingOutrun`: with one lifetime and without `unseen`, `outrun` stays empty.
  So crashes, failed writes, slow launches and late creates except no lease.
- `EveryRunCharged`: under these assumptions every entry in memory charges at
  least what its worker owes.

That settlement charges enough is proved from the code's arithmetic and the
stop time it is given, not assumed: `Settle` may be called whenever the worker
is gone, with its job's finish time plus the grace however long the worker ran
on. The lemmas are about rounding (`DurationCovers`, `DurationMonotone`,
`SettledSeconds`), about what pruning, writing and giving up preserve
(`CoveredPruned`, `CoveredWith`, `CoveredPersist`, `GivenUpLife`), and about
closing an entry (`ClosedCovers`).

`RollingCap` sums over the ledger and needs induction over finite sets, which
stays with TLC, as do liveness, the scaler's invariants and the refinement.

## Not modelled, and the plan

Reporting, logging, file permissions and the JSON encoding are left out.
Registration ids are abstracted to the lease, so the identity checks of
`validateWorkerRetirementProof` always hold. Clocks do not jump.

Next, in this order:

1. `LaunchGate`: ceiling, backoff, probe timer and its token, with proofs.
2. Sessions and scale-set routing around the handlers; departures.
3. The host pool with placement: slots, growth, return, late starts, suspects.
4. The host agent's slots.
5. The merge queue: planning, bisection, crash points of a tick.
6. Retry policy, limiter, conditions and alert queue.
7. Proofs for `Scaler`: an inductive invariant for `NoFreeCompute`, then the
   refinement of `LeaseCharge`.
