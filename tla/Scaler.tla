------------------------------- MODULE Scaler -------------------------------
(***************************************************************************)
(* The lifecycle of a lease in controller/scaler.go: reserve, register,    *)
(* launch, adopt, retire, through crashes, restarts and failing calls.     *)
(*                                                                         *)
(* A lease id names everything made for it: its ledger entry, its journal  *)
(* entry, its GitHub registration (runner-<lease>), its provider worker    *)
(* and its record in the controller's memory.  One step of the model is    *)
(* one durable write or one call to the provider or to GitHub, so that a   *)
(* crash can fall between any two of them.  Handlers take turns on         *)
(* handlerMu; inside HandleDesiredRunnerCount up to Concurrency launches   *)
(* run at the same time, each with its own program counter.                *)
(*                                                                         *)
(* Left out: status reporting, logging and the departures kept for it;     *)
(* the launch gate and the demand, which only bound how many workers a     *)
(* cycle starts (any number up to the ceiling is started here); the        *)
(* amounts in the ledger (module UsageBudget).                             *)
(***************************************************************************)
EXTENDS Integers, FiniteSets

CONSTANTS Leases,       \* lease ids the controller may generate
          MaxWorkers,   \* MAX_RUNNERS
          Concurrency,  \* launchConcurrency
          Speculates,   \* does the compute have spare pool room?
          Faults,       \* the kinds of failure that may happen
          MaxFaults,    \* bound: how many failures happen
          MaxAge        \* bound: how old a lease gets

FaultKinds == {"transient", "rejected", "denied", "capacity", "partial", "late",
               "provider", "github", "write", "lag", "crash"}

ASSUME ScalerConstants ==
    /\ MaxWorkers \in Nat /\ Concurrency \in Nat \ {0} /\ MaxFaults \in Nat
    /\ Speculates \in BOOLEAN /\ MaxAge \in 0 .. 2
    /\ Faults \subseteq FaultKinds

VARIABLES
    \* durable
    journal,  \* retirementQueue: the disposition journaled for a lease
    ledger,   \* usageBudget: the state of a lease's entry
    \* the world
    worker,   \* the provider's worker
    reg,      \* the GitHub runner registration
    job,      \* the job GitHub gave the runner
    age,      \* 0 young, 1 past the dangling timeout, 2 past the maximum lifetime
    mail,     \* messages GitHub holds until the listener deletes them
    faults,   \* failures so far
    \* the controller's memory
    fleet,    \* workerState.workers: how a lease is recorded
    missing,  \* workerRecord.MissingSince
    used,     \* lease ids generated
    ctl,      \* where the handler thread is
    mode,     \* which handler it runs
    snap,     \* the inventory listing it works from
    todo,     \* what is left of its current loop
    room,     \* launches left to start
    stop,     \* why launchWorkers starts no more
    fatal,    \* a fail-closed error was returned
    call      \* the launch or retirement in progress for a lease

durable == <<journal, ledger>>
world == <<worker, reg, job, age, mail>>
thread == <<ctl, mode, snap, todo, room, stop>>
memory == <<fleet, missing, used, thread, fatal, call>>
vars == <<durable, world, faults, memory>>
----------------------------------------------------------------------------
NoCall == [at |-> "none", err |-> "none", by |-> "none"]

Quiet == \A l \in Leases : call[l].at = "none"

Listed == {l \in Leases : snap[l] # "none"}

(* Mutant: an adopted worker is not counted. *)
RecordedIdle == {l \in Leases : fleet[l] = "idle"}

Recorded == {l \in Leases : fleet[l] # "none"}

(* Mutant: an entry left by an unfinished launch is not retried. *)
JournaledSettling == {l \in Leases : journal[l] = "settle"}

Journaled == {l \in Leases : journal[l] # "none"}

(* Mutant: one launch too many. *)
LargerByOne(a, b) == IF a < b THEN b + 1 ELSE a + 1

Larger(a, b) == IF a < b THEN b ELSE a

(* A failure of this kind happens now. *)
Inject(kind) ==
    /\ kind \in Faults /\ faults < MaxFaults
    /\ faults' = faults + 1

NoFault == UNCHANGED faults

Reserved(e) == e \in {"reserved", "confirmed"}

(* prune: a reservation that ran out is charged in full. *)
Pruned(led) == [l \in Leases |-> IF Reserved(led[l]) /\ age[l] = 2 THEN "forfeited" ELSE led[l]]

Forfeited(led, l) == IF Reserved(led[l]) THEN [led EXCEPT ![l] = "forfeited"] ELSE led

Settled(led, l) ==
    IF Reserved(led[l]) THEN Pruned([led EXCEPT ![l] = "settled"]) ELSE led

(* What Inventory may answer: a listing can lag behind and miss a worker. *)
Present == [l \in Leases |-> IF worker[l] \in {"running", "stopped"} THEN worker[l] ELSE "none"]

Listing(s) ==
    \/ s = Present /\ NoFault
    \/ \E l \in Leases : /\ worker[l] = "running"
                         /\ s = [Present EXCEPT ![l] = "none"] /\ Inject("lag")

(* The process ends; what it held in memory is lost. *)
Exit(how) ==
    /\ ctl' = how /\ mode' = "none"
    /\ fleet' = [l \in Leases |-> "none"] /\ missing' = [l \in Leases |-> "no"]
    /\ snap' = [l \in Leases |-> "none"] /\ todo' = {} /\ room' = 0 /\ stop' = "no"
    /\ call' = [l \in Leases |-> NoCall] /\ fatal' = FALSE
    /\ UNCHANGED used
----------------------------------------------------------------------------
(* Retirement.  retireWorker journals the intent and runs finishRetirement; *)
(* "by" is who waits for the result.                                        *)

(* Mutant: the registration goes first, the worker is left. *)
StartAtRegistration(l, present, by) ==
    call' = [call EXCEPT ![l] = [@ EXCEPT !.at = "unregister", !.by = by]]

StartRetirement(l, present, by) ==
    call' = [call EXCEPT ![l] = [@ EXCEPT !.at = IF present THEN "destroy" ELSE "unregister",
                                          !.by = by]]

(* retireWorker by a handler, to settle the lease: put refuses to change   *)
(* the disposition of an entry that is already journaled.                  *)
RetireWorker(l, present) ==
    \/ /\ journal[l] \in {"none", "settle"} /\ NoFault
       /\ journal' = [journal EXCEPT ![l] = "settle"]
       /\ StartRetirement(l, present, "handler")
       /\ UNCHANGED fatal
    \/ /\ journal[l] = "forfeit" /\ NoFault
       /\ fatal' = TRUE /\ UNCHANGED <<journal, call>>
    \/ /\ Inject("write")
       /\ journal[l] \in {"none", "settle"}
       /\ journal' \in {journal, [journal EXCEPT ![l] = "settle"]}
       /\ fatal' = TRUE /\ UNCHANGED call

EndCall(l) == call' = [call EXCEPT ![l] = NoCall]

(* A launch ends: only a fail-closed error is kept; any error or refusal   *)
(* stops further launches, a ceiling or a rejection also closes the gate.  *)
EndLaunch(l, result) ==
    /\ EndCall(l)
    /\ stop' = CASE result = "started" -> stop
                 [] result \in {"capacity", "rejected"} -> "gate"
                 [] OTHER -> IF stop = "gate" THEN "gate" ELSE "stopped"
    /\ fatal' = (fatal \/ result \in {"fatal", "denied"})

(* errors.Join(launchErr, err): transient when either is. *)
Joined(err) == IF err = "transient" THEN "transient" ELSE "fatal"

(* Mutant: a transient failure is returned to the handler's caller. *)
ReturnStrict(l, result) ==
    IF call[l].by = "handler"
    THEN /\ EndCall(l) /\ fatal' = (fatal \/ result \in {"fatal", "transient"})
         /\ UNCHANGED stop
    ELSE EndLaunch(l, call[l].err)

(* How a retirement's result reaches its caller: retireWorker turns a      *)
(* deferral or a transient failure into success, finishRetirement does not.*)
Return(l, result) ==
    LET by == call[l].by
        err == call[l].err
    IN  CASE by = "handler" ->
               /\ EndCall(l) /\ fatal' = (fatal \/ result = "fatal") /\ UNCHANGED stop
          [] by \in {"jit", "confirm"} -> EndLaunch(l, "fatal")
          [] by \in {"partial", "cleanup"} /\ result = "fatal" -> EndLaunch(l, Joined(err))
          [] by = "partial" ->
               /\ call' = [call EXCEPT ![l] = [@ EXCEPT !.at = "ambiguous"]]
               /\ UNCHANGED <<stop, fatal>>
          [] by = "absent" /\ result # "ok" -> EndLaunch(l, Joined(err))
          [] OTHER -> EndLaunch(l, err)

(* destroyWorker: a failed deletion is checked against the inventory,      *)
(* which can fail too or lag behind.                                       *)
DestroyWorker(l) ==
    /\ call[l].at = "destroy"
    /\ \/ /\ worker' = [worker EXCEPT ![l] = "none"] /\ NoFault
          /\ call' = [call EXCEPT ![l] = [@ EXCEPT !.at = "unregister"]]
          /\ UNCHANGED <<stop, fatal>>
       \/ /\ worker[l] = "running" /\ "lag" \in Faults /\ Inject("provider")
          /\ call' = [call EXCEPT ![l] = [@ EXCEPT !.at = "unregister"]]
          /\ UNCHANGED <<worker, stop, fatal>>
       \/ /\ worker' \in {worker, [worker EXCEPT ![l] = "none"]}
          /\ Inject("provider") /\ Return(l, "transient")
       \/ /\ worker[l] # "none" /\ Inject("denied")
          /\ Return(l, "fatal") /\ UNCHANGED worker
    /\ UNCHANGED <<durable, reg, job, age, mail, fleet, missing, used, ctl, mode, snap, todo, room>>

(* removeRunnerRegistration: GitHub refuses while it counts a job as running. *)
RemoveRegistration(l) ==
    /\ call[l].at = "unregister"
    /\ \/ /\ reg[l] # "busy" /\ NoFault
          /\ reg' = [reg EXCEPT ![l] = "none"]
          /\ call' = [call EXCEPT ![l] = [@ EXCEPT !.at = "charge"]]
          /\ UNCHANGED <<stop, fatal>>
       \/ /\ reg[l] = "busy" /\ NoFault
          /\ Return(l, "deferred") /\ UNCHANGED reg
       \/ /\ reg' \in {reg, [reg EXCEPT ![l] = IF @ = "idle" THEN "none" ELSE @]}
          /\ Inject("github") /\ Return(l, "fatal")
    /\ UNCHANGED <<durable, worker, job, age, mail, fleet, missing, used, ctl, mode, snap, todo, room>>

ChargeLease(l) ==
    LET new == IF journal[l] = "settle" THEN Settled(ledger, l) ELSE Forfeited(ledger, l)
    IN  /\ call[l].at = "charge"
        /\ \/ /\ ledger' = new /\ NoFault
              /\ call' = [call EXCEPT ![l] = [@ EXCEPT !.at = "forget"]]
              /\ UNCHANGED <<stop, fatal>>
           \/ /\ ledger' \in {ledger, new} /\ Inject("write") /\ Return(l, "fatal")
        /\ UNCHANGED <<journal, world, fleet, missing, used, ctl, mode, snap, todo, room>>

ForgetLease(l) ==
    /\ call[l].at = "forget"
    /\ fleet' = [fleet EXCEPT ![l] = "none"] /\ missing' = [missing EXCEPT ![l] = "no"]
    /\ \/ journal' = [journal EXCEPT ![l] = "none"] /\ NoFault /\ Return(l, "ok")
       \/ /\ journal' \in {journal, [journal EXCEPT ![l] = "none"]}
          /\ Inject("write") /\ Return(l, "fatal")
    /\ UNCHANGED <<ledger, world, used, ctl, mode, snap, todo, room>>

(* The cleanup of a launch journals, before it destroys the worker, the    *)
(* entry that is already there: only a failure of that write shows.        *)
PutFails(l) ==
    /\ call[l].at = "destroy" /\ call[l].by \in {"partial", "cleanup", "confirm"}
    /\ Inject("write") /\ Return(l, "fatal")
    /\ UNCHANGED <<durable, world, fleet, missing, used, ctl, mode, snap, todo, room>>

RetirementStep(l) ==
    \/ DestroyWorker(l) \/ RemoveRegistration(l) \/ ChargeLease(l) \/ ForgetLease(l)
    \/ PutFails(l)
----------------------------------------------------------------------------
(* startWorker, for a lease id l not used before. *)

Goto(l, at) == call' = [call EXCEPT ![l] = [@ EXCEPT !.at = at]]

launchFrame == <<missing, used, ctl, mode, snap, todo, room>>

(* launchWorkers starts the goroutine; what it finds stopped is looked up  *)
(* before it starts one, not after.                                        *)
SpawnLaunch(l) ==
    /\ ctl = "launch" /\ room > 0 /\ stop = "no" /\ l \notin used
    /\ Cardinality({k \in Leases : call[k].at # "none"}) < Concurrency
    /\ used' = used \cup {l} /\ room' = room - 1
    /\ Goto(l, "reserve")
    /\ UNCHANGED <<durable, world, faults, fleet, missing, ctl, mode, snap, todo, stop, fatal>>

(* budget.reserve: admitted, refused, or not written. *)
ReserveBudget(l) ==
    LET new == [Pruned(ledger) EXCEPT ![l] = "reserved"]
    IN  /\ call[l].at = "reserve"
        /\ \/ ledger' = new /\ NoFault /\ Goto(l, "preflight") /\ UNCHANGED <<stop, fatal>>
           \/ ledger' = Pruned(ledger) /\ NoFault /\ EndLaunch(l, "refused")
           \/ ledger' \in {ledger, new} /\ Inject("write") /\ EndLaunch(l, "fatal")
        /\ UNCHANGED <<journal, world, fleet, launchFrame>>

Preflight(l) ==
    /\ call[l].at = "preflight"
    /\ \/ Goto(l, "journal") /\ NoFault /\ UNCHANGED <<ledger, stop, fatal>>
       \/ /\ Inject("github") /\ EndLaunch(l, "fatal")
          /\ \/ ledger' = [ledger EXCEPT ![l] = "none"]
             \/ "write" \in Faults /\ UNCHANGED ledger
    /\ UNCHANGED <<journal, world, fleet, launchFrame>>

JournalIntent(l) ==
    /\ call[l].at = "journal"
    /\ \/ /\ journal' = [journal EXCEPT ![l] = "forfeit"] /\ NoFault
          /\ Goto(l, "jit") /\ UNCHANGED <<ledger, stop, fatal>>
       \/ /\ journal' \in {journal, [journal EXCEPT ![l] = "forfeit"]} /\ Inject("write")
          /\ ledger' \in {ledger, Forfeited(ledger, l)}
          /\ EndLaunch(l, "fatal")
    /\ UNCHANGED <<world, fleet, launchFrame>>

(* GenerateJitRunnerConfig, then the journal entry is bound to the         *)
(* registration id.  A failed call may have registered the runner.         *)
GenerateJit(l) ==
    /\ call[l].at = "jit"
    /\ \/ /\ reg' = [reg EXCEPT ![l] = "idle"] /\ NoFault
          /\ Goto(l, "launch") /\ UNCHANGED <<stop, fatal>>
       \/ /\ reg' \in {reg, [reg EXCEPT ![l] = "idle"]} /\ Inject("github")
          /\ Goto(l, "jitfailed") /\ UNCHANGED <<stop, fatal>>
       \/ /\ reg' = [reg EXCEPT ![l] = "idle"]
          /\ Inject("github") \/ Inject("write")
          /\ EndLaunch(l, "fatal")
    /\ UNCHANGED <<durable, worker, job, age, mail, fleet, launchFrame>>

(* cleanupJITGenerationFailure drops the journal entry before it refunds. *)
CleanupJitFailure(l) ==
    /\ \/ /\ call[l].at = "jitfailed" /\ reg[l] = "none" /\ NoFault
          /\ journal' = [journal EXCEPT ![l] = "none"]
          /\ Goto(l, "jitrefund") /\ UNCHANGED <<ledger, stop, fatal>>
       \/ /\ call[l].at = "jitfailed" /\ reg[l] # "none" /\ NoFault
          /\ StartRetirement(l, FALSE, "jit") /\ UNCHANGED <<durable, stop, fatal>>
       \/ /\ call[l].at = "jitfailed" /\ Inject("github")
          /\ EndLaunch(l, "fatal") /\ UNCHANGED durable
       \/ /\ call[l].at = "jitrefund" /\ NoFault
          /\ ledger' = [ledger EXCEPT ![l] = "none"]
          /\ EndLaunch(l, "fatal") /\ UNCHANGED journal
       \/ /\ call[l].at = "jitfailed" /\ Inject("write")
          /\ \/ UNCHANGED journal
             \/ reg[l] = "none" /\ journal' = [journal EXCEPT ![l] = "none"]
          /\ EndLaunch(l, "fatal") /\ UNCHANGED ledger
       \/ /\ call[l].at = "jitrefund" /\ Inject("write")
          /\ ledger' \in {ledger, [ledger EXCEPT ![l] = "none"]}
          /\ EndLaunch(l, "fatal") /\ UNCHANGED journal
    /\ UNCHANGED <<world, fleet, launchFrame>>

(* The provider's answer.  A failed create may have made the worker, or    *)
(* make it later; a PartialLaunchError names the worker it made.           *)
Launch(l) ==
    /\ call[l].at = "launch"
    /\ \/ /\ worker' = [worker EXCEPT ![l] = "running"] /\ NoFault /\ Goto(l, "confirm")
       \/ /\ Inject("capacity") /\ Goto(l, "rejected") /\ UNCHANGED worker
       \/ \E err \in {"transient", "rejected", "denied"} :
             \/ /\ worker' \in {worker, [worker EXCEPT ![l] = "running"]} /\ Inject(err)
                /\ call' = [call EXCEPT ![l] = [at |-> "ambiguous", err |-> err, by |-> "none"]]
             \/ /\ "late" \in Faults /\ Inject(err)
                /\ worker' = [worker EXCEPT ![l] = "coming"]
                /\ call' = [call EXCEPT ![l] = [at |-> "ambiguous", err |-> err, by |-> "none"]]
             \/ /\ "partial" \in Faults /\ Inject(err)
                /\ worker' = [worker EXCEPT ![l] = "running"]
                /\ call' = [call EXCEPT ![l] = [at |-> "destroy", err |-> err, by |-> "partial"]]
    /\ UNCHANGED <<durable, reg, job, age, mail, fleet, stop, fatal, launchFrame>>

(* cleanupAmbiguousLaunch after any partial worker was retired: look for   *)
(* the lease in the inventory, skipping the partial worker.                *)
CleanupAmbiguousLaunch(l) ==
    /\ call[l].at = "ambiguous"
    /\ \/ \E s \in {Present, [Present EXCEPT ![l] = "none"]} :
             /\ Listing(s)
             /\ IF s[l] # "none" /\ call[l].by # "partial"
                THEN StartRetirement(l, TRUE, "cleanup")
                ELSE StartRetirement(l, FALSE, "absent")
             /\ UNCHANGED <<stop, fatal>>
       \/ Inject("provider") /\ EndLaunch(l, "transient")
       \/ Inject("denied") /\ EndLaunch(l, Joined(call[l].err))
    /\ UNCHANGED <<durable, world, fleet, launchFrame>>

(* cleanupRejectedLaunch: no worker was made, so the lease is refunded. *)
CleanupRejectedLaunch(l) ==
    /\ \/ /\ call[l].at = "rejected" /\ NoFault
          /\ reg' = [reg EXCEPT ![l] = "none"]
          /\ Goto(l, "refund") /\ UNCHANGED <<durable, stop, fatal>>
       \/ /\ call[l].at = "rejected" /\ Inject("github")
          /\ reg' \in {reg, [reg EXCEPT ![l] = "none"]}
          /\ EndLaunch(l, "fatal") /\ UNCHANGED durable
       \/ /\ call[l].at = "refund" /\ NoFault
          /\ ledger' = [ledger EXCEPT ![l] = "none"]
          /\ Goto(l, "unjournal") /\ UNCHANGED <<journal, reg, stop, fatal>>
       \/ /\ call[l].at = "unjournal" /\ NoFault
          /\ journal' = [journal EXCEPT ![l] = "none"]
          /\ EndLaunch(l, "capacity") /\ UNCHANGED <<ledger, reg>>
       \/ /\ call[l].at = "refund" /\ Inject("write")
          /\ ledger' \in {ledger, [ledger EXCEPT ![l] = "none"]}
          /\ EndLaunch(l, "fatal") /\ UNCHANGED <<journal, reg>>
       \/ /\ call[l].at = "unjournal" /\ Inject("write")
          /\ journal' \in {journal, [journal EXCEPT ![l] = "none"]}
          /\ EndLaunch(l, "fatal") /\ UNCHANGED <<ledger, reg>>
    /\ UNCHANGED <<worker, job, age, mail, fleet, launchFrame>>

(* The launch succeeded: confirm the reservation, record the worker, and   *)
(* only then drop the journal entry.                                       *)
ConfirmLaunch(l) ==
    /\ \/ /\ call[l].at = "confirm" /\ NoFault
          /\ ledger' = [ledger EXCEPT ![l] = "confirmed"]
          /\ Goto(l, "commit") /\ UNCHANGED <<journal, fleet, stop, fatal>>
       \/ /\ call[l].at = "confirm" /\ Inject("write")
          /\ ledger' \in {ledger, [ledger EXCEPT ![l] = "confirmed"]}
          /\ StartRetirement(l, TRUE, "confirm") /\ UNCHANGED <<journal, fleet, stop, fatal>>
       \/ /\ call[l].at = "commit" /\ NoFault
          /\ fleet' = [fleet EXCEPT ![l] = "idle"]
          /\ journal' = [journal EXCEPT ![l] = "none"]
          /\ EndLaunch(l, "started") /\ UNCHANGED ledger
       \/ /\ call[l].at = "commit" /\ Inject("write")
          /\ fleet' = [fleet EXCEPT ![l] = "idle"]
          /\ journal' \in {journal, [journal EXCEPT ![l] = "none"]}
          /\ EndLaunch(l, "fatal") /\ UNCHANGED ledger
    /\ UNCHANGED <<world, launchFrame>>

LaunchStep(l) ==
    \/ ReserveBudget(l) \/ Preflight(l) \/ JournalIntent(l) \/ GenerateJit(l) \/ CleanupJitFailure(l)
    \/ Launch(l) \/ CleanupAmbiguousLaunch(l) \/ CleanupRejectedLaunch(l)
    \/ ConfirmLaunch(l)
----------------------------------------------------------------------------
(* The handlers, one at a time behind handlerMu. *)

Running == ctl \notin {"down", "failed"} /\ ~fatal

(* HandleDesiredRunnerCount begins. *)
HandleDesiredRunnerCount ==
    /\ ctl = "idle" /\ ~fatal
    /\ ctl' = "inventory" /\ mode' = "desired"
    /\ UNCHANGED <<durable, world, faults, fleet, missing, used, snap, todo, room, stop, fatal, call>>

(* The process starts: the ledger is loaded and pruned, then recover runs. *)
Start ==
    /\ ctl \in {"down", "failed"}
    /\ ctl' = "inventory" /\ mode' = "recover"
    /\ ledger' = Pruned(ledger)
    /\ UNCHANGED <<journal, world, faults, fleet, missing, used, snap, todo, room, stop, fatal, call>>

(* The inventory read that begins recover and reconcile, and the one after *)
(* the pending retirements.  A transient failure skips the reconciliation  *)
(* but ends a recovery.                                                    *)
ReadInventory ==
    /\ ctl \in {"inventory", "refresh"} /\ Running
    /\ \/ \E s \in {Present} \cup {[Present EXCEPT ![l] = "none"] : l \in Leases} :
             /\ Listing(s) /\ snap' = s
             /\ IF ctl = "inventory" /\ (mode = "recover" \/ Journaled # {})
                THEN ctl' = "pending" /\ todo' = Journaled
                ELSE ctl' = "scan" /\ todo' = {l \in Leases : s[l] # "none"}
             /\ UNCHANGED <<mode, fatal>>
       \/ /\ Inject("provider") /\ mode = "desired"
          /\ ctl' = "idle" /\ mode' = "none" /\ UNCHANGED <<snap, todo, fatal>>
       \/ /\ (Inject("provider") /\ mode = "recover") \/ Inject("denied")
          /\ fatal' = TRUE /\ UNCHANGED <<ctl, mode, snap, todo>>
    /\ UNCHANGED <<durable, world, fleet, missing, used, room, stop, call>>

(* finishPendingRetirements. *)
FinishPendingRetirement(l) ==
    /\ ctl = "pending" /\ Running /\ Quiet /\ l \in todo
    /\ todo' = todo \ {l}
    /\ StartRetirement(l, snap[l] # "none", "handler")
    /\ UNCHANGED <<durable, world, faults, fleet, missing, used, ctl, mode, snap, room, stop, fatal>>

RefreshInventory ==
    /\ ctl = "pending" /\ Running /\ Quiet /\ todo = {}
    /\ ctl' = "refresh"
    /\ UNCHANGED <<durable, world, faults, fleet, missing, used, mode, snap, todo, room, stop, fatal, call>>

(* The adoption of a worker this process has no record of. *)
AdoptWorker(l) ==
    LET new == [ledger EXCEPT ![l] = "confirmed"]
    IN  \/ /\ ledger' = new /\ NoFault
           /\ fleet' = [fleet EXCEPT ![l] = "busy"] /\ UNCHANGED fatal
        \/ /\ ledger' \in {ledger, new} /\ ledger # new /\ Inject("write")
           /\ fatal' = TRUE /\ UNCHANGED fleet

(* Mutant: the dangling timeout is applied to busy and adopted workers. *)
RetiresAdopted(l) ==
    age[l] = 2 \/ snap[l] = "stopped" \/ (fleet[l] # "none" /\ age[l] >= 1)

(* Mutant: RUNNER_MAX_LIFETIME is not enforced. *)
RetiresDangling(l) == snap[l] = "stopped" \/ (fleet[l] = "idle" /\ age[l] >= 1)

(* reconcile retires a listed worker past its lifetime, when it has        *)
(* stopped, or when it never got a job.  A worker without a creation time  *)
(* stays young here, and one without a dangling timeout is not looked at   *)
(* between young and past its lifetime.                                    *)
Retires(l) ==
    \/ age[l] = 2
    \/ snap[l] = "stopped"
    \/ fleet[l] = "idle" /\ age[l] >= 1

(* reconcile, one listed worker: retired, else seen, or adopted. *)
ScanWorker(l) ==
    /\ ctl = "scan" /\ mode = "desired" /\ Running /\ Quiet /\ l \in todo
    /\ todo' = todo \ {l}
    /\ \/ /\ Retires(l) /\ RetireWorker(l, TRUE)
          /\ UNCHANGED <<ledger, fleet, missing>>
       \/ /\ ~Retires(l) /\ fleet[l] # "none" /\ NoFault
          /\ missing' = [missing EXCEPT ![l] = "no"]
          /\ UNCHANGED <<durable, fleet, fatal, call>>
       \/ /\ ~Retires(l) /\ fleet[l] = "none" /\ AdoptWorker(l)
          /\ UNCHANGED <<journal, missing, call>>
    /\ UNCHANGED <<world, used, ctl, mode, snap, room, stop>>

(* reconcile, one recorded worker that was not listed: it is retired once  *)
(* it is past a timeout or has been missing for inventoryAbsenceGrace.     *)
ScanAbsent(l) ==
    LET gone == age[l] = 2 \/ (fleet[l] = "idle" /\ age[l] >= 1) \/ missing[l] = "elapsed"
    IN  /\ ctl = "absent" /\ Running /\ Quiet /\ l \in todo
        /\ todo' = todo \ {l}
        /\ \/ gone /\ RetireWorker(l, FALSE) /\ UNCHANGED missing
           \/ /\ ~gone /\ NoFault
              /\ missing' = [missing EXCEPT ![l] = "recent"]
              /\ UNCHANGED <<journal, fatal, call>>
        /\ UNCHANGED <<ledger, world, fleet, used, ctl, mode, snap, room, stop>>

(* The listed workers are done; on to the recorded ones that were not      *)
(* listed, and then to as many launches as the ceiling leaves room for.    *)
ScanEnds ==
    /\ Running /\ Quiet /\ todo = {} /\ mode = "desired"
    /\ \/ /\ ctl = "scan" /\ ctl' = "absent"
          /\ todo' = Recorded \ Listed /\ UNCHANGED room
       \/ /\ ctl = "absent" /\ ctl' = "launch"
          /\ room' \in 0 .. Larger(0, MaxWorkers - Cardinality(Recorded))
          /\ UNCHANGED todo
    /\ UNCHANGED <<durable, world, faults, fleet, missing, used, mode, snap, stop, fatal, call>>

(* launchWorkers returned.  speculate starts more, at most one for each    *)
(* idle worker and within the ceiling, unless the gate is closed.          *)
LaunchesEnd ==
    /\ ctl = "launch" /\ Running /\ Quiet
    /\ room = 0 \/ stop # "no" \/ used = Leases
    /\ stop' = "no"
    /\ \/ ctl' = "idle" /\ mode' = "none" /\ room' = 0
          /\ snap' = [l \in Leases |-> "none"]
       \/ /\ Speculates /\ mode = "desired" /\ stop # "gate"
          /\ mode' = "spare"
          /\ room' \in 1 .. MaxWorkers - Cardinality(Recorded)
          /\ room' <= Cardinality({l \in Leases : fleet[l] = "idle"})
          /\ UNCHANGED <<ctl, snap>>
    /\ UNCHANGED <<durable, world, faults, fleet, missing, used, todo, fatal, call>>

(* recover adopts every listed worker, then budget.reconcile closes the    *)
(* reservations of the others.                                             *)
RecoverWorker(l) ==
    /\ ctl = "scan" /\ mode = "recover" /\ Running /\ l \in todo
    /\ todo' = todo \ {l}
    /\ AdoptWorker(l)
    /\ UNCHANGED <<journal, world, missing, used, ctl, mode, snap, room, stop, call>>

RecoverLedger ==
    LET closed == [l \in Leases |->
                      IF snap[l] # "none" \/ ~Reserved(ledger[l]) THEN ledger[l]
                      ELSE IF ledger[l] = "confirmed" THEN "settled" ELSE "forfeited"]
        new == Pruned(closed)
    IN  /\ ctl = "scan" /\ mode = "recover" /\ Running /\ todo = {}
        /\ \/ /\ ledger' = new /\ NoFault
              /\ ctl' = "idle" /\ mode' = "none" /\ snap' = [l \in Leases |-> "none"]
              /\ UNCHANGED fatal
           \/ /\ ledger' \in {ledger, new} /\ ledger # new /\ Inject("write")
              /\ fatal' = TRUE /\ UNCHANGED <<ctl, mode, snap>>
        /\ UNCHANGED <<journal, world, fleet, missing, used, todo, room, stop, call>>

HandleJobStarted(l) ==
    /\ ctl = "idle" /\ ~fatal /\ <<"started", l>> \in mail
    /\ mail' = mail \ {<<"started", l>>}
    /\ fleet' = [fleet EXCEPT ![l] = IF @ = "none" THEN @ ELSE "busy"]
    /\ missing' = [missing EXCEPT ![l] = "no"]
    /\ UNCHANGED <<durable, worker, reg, job, age, faults, used, thread, fatal, call>>

(* The message stays with GitHub until the handler has returned. *)
HandleJobCompleted(l) ==
    /\ ctl = "idle" /\ ~fatal /\ <<"completed", l>> \in mail
    /\ \/ /\ fleet[l] = "none" /\ NoFault
          /\ mail' = mail \ {<<"completed", l>>}
          /\ UNCHANGED <<journal, fatal, call, ctl, todo>>
       \/ /\ fleet[l] # "none" /\ RetireWorker(l, TRUE)
          /\ ctl' = "completing" /\ todo' = {l}
          /\ UNCHANGED mail
    /\ UNCHANGED <<ledger, worker, reg, job, age, fleet, missing, used, mode, snap, room, stop>>

JobCompletedReturns ==
    /\ ctl = "completing" /\ Running /\ Quiet
    /\ ctl' = "idle" /\ todo' = {}
    /\ mail' = mail \ {<<"completed", l>> : l \in todo}
    /\ UNCHANGED <<durable, worker, reg, job, age, faults, fleet, missing, used, mode, snap, room,
                   stop, fatal, call>>

(* failClosed: once every launch in flight has returned, a handler's error *)
(* ends the controller.                                                    *)
FailClosed ==
    /\ fatal /\ Quiet
    /\ Exit("failed")
    /\ UNCHANGED <<durable, world, faults>>

Crash ==
    /\ ctl \notin {"down", "failed"}
    /\ Inject("crash") /\ Exit("down")
    /\ UNCHANGED <<durable, world>>

HandlerStep ==
    \/ ReadInventory \/ RefreshInventory \/ ScanEnds \/ LaunchesEnd
    \/ RecoverLedger \/ JobCompletedReturns \/ FailClosed
    \/ \E l \in Leases : \/ FinishPendingRetirement(l) \/ ScanWorker(l) \/ ScanAbsent(l)
                         \/ RecoverWorker(l) \/ SpawnLaunch(l)
                         \/ LaunchStep(l) \/ RetirementStep(l)
----------------------------------------------------------------------------
(* The provider, the runners and GitHub (external). *)

frame == <<durable, faults, memory>>

(* A create that was answered with an error takes effect. *)
WorkerAppears(l) ==
    /\ worker[l] = "coming"
    /\ worker' = [worker EXCEPT ![l] = "running"]
    /\ UNCHANGED <<reg, job, age, mail, frame>>

(* GitHub gives an online, registered runner its one job. *)
JobAssigned(l) ==
    /\ worker[l] = "running" /\ reg[l] = "idle" /\ job[l] = "no"
    /\ reg' = [reg EXCEPT ![l] = "busy"] /\ job' = [job EXCEPT ![l] = "running"]
    /\ mail' = mail \cup {<<"started", l>>}
    /\ UNCHANGED <<worker, age, frame>>

JobEnds(l) ==
    /\ worker[l] = "running" /\ job[l] = "running"
    /\ job' = [job EXCEPT ![l] = "done"] /\ mail' = mail \cup {<<"completed", l>>}
    /\ UNCHANGED <<worker, reg, age, frame>>

(* The worker exits after its job, after its idle timeout or at its        *)
(* deadline; the provider keeps it as stopped or destroys it.              *)
WorkerExits(l) ==
    /\ worker[l] = "running"
    /\ job[l] # "running" \/ age[l] = 2
    /\ worker' \in {[worker EXCEPT ![l] = s] : s \in {"stopped", "none"}}
    /\ UNCHANGED <<reg, job, age, mail, frame>>

(* Some time after the job ended or its runner was lost, GitHub no longer  *)
(* counts the job as running and drops the one-job registration.           *)
GitHubReaps(l) ==
    /\ reg[l] = "busy"
    /\ job[l] = "done" \/ worker[l] # "running"
    /\ reg' = [reg EXCEPT ![l] = "none"] /\ job' = [job EXCEPT ![l] = "done"]
    /\ mail' = IF job[l] = "running" THEN mail \cup {<<"completed", l>>} ELSE mail
    /\ UNCHANGED <<worker, age, frame>>

TimePasses(l) ==
    \/ /\ l \in used /\ age[l] < MaxAge
       /\ age' = [age EXCEPT ![l] = @ + 1]
       /\ UNCHANGED <<durable, worker, reg, job, mail, faults, memory>>
    \/ /\ missing[l] = "recent"
       /\ missing' = [missing EXCEPT ![l] = "elapsed"]
       /\ UNCHANGED <<durable, world, faults, fleet, used, thread, fatal, call>>

WorldStep(l) ==
    \/ WorkerAppears(l) \/ JobAssigned(l) \/ JobEnds(l) \/ WorkerExits(l)
    \/ GitHubReaps(l) \/ TimePasses(l)
----------------------------------------------------------------------------
Init ==
    /\ journal = [l \in Leases |-> "none"] /\ ledger = [l \in Leases |-> "none"]
    /\ worker = [l \in Leases |-> "none"] /\ reg = [l \in Leases |-> "none"]
    /\ job = [l \in Leases |-> "no"] /\ age = [l \in Leases |-> 0]
    /\ mail = {} /\ faults = 0
    /\ fleet = [l \in Leases |-> "none"] /\ missing = [l \in Leases |-> "no"]
    /\ used = {} /\ ctl = "down" /\ mode = "none"
    /\ snap = [l \in Leases |-> "none"] /\ todo = {} /\ room = 0 /\ stop = "no"
    /\ fatal = FALSE /\ call = [l \in Leases |-> NoCall]

Next ==
    \/ Start \/ HandleDesiredRunnerCount \/ HandlerStep \/ Crash
    \/ \E l \in Leases : HandleJobStarted(l) \/ HandleJobCompleted(l) \/ WorldStep(l)

Spec == Init /\ [][Next]_vars

(* The process keeps running and is restarted when it ended; GitHub sends  *)
(* the desired count over and over (an empty poll repeats the last one);   *)
(* time passes, and GitHub and the provider finish what they began.        *)
FairSpec ==
    /\ Spec
    /\ WF_vars(Start) /\ WF_vars(HandlerStep) /\ WF_vars(HandleDesiredRunnerCount)
    /\ \A l \in Leases : WF_vars(WorkerAppears(l) \/ GitHubReaps(l)) /\ WF_vars(TimePasses(l))
----------------------------------------------------------------------------
Dispositions == {"none", "forfeit", "settle"}

LedgerStates == {"none", "reserved", "confirmed", "settled", "forfeited"}

Places == {"none", "reserve", "preflight", "journal", "jit", "jitfailed", "jitrefund", "launch",
           "ambiguous", "rejected", "refund", "unjournal", "confirm", "commit",
           "destroy", "unregister", "charge", "forget"}

Calls == [at: Places, err: {"none", "transient", "rejected", "denied"},
          by: {"none", "handler", "partial", "cleanup", "absent", "jit", "confirm"}]

(* Memory, files and world keep their types; a cycle never plans more      *)
(* launches than MAX_RUNNERS.                                              *)
TypeOK ==
    /\ journal \in [Leases -> Dispositions] /\ ledger \in [Leases -> LedgerStates]
    /\ worker \in [Leases -> {"none", "coming", "running", "stopped"}]
    /\ reg \in [Leases -> {"none", "idle", "busy"}]
    /\ job \in [Leases -> {"no", "running", "done"}] /\ age \in [Leases -> 0 .. MaxAge]
    /\ mail \subseteq {"started", "completed"} \X Leases /\ faults \in 0 .. MaxFaults
    /\ fleet \in [Leases -> {"none", "idle", "busy"}]
    /\ missing \in [Leases -> {"no", "recent", "elapsed"}]
    /\ used \subseteq Leases /\ todo \subseteq Leases /\ room \in 0 .. MaxWorkers
    /\ ctl \in {"down", "failed", "idle", "inventory", "pending", "refresh", "scan", "absent",
                "launch", "completing"}
    /\ mode \in {"none", "recover", "desired", "spare"}
    /\ snap \in [Leases -> {"none", "running", "stopped"}]
    /\ stop \in {"no", "stopped", "gate"} /\ fatal \in BOOLEAN
    /\ call \in [Leases -> Calls]

Exists(l) == worker[l] # "none"

(* While the provider has a worker, the ledger charges for it: no crash,   *)
(* lost answer or failed deletion leaves compute that is refunded or not   *)
(* reserved.  (An inventory that misses a running worker would: recovery   *)
(* settles what it does not list.)                                         *)
NoFreeCompute ==
    \A l \in Leases : Exists(l) => ledger[l] \in {"reserved", "confirmed", "forfeited"}

(* Between handlers the controller has lost no worker: each is recorded,   *)
(* and so counted against MAX_RUNNERS, or journaled for retirement.  A     *)
(* create that takes effect after an inventory proved its absence, or that *)
(* an inventory misses, is lost until the next reconciliation.             *)
NothingLost ==
    ctl = "idle" => \A l \in Leases : Exists(l) => fleet[l] # "none" \/ journal[l] # "none"

(* removeRunnerRegistration comes after the worker is gone, so GitHub      *)
(* never loses the runner of a worker that still exists.                   *)
RegistrationOutlivesWorker ==
    [][\A l \in Leases : reg[l] = "idle" /\ reg'[l] = "none" => ~Exists(l)]_vars

(* A job is not cut short.  While it runs, the retirement of its worker is *)
(* decided, that is, journaled, only past the maximum lifetime, or past    *)
(* the dangling timeout if this process launched the worker and has not    *)
(* read JobStarted: never because of that timeout when the worker is busy  *)
(* or adopted.  And its worker is destroyed only once that was decided, or *)
(* for the forfeit entry of a launch that was not committed; that one does *)
(* end the job of a worker that was adopted in the meantime.               *)
JobsSurvive ==
    [][\A l \in Leases : job[l] = "running" /\ worker[l] = "running" =>
          /\ journal[l] # "settle" /\ journal'[l] = "settle"
                => age[l] = 2 \/ (age[l] = 1 /\ fleet[l] = "idle")
          /\ ~Exists(l)'
                => \/ age[l] = 2 \/ journal[l] = "settle"
                   \/ journal[l] = "forfeit" /\ fleet[l] # "idle"]_vars

(* MAX_RUNNERS bounds the workers that run, not only the recorded ones, as *)
(* long as the inventory shows what runs: a late create, or a listing that *)
(* lags, is not counted.                                                   *)
Ceiling == Cardinality({l \in Leases : worker[l] = "running"}) <= MaxWorkers

(* A handler's error ends the controller while it serves only if it is not *)
(* a passing failure of the provider: checked where only those happen.     *)
KeepsServing ==
    [][ctl # "failed" /\ ctl' = "failed" => mode = "recover"]_vars

(* A journaled retirement is finished, however often it has to be retried  *)
(* and the controller restarted.                                           *)
RetirementsFinish == \A l \in Leases : journal[l] # "none" ~> journal[l] = "none"

(* No worker outlives its lease for ever, not even one whose create was    *)
(* answered with an error.                                                 *)
WorkersEnd == \A l \in Leases : Exists(l) ~> ~Exists(l)

(* operations.md: the controller "proves that no worker carries the lease, *)
(* refunds the reservation" of a launch the provider rejected.             *)
RejectionRefunded ==
    [][\A l \in Leases :
          call[l].err = "rejected" /\ call[l].by = "absent" /\ call[l].at = "forget"
              /\ call'[l].at = "none" => ledger'[l] = "none"]_vars
----------------------------------------------------------------------------
(* Scaler implements LeaseCharge: an unwritten entry is new until its      *)
(* reservation has been tried and refunded afterwards.                     *)
Charge ==
    [l \in Leases |->
        CASE Reserved(ledger[l]) -> "held"
          [] ledger[l] \in {"settled", "forfeited"} -> ledger[l]
          [] OTHER -> IF l \in used /\ call[l].at # "reserve" THEN "refunded" ELSE "new"]

Promise == INSTANCE LeaseCharge WITH charge <- Charge, compute <- [l \in Leases |-> Present[l] # "none"]

(* Every step of the controller is one LeaseCharge allows: nothing runs    *)
(* unpaid, and nothing that ran is refunded.                               *)
ChargesAsPromised == Promise!Spec
=============================================================================
