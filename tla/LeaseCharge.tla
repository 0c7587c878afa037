---------------------------- MODULE LeaseCharge ----------------------------
(***************************************************************************)
(* What the controller promises about every lease, without saying how:     *)
(* compute is paid for while it exists, and a lease is refunded, or        *)
(* settled at its actual time, once and only when its compute is gone for  *)
(* good.  Leases are independent, so one step may move several. *)
(***************************************************************************)
CONSTANTS Leases

VARIABLES charge,   \* "new", "held", "refunded", "settled" or "forfeited"
          compute   \* does the lease have a worker?

vars == <<charge, compute>>

Init ==
    /\ charge = [l \in Leases |-> "new"]
    /\ compute = [l \in Leases |-> FALSE]

(* A reservation runs out, or is taken again for a worker in a listing. *)
Renews(l) ==
    \/ charge[l] = "held" /\ charge'[l] = "forfeited"
    \/ charge[l] = "forfeited" /\ charge'[l] = "held"

(* What is final: a refund, and a settlement, of a lease without compute. *)
Opens(l) == charge[l] = "new" /\ charge'[l] \in {"held", "refunded"}

Closes(l) == charge[l] = "held" /\ charge'[l] \in {"refunded", "settled"}

Step(l) ==
    \/ compute'[l] = compute[l] /\ charge'[l] = charge[l]
    \/ compute'[l] = compute[l] /\ Renews(l)
    \/ ~compute[l] /\ ~compute'[l] /\ (Opens(l) \/ Closes(l))
    \/ ~compute[l] /\ compute'[l] /\ charge[l] \in {"held", "forfeited"} /\ charge'[l] = charge[l]
    \/ compute[l] /\ ~compute'[l] /\ charge'[l] = charge[l]

Next ==
    /\ charge' = [l \in Leases |-> charge'[l]]
    /\ compute' = [l \in Leases |-> compute'[l]]
    /\ \A l \in Leases : Step(l)

Spec == Init /\ [][Next]_vars
=============================================================================
