---------------------------- MODULE MCRepairActs ----------------------------
(* RepairFlow for TLC, with the handlers that act on an app, the array or a  *)
(* device.  To keep the two apart, a behaviour either begins with a signed   *)
(* plan and runs the handlers that redeem it, on a clock that reaches its    *)
(* expiry, or has no plan and runs the handlers that act at once.            *)
EXTENDS RepairFlow, TLC

Redeeming == {"plan", "array"}

NothingBegan == controls = <<>> /\ grants = <<>> /\ \A t \in Threads : job[t] = None

WithPlan == \E x \in Tokens : issued'[x] # None

\* The direct handlers need one tick and one control call, and no array.
OneMix ==
    /\ \A x \in Tokens : issued[x] = None /\ issued'[x] # None => NothingBegan
    /\ \A t \in Threads : job'[t] # None => (job'[t].kind \in Redeeming <=> WithPlan)
    /\ ~WithPlan =>
           /\ clock' <= 1 /\ array' = array
           /\ \A t \in Threads : job[t] = None /\ job'[t] # None =>
                  controls = <<>> /\ array = "started"

Symmetry == Permutations(Threads)
=============================================================================
