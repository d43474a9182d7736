---------------------------- MODULE RepairBudget ----------------------------
(***************************************************************************)
(* What the repair rate limit promises, with nothing of how it is kept:    *)
(* a log of granted repairs that only ever grows by repairs that respect   *)
(* a cooldown per target and a cap over a sliding window.                  *)
(*                                                                         *)
(* docs/feature-app-detail-history.md states the promise: "at most 1 agent *)
(* repair per app per minute and 5 agent actions per hour globally".       *)
(* A grant carries two times: the time `now' its caller read from the wall *)
(* clock before it took the limiter's lock, and the time `at' at which the *)
(* lock was held and the repair was granted.  The caller may be arbitrarily*)
(* late, so the promise compares the time of the new grant with the stamp  *)
(* of the old one.                                                         *)
(***************************************************************************)
EXTENDS Integers, Sequences, FiniteSets

CONSTANTS
    Targets,    \* the limiter's keys: app ids, the array, "unifi:<device>"
    Cooldown,   \* agentRepairPerAppCooldown
    Window,     \* agentRepairGlobalWindow
    Limit,      \* agentRepairGlobalLimit
    MaxClock    \* bound on the wall clock

ASSUME BudgetAssumption ==
    /\ Cooldown \in Nat \ {0}
    /\ Window \in Nat \ {0}
    /\ Limit \in Nat \ {0}
    /\ MaxClock \in Nat

VARIABLES
    clock,      \* the wall clock
    grants      \* every reservation granted, oldest first

budgetVars == <<clock, grants>>

Grant == [key : Targets, now : Nat, at : Nat]

\* No earlier repair of the target is still cooling down at time t.
CooledDown(k, t) ==
    \A i \in DOMAIN grants : grants[i].key = k => grants[i].now + Cooldown <= t

\* The reservations that the window ending at time t still counts.
Recent(t) == {i \in DOMAIN grants : grants[i].now + Window > t}

BudgetInit == clock = 0 /\ grants = << >>

AllowRepair(k, now) ==
    /\ now \in 0..clock
    /\ CooledDown(k, clock)
    /\ Cardinality(Recent(clock)) < Limit
    /\ grants' = Append(grants, [key |-> k, now |-> now, at |-> clock])
    /\ UNCHANGED clock

Tick ==
    /\ clock < MaxClock
    /\ clock' = clock + 1
    /\ UNCHANGED grants

BudgetNext ==
    \/ \E k \in Targets, now \in 0..clock : AllowRepair(k, now)
    \/ Tick

BudgetSpec == BudgetInit /\ [][BudgetNext]_budgetVars
=============================================================================
