---------------------------- MODULE RepairLimiter ----------------------------
(***************************************************************************)
(* agentRepairLimiter of internal/server/agent_plan.go: the one budget that*)
(* approved plans, repair requests, direct user actions, automatic repairs,*)
(* array starts and UniFi restarts all draw on.                            *)
(*                                                                         *)
(* Every caller evaluates time.Now() before it calls decide, and decide    *)
(* takes the lock afterwards: two callers can hold times in one order and  *)
(* get the lock in the other.  The read of the clock and the locked body   *)
(* are therefore two actions, with any delay between them.                 *)
(***************************************************************************)
EXTENDS RepairBudget

CONSTANTS
    Callers,    \* request goroutines
    Second,     \* clock ticks per second
    MaxGrants,  \* bound on the reservations after which no call is made
    None        \* no time, no call, no answer

ASSUME LimiterAssumption ==
    /\ Second \in Nat \ {0}
    /\ MaxGrants \in Nat
    /\ None \notin Nat

VARIABLES
    lastByApp,  \* l.lastByApp; None stands for an absent entry
    global,     \* l.global, as the indices in grants of the times it holds:
                \* the order of the slice is the order of the indices
    call,       \* per caller: the arguments of a decide that waits for the lock
    answer      \* the last refusal, until the next reservation: what the caller
                \* was told, and the time it was told to come back at

limiterVars == <<lastByApp, global, call, answer>>
vars == <<budgetVars, limiterVars>>

Init ==
    /\ BudgetInit
    /\ lastByApp = [k \in Targets |-> None]
    /\ global = {}
    /\ call = [c \in Callers |-> None]
    /\ answer = None

-----------------------------------------------------------------------------
(* The pieces of decide.                                                   *)

\* expireLocked, the per-app half: entries whose cooldown has passed go.
ExpireByApp(last, now) ==
    [k \in Targets |->
        IF last[k] # None /\ last[k] + Cooldown > now THEN last[k] ELSE None]

\* Mutation: the global sweep uses the per-app cooldown.
ExpireGlobalByCooldown(idx, now) == {i \in idx : grants[i].now + Cooldown > now}

\* expireLocked, the global half.
ExpireGlobal(idx, now) == {i \in idx : grants[i].now + Window > now}

\* Mutation: the wait is cut to whole seconds before it is compared.
CooldownLeftTruncated(last, k, now) ==
    IF last[k] = None THEN 0 ELSE (last[k] + Cooldown - now) \div Second

\* last.Add(agentRepairPerAppCooldown).Sub(now), or 0 when there is no entry.
CooldownLeft(last, k, now) ==
    IF last[k] = None THEN 0 ELSE last[k] + Cooldown - now

\* Mutation: one repair too many before the cap holds.
GlobalFullLate(idx) == Cardinality(idx) > Limit

\* len(l.global) >= agentRepairGlobalLimit
GlobalFull(idx) == Cardinality(idx) >= Limit

\* max(l.global[0].Add(agentRepairGlobalWindow).Sub(now), 0)
GlobalLeft(head, now) ==
    IF grants[head].now + Window > now THEN grants[head].now + Window - now ELSE 0

\* l.global[0]: the oldest reservation still counted.
IsHead(head, idx) == \A i \in idx : head <= i

\* Mutation: the wait is rounded down.
RetryAfterSecondsFloor(left) == left \div Second

\* agentRepairRefusal: the wait is rounded up to whole seconds.
RetryAfterSeconds(left) == (left + Second - 1) \div Second

-----------------------------------------------------------------------------
(* A caller reads the clock: time.Now().UTC() in the argument of           *)
(* reserveAgentRepair or agentRepairLimitState.  reserve is FALSE where a  *)
(* plan only displays the current cooldown.                                *)
ReadClock(c) ==
    /\ call[c] = None
    /\ Len(grants) < MaxGrants
    /\ \E k \in Targets, reserve \in BOOLEAN :
           call' = [call EXCEPT ![c] = [key |-> k, now |-> clock, reserve |-> reserve]]
    /\ UNCHANGED <<budgetVars, lastByApp, global, answer>>

Refuse(c, reason, left) ==
    /\ answer' = [reason |-> reason, key |-> call[c].key,
                  retryAt |-> call[c].now + Second * RetryAfterSeconds(left)]
    /\ UNCHANGED grants

(* decide under l.mu: sweep, cooldown, cap, reservation.                   *)
Decide(c) ==
    /\ call[c] # None
    /\ LET k    == call[c].key
           now  == call[c].now
           last == ExpireByApp(lastByApp, now)
           idx  == ExpireGlobal(global, now)
       IN  \/ /\ CooldownLeft(last, k, now) > 0
              /\ Refuse(c, "per_app_cooldown", CooldownLeft(last, k, now))
              /\ lastByApp' = last
              /\ global' = idx
           \/ /\ CooldownLeft(last, k, now) <= 0
              /\ GlobalFull(idx)
              /\ \E head \in idx :
                    /\ IsHead(head, idx)
                    /\ Refuse(c, "global_rate_limit", GlobalLeft(head, now))
              /\ lastByApp' = last
              /\ global' = idx
           \/ /\ CooldownLeft(last, k, now) <= 0
              /\ ~GlobalFull(idx)
              /\ call[c].reserve
              /\ lastByApp' = [last EXCEPT ![k] = now]
              /\ global' = idx \cup {Len(grants) + 1}
              /\ grants' = Append(grants, [key |-> k, now |-> now, at |-> clock])
              /\ answer' = None
           \/ /\ CooldownLeft(last, k, now) <= 0
              /\ ~GlobalFull(idx)
              /\ ~call[c].reserve
              /\ lastByApp' = last
              /\ global' = idx
              /\ UNCHANGED <<grants, answer>>
    /\ call' = [call EXCEPT ![c] = None]
    /\ UNCHANGED clock

Next ==
    \/ \E c \in Callers : ReadClock(c) \/ Decide(c)
    \/ Tick /\ UNCHANGED limiterVars

Spec == Init /\ [][Next]_vars

-----------------------------------------------------------------------------
(* Properties.                                                             *)

Call == [key : Targets, now : Nat, reserve : BOOLEAN]
Refusal == [reason : {"per_app_cooldown", "global_rate_limit"}, key : Targets,
            retryAt : Nat]

\* The state of the limiter, its callers and the log of grants is well formed.
TypeOK ==
    /\ clock \in Nat
    /\ grants \in Seq(Grant)
    /\ lastByApp \in [Targets -> Nat \cup {None}]
    /\ global \in SUBSET DOMAIN grants
    /\ call \in [Callers -> Call \cup {None}]
    /\ answer \in Refusal \cup {None}

\* docs: "at most 1 agent repair per app per minute".  However late a caller
\* gets the lock, and whatever sweep another caller made with a later time, no
\* target is repaired again before the cooldown of its last repair has passed.
CooldownHeld ==
    \A i, j \in DOMAIN grants :
        (i < j /\ grants[i].key = grants[j].key)
            => grants[i].now + Cooldown <= grants[j].at

\* docs: "5 agent actions per hour globally".  When a repair is granted, it and
\* the earlier ones whose hour has not passed are at most Limit.
GlobalCapHeld ==
    \A j \in DOMAIN grants :
        Cardinality({i \in 1..j : grants[i].now + Window > grants[j].at}) <= Limit

\* A refused caller that comes back at the promised time, with nothing granted
\* in between, is not refused for the same reason again: RetryAfterSeconds is
\* rounded up, and the cap's wait is taken from the head of a slice that
\* callers with stale times may have left out of order.
RetryAfterSufficient ==
    answer # None =>
        /\ answer.reason = "per_app_cooldown" =>
               CooldownLeft(ExpireByApp(lastByApp, answer.retryAt),
                            answer.key, answer.retryAt) <= 0
        /\ answer.reason = "global_rate_limit" =>
               ~GlobalFull(ExpireGlobal(global, answer.retryAt))

\* The limiter keeps the promise of RepairBudget: its map and its swept slice,
\* read under stale times, never grant what the full log would not.
ImplementsBudget == BudgetSpec

-----------------------------------------------------------------------------
(* The inductive invariant.  The sweep forgets, but only what the wall     *)
(* clock has outrun: whatever still counts at the current time is held.    *)

\* The stamp a caller holds, and every stamp in the log, is in the past.
StampsPast ==
    /\ \A c \in Callers : call[c] # None => call[c].now <= clock
    /\ \A i \in DOMAIN grants : grants[i].now <= grants[i].at /\ grants[i].at <= clock

\* A repair still cooling down at the current time is the map's entry.
CoolingRemembered ==
    \A i \in DOMAIN grants :
        grants[i].now + Cooldown > clock =>
            /\ lastByApp[grants[i].key] # None
            /\ lastByApp[grants[i].key] >= grants[i].now

\* A repair that the hour still counts is in the slice, and the slice is full
\* at most to the cap.
RecentRemembered ==
    /\ Recent(clock) \subseteq global
    /\ Cardinality(global) <= Limit

\* The inductive invariant of RepairLimiter: with the shapes of the state, the
\* three facts above are kept by every interleaving of clock reads, sweeps and
\* reservations.
IInv == TypeOK /\ StampsPast /\ CoolingRemembered /\ RecentRemembered
=============================================================================
