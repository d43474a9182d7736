---------------------------- MODULE Access_proofs ----------------------------
(***************************************************************************)
(* Who gets in, and how often, for every size: the repair limit for every  *)
(* cooldown, window, cap, set of targets and set of callers, however long a *)
(* caller waits for the lock; the guesses a login throttle lets through for *)
(* every number of parallel logins; one account per name and per id however *)
(* saves and starts interleave; and the sessions' properties, proved in     *)
(* Sessions_proofs, for the behaviours the runs explore.                    *)
(***************************************************************************)
EXTENDS MCAccess, FiniteSetTheorems, WellFoundedInduction, TLAPS

-----------------------------------------------------------------------------
(* The repair limiter.                                                       *)

(* The tail of a sequence that grew by one element is that element.        *)
LEMMA AppendFacts ==
    ASSUME NEW g \in Grant, grants \in Seq(Grant), grants' = Append(grants, g)
    PROVE  /\ grants' \in Seq(Grant)
           /\ Len(grants') = Len(grants) + 1
           /\ DOMAIN grants' = DOMAIN grants \cup {Len(grants) + 1}
           /\ \A i \in DOMAIN grants : grants'[i] = grants[i]
           /\ grants'[Len(grants) + 1] = g
           /\ DOMAIN grants = 1..Len(grants)
           /\ Len(grants) \in Nat
  OBVIOUS

(* The slice never holds more indices than the log, so it is finite.       *)
LEMMA GlobalFinite ==
    ASSUME grants \in Seq(Grant), NEW S \in SUBSET DOMAIN grants
    PROVE  IsFiniteSet(S) /\ Cardinality(S) \in Nat
  <1>1. DOMAIN grants = 1..Len(grants) /\ Len(grants) \in Nat
    OBVIOUS
  <1>2. IsFiniteSet(1..Len(grants))
    BY <1>1, FS_Interval
  <1>3. IsFiniteSet(S)
    BY <1>1, <1>2, FS_Subset
  <1> QED
    BY <1>3, FS_CardinalityType

(* expireLocked under a caller's time, which is never ahead of the clock,   *)
(* forgets nothing that still counts at the clock.                          *)
LEMMA SweepKeeps ==
    ASSUME IInv, NEW now \in Nat, now <= clock
    PROVE  LET last == ExpireByApp(lastByApp, now)
               idx  == ExpireGlobal(global, now)
           IN  /\ last \in [Targets -> Nat \cup {None}]
               /\ \A i \in DOMAIN grants :
                    grants[i].now + Cooldown > clock =>
                        /\ last[grants[i].key] # None
                        /\ last[grants[i].key] >= grants[i].now
               /\ idx \in SUBSET DOMAIN grants
               /\ Recent(clock) \subseteq idx
               /\ Cardinality(idx) <= Limit
  <1> DEFINE last == ExpireByApp(lastByApp, now)
             idx  == ExpireGlobal(global, now)
  <1> USE BudgetAssumption, LimiterAssumption
  <1>1. last \in [Targets -> Nat \cup {None}]
    BY DEF IInv, TypeOK, ExpireByApp
  <1>2. ASSUME NEW i \in DOMAIN grants, grants[i].now + Cooldown > clock
        PROVE  last[grants[i].key] # None /\ last[grants[i].key] >= grants[i].now
    <2>1. grants[i] \in Grant
      BY DEF IInv, TypeOK
    <2>2. lastByApp[grants[i].key] # None /\ lastByApp[grants[i].key] >= grants[i].now
      BY <1>2 DEF IInv, CoolingRemembered
    <2>3. lastByApp[grants[i].key] \in Nat
      BY <2>1, <2>2 DEF IInv, TypeOK, Grant
    <2>4. lastByApp[grants[i].key] + Cooldown > now
      BY <1>2, <2>1, <2>2, <2>3 DEF IInv, TypeOK, Grant
    <2> QED
      BY <2>1, <2>2, <2>3, <2>4 DEF ExpireByApp, Grant
  <1>3. idx \in SUBSET DOMAIN grants /\ idx \subseteq global
    BY DEF IInv, TypeOK, ExpireGlobal
  <1>4. Recent(clock) \subseteq idx
    <2> SUFFICES ASSUME NEW i \in Recent(clock) PROVE i \in idx
      OBVIOUS
    <2>1. i \in global /\ i \in DOMAIN grants /\ grants[i].now + Window > clock
      BY DEF IInv, RecentRemembered, Recent
    <2>2. grants[i] \in Grant
      BY <2>1 DEF IInv, TypeOK
    <2> QED
      BY <2>1, <2>2 DEF ExpireGlobal, Grant, IInv, TypeOK
  <1>5. Cardinality(idx) <= Limit
    <2>1. IsFiniteSet(global) /\ Cardinality(global) \in Nat
      BY GlobalFinite DEF IInv, TypeOK
    <2>2. Cardinality(idx) <= Cardinality(global)
      BY <1>3, <2>1, FS_Subset
    <2>3. Cardinality(idx) \in Nat
      BY <1>3, GlobalFinite DEF IInv, TypeOK
    <2> QED
      BY <2>1, <2>2, <2>3 DEF IInv, RecentRemembered
  <1> QED
    BY <1>1, <1>2, <1>3, <1>4, <1>5

(* The wait that a refusal tells the caller is a number of whole seconds    *)
(* and covers the exact wait.                                               *)
LEMMA RetryCovers ==
    ASSUME NEW left \in Nat
    PROVE  /\ Second * RetryAfterSeconds(left) \in Nat
           /\ Second * RetryAfterSeconds(left) >= left
  <1>1. Second \in Nat \ {0}
    BY LimiterAssumption
  <1>2. RetryAfterSeconds(left) \in Nat
    BY <1>1 DEF RetryAfterSeconds
  <1>3. Second * ((left + Second - 1) \div Second) >= left
    BY <1>1
  <1> QED
    BY <1>1, <1>2, <1>3 DEF RetryAfterSeconds

(* What decide leaves behind when it grants nothing: a swept limiter and    *)
(* the same log.                                                            *)
LEMMA SweepInductive ==
    ASSUME IInv, NEW c \in Callers, call[c] # None,
           lastByApp' = ExpireByApp(lastByApp, call[c].now),
           global' = ExpireGlobal(global, call[c].now),
           call' = [call EXCEPT ![c] = None],
           UNCHANGED <<clock, grants>>,
           answer' \in Refusal \cup {None}
    PROVE  IInv'
  <1> USE BudgetAssumption, LimiterAssumption
  <1>1. call[c] \in Call /\ call[c].now \in Nat /\ call[c].now <= clock
    BY DEF IInv, TypeOK, StampsPast, Call
  <1>2. /\ lastByApp' \in [Targets -> Nat \cup {None}]
        /\ \A i \in DOMAIN grants :
              grants[i].now + Cooldown > clock =>
                  /\ lastByApp'[grants[i].key] # None
                  /\ lastByApp'[grants[i].key] >= grants[i].now
        /\ global' \in SUBSET DOMAIN grants
        /\ Recent(clock) \subseteq global'
        /\ Cardinality(global') <= Limit
    BY <1>1, SweepKeeps
  <1>3. TypeOK'
    BY <1>2 DEF IInv, TypeOK
  <1>4. StampsPast'
    BY DEF IInv, TypeOK, StampsPast
  <1>5. CoolingRemembered'
    BY <1>2 DEF CoolingRemembered
  <1>6. RecentRemembered'
    BY <1>2 DEF RecentRemembered, Recent
  <1> QED
    BY <1>3, <1>4, <1>5, <1>6 DEF IInv

(* What decide leaves behind when it reserves: the new repair is stamped    *)
(* with the caller's time and is remembered by the map and by the slice.    *)
LEMMA GrantInductive ==
    ASSUME IInv, NEW c \in Callers, call[c] # None,
           NEW last, last = ExpireByApp(lastByApp, call[c].now),
           NEW idx, idx = ExpireGlobal(global, call[c].now),
           CooldownLeft(last, call[c].key, call[c].now) <= 0,
           ~GlobalFull(idx),
           lastByApp' = [last EXCEPT ![call[c].key] = call[c].now],
           global' = idx \cup {Len(grants) + 1},
           grants' = Append(grants, [key |-> call[c].key, now |-> call[c].now, at |-> clock]),
           answer' = None,
           call' = [call EXCEPT ![c] = None],
           UNCHANGED clock
    PROVE  IInv'
  <1> USE BudgetAssumption, LimiterAssumption
  <1> DEFINE g == [key |-> call[c].key, now |-> call[c].now, at |-> clock]
             n == Len(grants) + 1
  <1>1. /\ call[c] \in Call /\ call[c].now \in Nat /\ call[c].now <= clock
        /\ call[c].key \in Targets /\ clock \in Nat
    BY DEF IInv, TypeOK, StampsPast, Call
  <1>2. /\ last \in [Targets -> Nat \cup {None}]
        /\ \A i \in DOMAIN grants :
              grants[i].now + Cooldown > clock =>
                  /\ last[grants[i].key] # None
                  /\ last[grants[i].key] >= grants[i].now
        /\ idx \in SUBSET DOMAIN grants
        /\ Recent(clock) \subseteq idx
        /\ Cardinality(idx) <= Limit
    BY <1>1, SweepKeeps
  <1>3. g \in Grant
    BY <1>1 DEF Grant
  <1>4. /\ grants' \in Seq(Grant)
        /\ DOMAIN grants' = DOMAIN grants \cup {n}
        /\ \A i \in DOMAIN grants : grants'[i] = grants[i]
        /\ grants'[n] = g
        /\ DOMAIN grants = 1..Len(grants)
        /\ Len(grants) \in Nat
    BY <1>3, AppendFacts DEF IInv, TypeOK
  <1>5. TypeOK'
    <2>1. lastByApp' \in [Targets -> Nat \cup {None}]
      BY <1>1, <1>2
    <2>2. global' \in SUBSET DOMAIN grants'
      BY <1>2, <1>4
    <2>3. call' \in [Callers -> Call \cup {None}]
      BY DEF IInv, TypeOK
    <2> QED
      BY <1>1, <1>4, <2>1, <2>2, <2>3 DEF TypeOK
  <1>6. StampsPast'
    <2>1. \A x \in Callers : call'[x] # None => call'[x].now <= clock
      BY DEF IInv, TypeOK, StampsPast
    <2>2. \A i \in DOMAIN grants' : grants'[i].now <= grants'[i].at /\ grants'[i].at <= clock
      BY <1>1, <1>4 DEF IInv, StampsPast
    <2> QED
      BY <2>1, <2>2 DEF StampsPast
  <1>7. CoolingRemembered'
    <2> SUFFICES ASSUME NEW i \in DOMAIN grants', grants'[i].now + Cooldown > clock
                 PROVE  /\ lastByApp'[grants'[i].key] # None
                        /\ lastByApp'[grants'[i].key] >= grants'[i].now
      BY DEF CoolingRemembered
    <2>1. CASE i = n
      BY <1>1, <1>2, <1>4, <2>1
    <2>2. CASE i \in DOMAIN grants /\ grants[i].key # call[c].key
      <3>1. grants'[i] = grants[i] /\ grants[i] \in Grant
        BY <1>4, <2>2 DEF IInv, TypeOK
      <3> QED
        BY <1>2, <2>2, <3>1 DEF Grant
    <2>3. CASE i \in DOMAIN grants /\ grants[i].key = call[c].key
      <3>1. grants'[i] = grants[i] /\ grants[i] \in Grant
        BY <1>4, <2>3 DEF IInv, TypeOK
      <3>2. last[call[c].key] \in Nat /\ last[call[c].key] >= grants[i].now
        BY <1>1, <1>2, <2>3, <3>1
      <3>3. last[call[c].key] + Cooldown <= call[c].now
        BY <1>1, <3>2 DEF CooldownLeft
      <3>4. lastByApp'[call[c].key] = call[c].now
        BY <1>1, <1>2
      <3>5. call[c].now >= grants[i].now
        BY <1>1, <3>1, <3>2, <3>3 DEF Grant
      <3> QED
        BY <1>1, <2>3, <3>1, <3>4, <3>5
    <2> QED
      BY <1>4, <2>1, <2>2, <2>3
  <1>8. RecentRemembered'
    <2>1. Recent(clock)' \subseteq global'
      BY <1>2, <1>4 DEF Recent
    <2>2. IsFiniteSet(idx) /\ Cardinality(idx) \in Nat
      BY <1>2, GlobalFinite DEF IInv, TypeOK
    <2>3. n \notin idx
      BY <1>2, <1>4
    <2>4. Cardinality(global') = Cardinality(idx) + 1
      BY <2>2, <2>3, FS_AddElement
    <2>5. Cardinality(global') <= Limit
      BY <2>2, <2>4 DEF GlobalFull
    <2> QED
      BY <2>1, <2>5 DEF RecentRemembered
  <1> QED
    BY <1>5, <1>6, <1>7, <1>8 DEF IInv

(* Every action keeps the inductive invariant.                              *)
LEMMA NextInductive ==
    ASSUME IInv, [Next]_vars
    PROVE  IInv'
  <1> USE BudgetAssumption, LimiterAssumption
  <1>1. ASSUME NEW c \in Callers, ReadClock(c)
        PROVE  IInv'
    <2>1. PICK k \in Targets, reserve \in BOOLEAN :
              call' = [call EXCEPT ![c] = [key |-> k, now |-> clock, reserve |-> reserve]]
      BY <1>1 DEF ReadClock
    <2>2. UNCHANGED <<clock, grants, lastByApp, global, answer>>
      BY <1>1 DEF ReadClock, budgetVars
    <2>3. TypeOK'
      BY <2>1, <2>2 DEF IInv, TypeOK, Call
    <2>4. StampsPast'
      BY <2>1, <2>2 DEF IInv, TypeOK, StampsPast
    <2>5. CoolingRemembered' /\ RecentRemembered'
      BY <2>2 DEF IInv, CoolingRemembered, RecentRemembered, Recent
    <2> QED
      BY <2>3, <2>4, <2>5 DEF IInv
  <1>2. ASSUME NEW c \in Callers, Decide(c)
        PROVE  IInv'
    <2> DEFINE k    == call[c].key
               now  == call[c].now
               last == ExpireByApp(lastByApp, now)
               idx  == ExpireGlobal(global, now)
    <2>1. /\ call[c] # None
          /\ call' = [call EXCEPT ![c] = None]
          /\ clock' = clock
      BY <1>2 DEF Decide
    <2>2. /\ call[c] \in Call /\ k \in Targets /\ now \in Nat /\ now <= clock
          /\ last \in [Targets -> Nat \cup {None}]
      BY <2>1, SweepKeeps DEF IInv, TypeOK, StampsPast, Call
    <2>3. CASE /\ CooldownLeft(last, k, now) > 0
               /\ Refuse(c, "per_app_cooldown", CooldownLeft(last, k, now))
               /\ lastByApp' = last
               /\ global' = idx
      <3>1. CooldownLeft(last, k, now) \in Nat
        BY <2>2, <2>3 DEF CooldownLeft
      <3>2. answer' \in Refusal \cup {None} /\ grants' = grants
        BY <2>2, <2>3, <3>1, RetryCovers DEF Refuse, Refusal
      <3> QED
        BY <2>1, <2>3, <3>2, SweepInductive
    <2>4. CASE /\ GlobalFull(idx)
               /\ \E head \in idx :
                     /\ IsHead(head, idx)
                     /\ Refuse(c, "global_rate_limit", GlobalLeft(head, now))
               /\ lastByApp' = last
               /\ global' = idx
      <3>1. PICK head \in idx : Refuse(c, "global_rate_limit", GlobalLeft(head, now))
        BY <2>4
      <3>2. grants[head] \in Grant
        BY DEF IInv, TypeOK, ExpireGlobal
      <3>3. GlobalLeft(head, now) \in Nat
        BY <2>2, <3>2 DEF GlobalLeft, Grant
      <3>4. answer' \in Refusal \cup {None} /\ grants' = grants
        BY <2>2, <3>1, <3>3, RetryCovers DEF Refuse, Refusal
      <3> QED
        BY <2>1, <2>4, <3>4, SweepInductive
    <2>5. CASE /\ CooldownLeft(last, k, now) <= 0
               /\ ~GlobalFull(idx)
               /\ lastByApp' = [last EXCEPT ![k] = now]
               /\ global' = idx \cup {Len(grants) + 1}
               /\ grants' = Append(grants, [key |-> k, now |-> now, at |-> clock])
               /\ answer' = None
      BY <2>1, <2>5, GrantInductive
    <2>6. CASE /\ lastByApp' = last
               /\ global' = idx
               /\ UNCHANGED <<grants, answer>>
      <3>1. answer' \in Refusal \cup {None}
        BY <2>6 DEF IInv, TypeOK
      <3> QED
        BY <2>1, <2>6, <3>1, SweepInductive
    <2> QED
      BY <1>2, <2>3, <2>4, <2>5, <2>6 DEF Decide
  <1>3. ASSUME Tick, UNCHANGED limiterVars
        PROVE  IInv'
    <2>1. clock' = clock + 1 /\ UNCHANGED <<grants, lastByApp, global, call, answer>>
      BY <1>3 DEF Tick, limiterVars
    <2>2. \A i \in DOMAIN grants : grants[i] \in Grant
      BY DEF IInv, TypeOK
    <2>3. TypeOK' /\ StampsPast'
      BY <2>1, <2>2 DEF IInv, TypeOK, StampsPast, Call, Grant
    <2>4. CoolingRemembered'
      BY <2>1, <2>2 DEF IInv, TypeOK, CoolingRemembered, Grant
    <2>5. Recent(clock)' \subseteq Recent(clock)
      BY <2>1, <2>2 DEF Recent, IInv, TypeOK, Grant
    <2>6. RecentRemembered'
      BY <2>1, <2>5 DEF IInv, RecentRemembered
    <2> QED
      BY <2>3, <2>4, <2>6 DEF IInv
  <1>4. CASE UNCHANGED vars
    BY <1>4 DEF vars, budgetVars, limiterVars, IInv, TypeOK, StampsPast,
                CoolingRemembered, RecentRemembered, Recent
  <1> QED
    BY <1>1, <1>2, <1>3, <1>4 DEF Next

(* The limiter starts in its invariant.                                     *)
LEMMA InitInductive ==
    ASSUME Init
    PROVE  IInv
  <1> USE BudgetAssumption, LimiterAssumption
  <1>1. grants = << >> /\ clock = 0 /\ global = {} /\ answer = None
    BY DEF Init, BudgetInit
  <1>2. Cardinality(global) = 0
    BY <1>1, FS_EmptySet
  <1> QED
    BY <1>1, <1>2 DEF Init, IInv, TypeOK, StampsPast, CoolingRemembered,
                      RecentRemembered, Recent

(* The inductive invariant of agentRepairLimiter: whatever still counts at   *)
(* the wall clock is remembered, under every interleaving of its callers.    *)
THEOREM LimiterInvariant == Spec => []IInv
  <1> QED
    BY InitInductive, NextInductive, PTL DEF Spec

(* The state of the limiter stays well formed.                               *)
THEOREM LimiterTypeOK == Spec => []TypeOK
  <1>1. IInv => TypeOK
    BY DEF IInv
  <1> QED
    BY <1>1, LimiterInvariant, PTL

(* A grant is only made to a target whose earlier repairs have all cooled    *)
(* down at the wall clock.                                                    *)
LEMMA GrantIsCooledDown ==
    ASSUME IInv, NEW k \in Targets, NEW now \in Nat, now <= clock,
           CooldownLeft(ExpireByApp(lastByApp, now), k, now) <= 0
    PROVE  CooledDown(k, clock)
  <1> USE BudgetAssumption, LimiterAssumption
  <1> DEFINE last == ExpireByApp(lastByApp, now)
  <1> SUFFICES ASSUME NEW i \in DOMAIN grants, grants[i].key = k,
                      ~(grants[i].now + Cooldown <= clock)
               PROVE  FALSE
    BY DEF CooledDown
  <1>1. grants[i] \in Grant /\ clock \in Nat
    BY DEF IInv, TypeOK
  <1>2. /\ last \in [Targets -> Nat \cup {None}]
        /\ last[k] # None
        /\ last[k] >= grants[i].now
    BY <1>1, SweepKeeps DEF Grant
  <1>3. last[k] + Cooldown > now
    BY <1>1, <1>2 DEF Grant
  <1> QED
    BY <1>2, <1>3 DEF CooldownLeft

(* A grant is only made while the window ending at the wall clock has room.  *)
LEMMA GrantHasRoom ==
    ASSUME IInv, NEW now \in Nat, now <= clock,
           ~GlobalFull(ExpireGlobal(global, now))
    PROVE  Cardinality(Recent(clock)) < Limit
  <1> USE BudgetAssumption, LimiterAssumption
  <1> DEFINE idx == ExpireGlobal(global, now)
  <1>1. Recent(clock) \subseteq idx /\ idx \in SUBSET DOMAIN grants
    BY SweepKeeps
  <1>2. IsFiniteSet(idx) /\ Cardinality(idx) \in Nat
    BY <1>1, GlobalFinite DEF IInv, TypeOK
  <1>3. Cardinality(Recent(clock)) <= Cardinality(idx)
    BY <1>1, <1>2, FS_Subset
  <1>4. Cardinality(Recent(clock)) \in Nat
    BY <1>1, GlobalFinite DEF IInv, TypeOK
  <1> QED
    BY <1>2, <1>3, <1>4 DEF GlobalFull

(* Each step of the limiter is a step of the promise, or changes nothing it  *)
(* talks about.                                                              *)
LEMMA NextRefines ==
    ASSUME IInv, [Next]_vars
    PROVE  [BudgetNext]_budgetVars
  <1> USE BudgetAssumption, LimiterAssumption
  <1>1. ASSUME NEW c \in Callers, ReadClock(c)
        PROVE  UNCHANGED budgetVars
    BY <1>1 DEF ReadClock
  <1>2. ASSUME NEW c \in Callers, Decide(c)
        PROVE  [BudgetNext]_budgetVars
    <2> DEFINE k    == call[c].key
               now  == call[c].now
               last == ExpireByApp(lastByApp, now)
               idx  == ExpireGlobal(global, now)
    <2>1. /\ call[c] # None /\ clock' = clock
          /\ k \in Targets /\ now \in Nat /\ now <= clock /\ clock \in Nat
      BY <1>2 DEF Decide, IInv, TypeOK, StampsPast, Call
    <2>2. CASE UNCHANGED grants
      BY <2>1, <2>2 DEF budgetVars
    <2>3. CASE /\ CooldownLeft(last, k, now) <= 0
               /\ ~GlobalFull(idx)
               /\ grants' = Append(grants, [key |-> k, now |-> now, at |-> clock])
      <3>1. CooledDown(k, clock) /\ Cardinality(Recent(clock)) < Limit
        BY <2>1, <2>3, GrantIsCooledDown, GrantHasRoom
      <3>2. AllowRepair(k, now)
        BY <2>1, <2>3, <3>1 DEF AllowRepair
      <3> QED
        BY <2>1, <3>2 DEF BudgetNext
    <2>4. \/ UNCHANGED grants
          \/ /\ CooldownLeft(last, k, now) <= 0
             /\ ~GlobalFull(idx)
             /\ grants' = Append(grants, [key |-> k, now |-> now, at |-> clock])
      BY <1>2 DEF Decide, Refuse
    <2> QED
      BY <2>2, <2>3, <2>4
  <1>3. CASE UNCHANGED vars
    BY <1>3 DEF vars
  <1> QED
    BY <1>1, <1>2, <1>3 DEF Next, BudgetNext

(* agentRepairLimiter implements the sliding-window promise of RepairBudget. *)
THEOREM LimiterImplementsBudget == Spec => ImplementsBudget
  <1>1. Init => BudgetInit
    BY DEF Init
  <1> QED
    BY <1>1, NextRefines, LimiterInvariant, PTL
       DEF Spec, ImplementsBudget, BudgetSpec

(* "At most 1 agent repair per app per minute": no repair of a target is     *)
(* granted while an earlier one is cooling down, whoever held which time.    *)
THEOREM LimiterCooldown == Spec => []CooldownHeld
  <1> USE BudgetAssumption, LimiterAssumption
  <1>1. Init => CooldownHeld
    BY DEF Init, BudgetInit, CooldownHeld
  <1>2. ASSUME IInv, CooldownHeld, [Next]_vars
        PROVE  CooldownHeld'
    <2>1. CASE UNCHANGED grants
      BY <1>2, <2>1 DEF CooldownHeld
    <2>2. ASSUME NEW k \in Targets, NEW now \in 0..clock, AllowRepair(k, now)
          PROVE  CooldownHeld'
      <3> DEFINE g == [key |-> k, now |-> now, at |-> clock]
      <3>1. g \in Grant /\ grants' = Append(grants, g) /\ CooledDown(k, clock)
        BY <1>2, <2>2 DEF AllowRepair, Grant, IInv, TypeOK
      <3>2. /\ DOMAIN grants' = DOMAIN grants \cup {Len(grants) + 1}
            /\ \A i \in DOMAIN grants : grants'[i] = grants[i]
            /\ grants'[Len(grants) + 1] = g
            /\ DOMAIN grants = 1..Len(grants)
            /\ Len(grants) \in Nat
        BY <1>2, <3>1, AppendFacts DEF IInv, TypeOK
      <3> SUFFICES ASSUME NEW i \in DOMAIN grants', NEW j \in DOMAIN grants',
                          i < j, grants'[i].key = grants'[j].key
                   PROVE  grants'[i].now + Cooldown <= grants'[j].at
        BY DEF CooldownHeld
      <3>3. i \in DOMAIN grants
        BY <3>2
      <3>4. CASE j \in DOMAIN grants
        BY <1>2, <3>2, <3>3, <3>4 DEF CooldownHeld
      <3>5. CASE j = Len(grants) + 1
        BY <3>1, <3>2, <3>3, <3>5 DEF CooledDown
      <3> QED
        BY <3>2, <3>4, <3>5
    <2>3. [BudgetNext]_budgetVars
      BY <1>2, NextRefines
    <2> QED
      BY <2>1, <2>2, <2>3 DEF BudgetNext, Tick, budgetVars
  <1> QED
    BY <1>1, <1>2, LimiterInvariant, PTL DEF Spec

(* "5 agent actions per hour globally": when a repair is granted, it and the *)
(* earlier ones that the hour still counts are at most Limit.                *)
THEOREM LimiterGlobalCap == Spec => []GlobalCapHeld
  <1> USE BudgetAssumption, LimiterAssumption
  <1>1. Init => GlobalCapHeld
    BY DEF Init, BudgetInit, GlobalCapHeld
  <1>2. ASSUME IInv, GlobalCapHeld, [Next]_vars
        PROVE  GlobalCapHeld'
    <2>1. CASE UNCHANGED grants
      BY <1>2, <2>1 DEF GlobalCapHeld
    <2>2. ASSUME NEW k \in Targets, NEW now \in 0..clock, AllowRepair(k, now)
          PROVE  GlobalCapHeld'
      <3> DEFINE g == [key |-> k, now |-> now, at |-> clock]
                 n == Len(grants) + 1
      <3>1. g \in Grant /\ grants' = Append(grants, g) /\ Cardinality(Recent(clock)) < Limit
        BY <1>2, <2>2 DEF AllowRepair, Grant, IInv, TypeOK
      <3>2. /\ DOMAIN grants' = DOMAIN grants \cup {n}
            /\ \A i \in DOMAIN grants : grants'[i] = grants[i]
            /\ grants'[n] = g
            /\ DOMAIN grants = 1..Len(grants)
            /\ Len(grants) \in Nat
        BY <1>2, <3>1, AppendFacts DEF IInv, TypeOK
      <3> SUFFICES ASSUME NEW j \in DOMAIN grants'
                   PROVE  Cardinality({i \in 1..j : grants'[i].now + Window > grants'[j].at})
                            <= Limit
        BY DEF GlobalCapHeld
      <3>3. CASE j \in DOMAIN grants
        <4>1. {i \in 1..j : grants'[i].now + Window > grants'[j].at}
                = {i \in 1..j : grants[i].now + Window > grants[j].at}
          BY <3>2, <3>3
        <4> QED
          BY <1>2, <3>3, <4>1 DEF GlobalCapHeld
      <3>4. CASE j = n
        <4> DEFINE S == {i \in 1..j : grants'[i].now + Window > grants'[j].at}
        <4>1. S \subseteq Recent(clock) \cup {n}
          BY <3>2, <3>4 DEF Recent
        <4>2. /\ Recent(clock) \in SUBSET DOMAIN grants
              /\ IsFiniteSet(Recent(clock)) /\ Cardinality(Recent(clock)) \in Nat
          BY <1>2, GlobalFinite DEF IInv, TypeOK, Recent
        <4>3. n \notin Recent(clock)
          BY <3>2, <4>2
        <4>4. /\ IsFiniteSet(Recent(clock) \cup {n})
              /\ Cardinality(Recent(clock) \cup {n}) = Cardinality(Recent(clock)) + 1
          BY <4>2, <4>3, FS_AddElement
        <4>5. Cardinality(S) <= Cardinality(Recent(clock) \cup {n})
          BY <4>1, <4>4, FS_Subset
        <4>6. Cardinality(S) \in Nat
          BY <4>1, <4>4, FS_Subset, FS_CardinalityType
        <4>7. Cardinality(S) <= Limit
          <5> HIDE DEF S, n
          <5> QED
            BY <3>1, <4>2, <4>4, <4>5, <4>6
        <4> QED
          BY <4>7
      <3> QED
        BY <3>2, <3>3, <3>4
    <2>3. [BudgetNext]_budgetVars
      BY <1>2, NextRefines
    <2> QED
      BY <2>1, <2>2, <2>3 DEF BudgetNext, Tick, budgetVars
  <1> QED
    BY <1>1, <1>2, LimiterInvariant, PTL DEF Spec

-----------------------------------------------------------------------------
(* The wait that a refused caller is told.                                   *)

(* A sweep keeps what it does not drop.                                      *)
LEMMA SweepOnlyDrops ==
    ASSUME TypeOK, NEW c \in Callers, call[c] # None
    PROVE  LET last == ExpireByApp(lastByApp, call[c].now)
               idx  == ExpireGlobal(global, call[c].now)
           IN  /\ \A k \in Targets : last[k] \in {lastByApp[k], None}
               /\ idx \subseteq global
  BY DEF ExpireByApp, ExpireGlobal

(* What the limiter holds at a later time is no more than it holds of it.    *)
LEMMA WaitStays ==
    ASSUME IInv, RetryAfterSufficient, answer' = answer,
           \A k \in Targets : lastByApp'[k] \in {lastByApp[k], None},
           global' \subseteq global,
           UNCHANGED grants
    PROVE  RetryAfterSufficient'
  <1> USE BudgetAssumption, LimiterAssumption
  <1> SUFFICES ASSUME answer # None PROVE RetryAfterSufficient'
    BY DEF RetryAfterSufficient
  <1>1. answer.key \in Targets /\ answer.retryAt \in Nat
    BY DEF IInv, TypeOK, Refusal
  <1>2. ASSUME answer.reason = "per_app_cooldown"
        PROVE  CooldownLeft(ExpireByApp(lastByApp', answer.retryAt), answer.key, answer.retryAt) <= 0
    BY <1>1, <1>2 DEF RetryAfterSufficient, CooldownLeft, ExpireByApp
  <1>3. ASSUME answer.reason = "global_rate_limit"
        PROVE  ~(Cardinality({i \in global' : grants[i].now + Window > answer.retryAt}) >= Limit)
    <2> DEFINE old == {i \in global : grants[i].now + Window > answer.retryAt}
               new == {i \in global' : grants[i].now + Window > answer.retryAt}
    <2>1. new \subseteq old /\ old \in SUBSET DOMAIN grants
      BY DEF IInv, TypeOK
    <2>2. ~(Cardinality(old) >= Limit)
      BY <1>3 DEF RetryAfterSufficient, GlobalFull, ExpireGlobal
    <2> HIDE DEF old, new
    <2>3. /\ IsFiniteSet(old) /\ Cardinality(old) \in Nat /\ Cardinality(new) \in Nat
          /\ Cardinality(new) <= Cardinality(old)
      <3>1. new \in SUBSET DOMAIN grants
        BY <2>1
      <3> QED
        BY <2>1, <3>1, GlobalFinite, FS_Subset DEF IInv, TypeOK
    <2>4. ~(Cardinality(new) >= Limit)
      BY <2>2, <2>3
    <2> QED
      BY <2>4 DEF new
  <1>4. answer'.reason = "per_app_cooldown" =>
            CooldownLeft(ExpireByApp(lastByApp, answer.retryAt), answer.key, answer.retryAt)' <= 0
    BY <1>2 DEF CooldownLeft, ExpireByApp
  <1>5. answer'.reason = "global_rate_limit" => ~GlobalFull(ExpireGlobal(global, answer.retryAt))'
    BY <1>3 DEF GlobalFull, ExpireGlobal
  <1> QED
    BY <1>4, <1>5 DEF RetryAfterSufficient

(* A refusal for the cap names a time by which the head has left the slice.  *)
LEMMA HeadGone ==
    ASSUME IInv, NEW now \in Nat, NEW head \in ExpireGlobal(global, now),
           NEW later \in Nat, later >= now + GlobalLeft(head, now)
    PROVE  ~GlobalFull(ExpireGlobal(ExpireGlobal(global, now), later))
  <1> USE BudgetAssumption, LimiterAssumption
  <1> DEFINE rest == ExpireGlobal(ExpireGlobal(global, now), later)
  <1>1. head \in global /\ global \in SUBSET DOMAIN grants /\ grants[head].now \in Nat
    <2>1. head \in global /\ global \in SUBSET DOMAIN grants /\ grants \in Seq(Grant)
      BY DEF ExpireGlobal, IInv, TypeOK
    <2>2. grants[head] \in Grant
      BY <2>1
    <2> QED
      BY <2>1, <2>2 DEF Grant
  <1>2. head \notin rest /\ rest \subseteq global \ {head}
    BY <1>1 DEF ExpireGlobal, GlobalLeft
  <1>3. IsFiniteSet(global) /\ Cardinality(global) \in Nat
    BY <1>1, GlobalFinite DEF IInv, TypeOK
  <1>4. /\ IsFiniteSet(global \ {head})
        /\ Cardinality(global \ {head}) = Cardinality(global) - 1
    BY <1>1, <1>3, FS_RemoveElement
  <1>5. Cardinality(rest) <= Cardinality(global \ {head}) /\ Cardinality(rest) \in Nat
    BY <1>2, <1>4, FS_Subset, FS_CardinalityType
  <1>6. Cardinality(global) <= Limit
    BY DEF IInv, RecentRemembered
  <1> HIDE DEF rest
  <1>7. ~(Cardinality(rest) >= Limit)
    BY <1>3, <1>4, <1>5, <1>6
  <1> QED
    BY <1>7 DEF rest, GlobalFull

(* A caller that comes back when it was told to, with nothing granted in     *)
(* between, is not refused for the same reason again: RetryAfterSeconds of   *)
(* agentRepairRefusal is rounded up and covers the whole wait.               *)
THEOREM LimiterRetry == Spec => []RetryAfterSufficient
  <1> USE BudgetAssumption, LimiterAssumption
  <1>1. Init => RetryAfterSufficient
    BY DEF Init, RetryAfterSufficient
  <1>2. ASSUME IInv, RetryAfterSufficient, [Next]_vars
        PROVE  RetryAfterSufficient'
    <2>1. ASSUME NEW c \in Callers, Decide(c) PROVE RetryAfterSufficient'
      <3> DEFINE k    == call[c].key
                 now  == call[c].now
                 last == ExpireByApp(lastByApp, now)
                 idx  == ExpireGlobal(global, now)
      <3>1. call[c] # None /\ k \in Targets /\ now \in Nat
        BY <1>2, <2>1 DEF Decide, IInv, TypeOK, Call
      <3>2. /\ \A t \in Targets : last[t] \in {lastByApp[t], None}
            /\ idx \subseteq global
        BY <1>2, <3>1, SweepOnlyDrops DEF IInv
      <3>3. CASE answer' = answer /\ grants' = grants /\ lastByApp' = last /\ global' = idx
        BY <1>2, <3>2, <3>3, WaitStays
      <3>4. CASE answer' = None
        BY <3>4 DEF RetryAfterSufficient
      <3>5. CASE /\ CooldownLeft(last, k, now) > 0
                 /\ Refuse(c, "per_app_cooldown", CooldownLeft(last, k, now))
                 /\ lastByApp' = last
        <4> DEFINE left == CooldownLeft(last, k, now)
        <4>1. lastByApp[k] \in Nat /\ last[k] = lastByApp[k] /\ left = lastByApp[k] + Cooldown - now
          BY <1>2, <3>1, <3>5 DEF IInv, TypeOK, ExpireByApp, CooldownLeft
        <4>2. left \in Nat
          BY <3>1, <3>5, <4>1
        <4>3. PICK later : later = now + Second * RetryAfterSeconds(left)
          OBVIOUS
        <4>4. later \in Nat /\ later >= lastByApp[k] + Cooldown
          <5> HIDE DEF left
          <5> QED
            BY <3>1, <4>1, <4>2, <4>3, RetryCovers
        <4>5. answer' = [reason |-> "per_app_cooldown", key |-> k, retryAt |-> later]
          BY <3>5, <4>3 DEF Refuse
        <4>6. answer'.reason = "per_app_cooldown" /\ answer'.key = k /\ answer'.retryAt = later
          BY <4>5
        <4>7. CooldownLeft(ExpireByApp(lastByApp', later), k, later) <= 0
          BY <3>1, <3>5, <4>1, <4>4 DEF ExpireByApp, CooldownLeft
        <4>8. CooldownLeft(ExpireByApp(lastByApp, answer.retryAt), answer.key, answer.retryAt)' <= 0
          BY <4>6, <4>7 DEF CooldownLeft, ExpireByApp
        <4> QED
          BY <4>6, <4>8 DEF RetryAfterSufficient
      <3>6. ASSUME NEW head \in idx, Refuse(c, "global_rate_limit", GlobalLeft(head, now)), global' = idx
            PROVE  RetryAfterSufficient'
        <4> DEFINE left == GlobalLeft(head, now)
        <4>1. grants[head].now \in Nat
          <5>1. head \in DOMAIN grants /\ grants \in Seq(Grant)
            BY <1>2, <3>2 DEF IInv, TypeOK
          <5>2. grants[head] \in Grant
            BY <5>1
          <5> QED
            BY <5>2 DEF Grant
        <4>2. left \in Nat
          BY <3>1, <4>1 DEF GlobalLeft
        <4>3. PICK later : later = now + Second * RetryAfterSeconds(left)
          OBVIOUS
        <4>4. later \in Nat /\ later >= now + left
          <5> HIDE DEF left
          <5> QED
            BY <3>1, <4>2, <4>3, RetryCovers
        <4>5. answer' = [reason |-> "global_rate_limit", key |-> k, retryAt |-> later] /\ grants' = grants
          BY <3>6, <4>3 DEF Refuse
        <4>6. answer'.reason = "global_rate_limit" /\ answer'.retryAt = later
          BY <4>5
        <4>7. ~GlobalFull(ExpireGlobal(idx, later))
          BY <1>2, <3>1, <4>4, HeadGone
        <4>8. ~GlobalFull(ExpireGlobal(global, answer.retryAt))'
          BY <3>6, <4>5, <4>6, <4>7 DEF GlobalFull, ExpireGlobal
        <4> QED
          BY <4>6, <4>8 DEF RetryAfterSufficient
      <3> QED
        BY <2>1, <3>3, <3>4, <3>5, <3>6 DEF Decide
    <2>2. ASSUME NEW c \in Callers, ReadClock(c) PROVE RetryAfterSufficient'
      BY <1>2, <2>2, WaitStays DEF ReadClock, budgetVars
    <2>3. CASE Tick /\ UNCHANGED limiterVars
      BY <1>2, <2>3, WaitStays DEF Tick, limiterVars
    <2>4. CASE UNCHANGED vars
      BY <1>2, <2>4, WaitStays DEF vars, limiterVars, budgetVars
    <2> QED
      BY <1>2, <2>1, <2>2, <2>3, <2>4 DEF Next
  <1> QED
    BY <1>1, <1>2, LimiterInvariant, PTL DEF Spec

-----------------------------------------------------------------------------
(* The login throttle.                                                       *)

(* The operators an instance has of its own are the ones of FiniteSets.      *)
LEMMA ThrottleSets ==
    ASSUME NEW S
    PROVE  Throttle!Cardinality(S) = Cardinality(S) /\ Throttle!IsFiniteSet(S) = IsFiniteSet(S)
  BY DEF Throttle!Cardinality, Cardinality, Throttle!IsFiniteSet, IsFiniteSet

LEMMA ThrottleAssumed ==
    /\ MaxLoginFailures \in Nat \ {0, 1} /\ MaxFailureKeys \in Nat \ {0}
    /\ FailureWindow \in Nat /\ Lockout \in Nat
    /\ Lockout > FailureWindow
    /\ MaxHour \in Nat /\ MaxGuesses \in Nat
    /\ IsFiniteSet(Attempts) /\ Attempts # {}
    /\ None \notin LoginKeys \cup Throttle!Entry
  BY AccessAssumption, ThrottleSets DEF AccessAssumption, Throttle!LoginThrottleAssumption

FewKeys == Cardinality(Throttle!Entries(record)) <= MaxFailureKeys

(* The logins for a key between their two locks.                            *)
InFlight(k) == {a \in Attempts : attempt[a] = k}

\* The failures in a window, at most, and how many failures of the window before
\* may lie within a window's length of the first of this one.
Most == MaxLoginFailures + Cardinality(Attempts) - 1
Trailing == MaxLoginFailures + Cardinality(Attempts) - 3

ThrottleShapes ==
    /\ hour \in Nat
    /\ record \in [LoginKeys -> Throttle!Entry \cup {None}]
    /\ attempt \in [Attempts -> LoginKeys \cup {None}]
    /\ failed \in [LoginKeys -> Seq(Nat)]

\* The failures of a key in the order of their times; enough of them take longer
\* than a window.
Ordered(f, time) ==
    /\ \A i, j \in 1..Len(f) : i <= j => f[i] <= f[j]
    /\ \A i \in 1..Len(f) : f[i] <= time
    /\ \A i, j \in 1..Len(f) : i + Most + Trailing <= j => f[i] + FailureWindow < f[j]

\* All but the last few of n failures are over a window's length before a time.
Over(f, n, time) == \A i \in 1..Len(f) : i <= n - Trailing => f[i] + FailureWindow < time

\* An entry counts the last failures of its key, and is locked from the last of
\* them on when they are too many; the logins that may still fail were begun
\* before the lock.
Counts(count, first, until, f, flying, time) ==
    /\ count \in 1..Len(f) /\ count <= Most
    /\ f[Len(f) - count + 1] = first
    /\ Over(f, Len(f) - count, first)
    /\ until = IF count >= MaxLoginFailures THEN f[Len(f)] + Lockout ELSE 0
    /\ time < until => count + flying <= Most

CountsIn(e, f, flying, time) == Counts(e.failures, e.first, e.until, f, flying, time)

Throttled(k) ==
    /\ Ordered(failed[k], hour)
    /\ record[k] = None => Over(failed[k], Len(failed[k]), hour)
    /\ record[k] # None => CountsIn(record[k], failed[k], Cardinality(InFlight(k)), hour)

ThrottleInv ==
    /\ ThrottleShapes
    /\ \A k \in LoginKeys : Throttled(k)
    /\ IsFiniteSet(Throttle!Entries(record)) /\ FewKeys

-----------------------------------------------------------------------------

LEMMA Sizes ==
    /\ MaxLoginFailures \in Nat /\ MaxLoginFailures >= 2
    /\ FailureWindow \in Nat /\ Lockout \in Nat /\ Lockout > FailureWindow
    /\ Cardinality(Attempts) \in Nat \ {0} /\ Most \in Nat \ {0, 1} /\ Trailing \in Nat
    /\ MaxLoginFailures <= Most /\ Trailing <= Most /\ Trailing >= MaxLoginFailures - 2
    /\ Most = Trailing + 2 /\ Most = MaxLoginFailures + Cardinality(Attempts) - 1
  <1>1. Cardinality(Attempts) \in Nat
    BY ThrottleAssumed, FS_CardinalityType
  <1>2. Cardinality(Attempts) # 0
    BY ThrottleAssumed, FS_EmptySet
  <1> QED
    BY <1>1, <1>2, ThrottleAssumed DEF Most, Trailing

LEMMA Twice == Most + Trailing = 2 * (MaxLoginFailures + Cardinality(Attempts) - 2)
  BY Sizes DEF Most, Trailing

LEMMA Times ==
    ASSUME NEW f \in Seq(Nat)
    PROVE  Len(f) \in Nat /\ \A i \in 1..Len(f) : f[i] \in Nat
  OBVIOUS

LEMMA Earlier ==
    ASSUME NEW x \in Nat, NEW y \in Nat, NEW time \in Nat, x <= y,
           time - y > FailureWindow \/ y + Lockout <= time
    PROVE  x + FailureWindow < time
  BY Sizes

LEMMA OverLater ==
    ASSUME NEW f \in Seq(Nat), NEW n \in Int, NEW time \in Nat, NEW later \in Nat, time <= later,
           Over(f, n, time)
    PROVE  Over(f, n, later)
  <1> SUFFICES ASSUME NEW i \in 1..Len(f), i <= n - Trailing PROVE f[i] + FailureWindow < later
    BY DEF Over
  <1>1. f[i] \in Nat /\ f[i] + FailureWindow < time
    BY DEF Over
  <1> QED
    BY <1>1, Sizes

LEMMA OrderedLater ==
    ASSUME NEW f \in Seq(Nat), NEW time \in Nat, NEW later \in Nat, time <= later,
           Ordered(f, time)
    PROVE  Ordered(f, later)
  <1>1. ASSUME NEW i \in 1..Len(f) PROVE f[i] <= later
    <2>1. f[i] \in Nat /\ f[i] <= time
      BY DEF Ordered
    <2> QED
      BY <2>1
  <1> QED
    BY <1>1 DEF Ordered

LEMMA CountsLater ==
    ASSUME NEW f \in Seq(Nat), NEW time \in Nat, NEW later \in Nat, time <= later,
           NEW count \in Nat, NEW first \in Nat, NEW until \in Nat, NEW n \in Nat, NEW m \in Nat,
           Counts(count, first, until, f, n, time),
           m <= n \/ ~(time < until)
    PROVE  Counts(count, first, until, f, m, later)
  <1>1. later < until => count + m <= Most
    <2>1. time < until => count + n <= Most
      BY DEF Counts
    <2> QED
      BY <2>1, Sizes
  <1> QED
    BY <1>1 DEF Counts

(* An entry that is pruned, or whose window is over while it is locked and   *)
(* one more login fails, leaves few failures near.                          *)
LEMMA WindowLeft ==
    ASSUME NEW f \in Seq(Nat), NEW time \in Nat,
           NEW count \in Nat, NEW first \in Nat, NEW until \in Nat, NEW n \in Nat,
           Ordered(f, time), Counts(count, first, until, f, n, time), time - first > FailureWindow,
           time < until => n >= 1
    PROVE  Over(f, Len(f), time)
  <1> SUFFICES ASSUME NEW i \in 1..Len(f), i <= Len(f) - Trailing
               PROVE  f[i] + FailureWindow < time
    BY DEF Over
  <1>1. f[i] \in Nat /\ Len(f) \in Nat
    BY Times
  <1>2. CASE time < until \/ count < MaxLoginFailures
    <2>1. count <= Trailing + 1
      <3>1. time < until => count + n <= Most
        BY DEF Counts
      <3> QED
        BY <1>2, <3>1, Sizes
    <2>2. i <= Len(f) - count + 1 /\ Len(f) - count + 1 \in 1..Len(f)
      <3>1. count \in 1..Len(f)
        BY DEF Counts
      <3> QED
        BY <1>1, <2>1, <3>1, Sizes
    <2>3. f[i] <= first
      <3>1. f[Len(f) - count + 1] = first
        BY DEF Counts
      <3> QED
        BY <2>2, <3>1 DEF Ordered
    <2> QED
      BY <1>1, <2>3, Earlier
  <1>3. CASE ~(time < until) /\ count >= MaxLoginFailures
    <2>1. Len(f) \in 1..Len(f) /\ i <= Len(f)
      BY <1>1
    <2>2. f[i] <= f[Len(f)] /\ f[Len(f)] \in Nat
      BY <2>1, Times DEF Ordered
    <2>3. until = f[Len(f)] + Lockout
      BY <1>3 DEF Counts
    <2>4. f[Len(f)] + Lockout <= time
      <3> DEFINE last == f[Len(f)]
      <3>1. last \in Nat /\ until = last + Lockout
        BY <2>2, <2>3
      <3> HIDE DEF last
      <3>2. last + Lockout <= time
        BY <1>3, <3>1, Sizes
      <3> QED
        BY <3>2 DEF last
    <2> QED
      BY <1>1, <2>2, <2>4, Earlier
  <1> QED
    BY <1>2, <1>3, Sizes

LEMMA Longer ==
    ASSUME NEW f \in Seq(Nat), NEW time \in Nat
    PROVE  LET g == Append(f, time)
           IN  /\ g \in Seq(Nat) /\ Len(g) = Len(f) + 1 /\ Len(f) \in Nat /\ g[Len(f) + 1] = time
               /\ \A i \in 1..Len(f) : g[i] = f[i]
  OBVIOUS

LEMMA OrderedLonger ==
    ASSUME NEW f \in Seq(Nat), NEW time \in Nat, Ordered(f, time),
           \A i \in 1..Len(f) : i + Most + Trailing <= Len(f) + 1 => f[i] + FailureWindow < time
    PROVE  Ordered(Append(f, time), time)
  <1> DEFINE g == Append(f, time)
  <1>1. /\ g \in Seq(Nat) /\ Len(g) = Len(f) + 1 /\ Len(f) \in Nat /\ g[Len(f) + 1] = time
        /\ \A i \in 1..Len(f) : g[i] = f[i]
    BY Longer
  <1> HIDE DEF g
  <1>2. \A i \in 1..Len(g) : i \in 1..Len(f) \/ i = Len(f) + 1
    BY <1>1
  <1>3. ASSUME NEW i \in 1..Len(g) PROVE g[i] <= time
    <2>1. CASE i \in 1..Len(f)
      BY <1>1, <2>1 DEF Ordered
    <2>2. CASE i = Len(f) + 1
      BY <1>1, <2>2
    <2> QED
      BY <1>2, <2>1, <2>2
  <1>4. ASSUME NEW i \in 1..Len(g), NEW j \in 1..Len(g), i <= j PROVE g[i] <= g[j]
    <2>1. CASE j = Len(f) + 1
      BY <1>1, <1>3, <2>1
    <2>2. CASE j \in 1..Len(f)
      <3>1. i \in 1..Len(f)
        BY <1>1, <1>4, <2>2
      <3> QED
        BY <1>1, <1>4, <2>2, <3>1 DEF Ordered
    <2> QED
      BY <1>2, <2>1, <2>2
  <1>5. ASSUME NEW i \in 1..Len(g), NEW j \in 1..Len(g), i + Most + Trailing <= j
        PROVE  g[i] + FailureWindow < g[j]
    <2>1. i \in 1..Len(f)
      BY <1>1, <1>5, Sizes
    <2>2. CASE j = Len(f) + 1
      BY <1>1, <1>5, <2>1, <2>2
    <2>3. CASE j \in 1..Len(f)
      BY <1>1, <1>5, <2>1, <2>3 DEF Ordered
    <2> QED
      BY <1>2, <2>2, <2>3
  <1>6. Ordered(g, time)
    BY <1>3, <1>4, <1>5 DEF Ordered
  <1> QED
    BY <1>6 DEF g

(* One failure more, in a new window.                                       *)
LEMMA NewWindow ==
    ASSUME NEW f \in Seq(Nat), NEW time \in Nat, NEW n \in Nat, Ordered(f, time), Over(f, Len(f), time)
    PROVE  /\ Ordered(Append(f, time), time)
           /\ Counts(1, time, 0, Append(f, time), n, time)
  <1> DEFINE g == Append(f, time)
  <1>1. /\ g \in Seq(Nat) /\ Len(g) = Len(f) + 1 /\ Len(f) \in Nat /\ g[Len(f) + 1] = time
        /\ \A i \in 1..Len(f) : g[i] = f[i]
    BY Longer
  <1>2. Ordered(g, time)
    BY OrderedLonger, Sizes DEF Over
  <1> HIDE DEF g
  <1>3. Over(g, Len(g) - 1, time)
    <2> SUFFICES ASSUME NEW i \in 1..Len(g), i <= Len(g) - 1 - Trailing PROVE g[i] + FailureWindow < time
      BY DEF Over
    <2>1. i \in 1..Len(f) /\ i <= Len(f) - Trailing
      BY <1>1, Sizes
    <2> QED
      BY <1>1, <2>1 DEF Over
  <1>4. Counts(1, time, 0, g, n, time)
    BY <1>1, <1>3, Sizes DEF Counts
  <1> QED
    BY <1>2, <1>4 DEF g

(* One failure more, in the window that is open.                            *)
LEMMA SameWindow ==
    ASSUME NEW f \in Seq(Nat), NEW time \in Nat,
           NEW count \in Nat, NEW first \in Nat, NEW until \in Nat, NEW n \in Nat, n >= 1,
           n <= Cardinality(Attempts),
           Ordered(f, time), Counts(count, first, until, f, n, time), ~(time - first > FailureWindow)
    PROVE  /\ Ordered(Append(f, time), time)
           /\ Counts(count + 1, first, IF count + 1 >= MaxLoginFailures THEN time + Lockout ELSE until,
                     Append(f, time), n - 1, time)
  <1> DEFINE g == Append(f, time)
             lock == IF count + 1 >= MaxLoginFailures THEN time + Lockout ELSE until
  <1>1. /\ g \in Seq(Nat) /\ Len(g) = Len(f) + 1 /\ Len(f) \in Nat /\ g[Len(f) + 1] = time
        /\ \A i \in 1..Len(f) : g[i] = f[i]
    BY Longer
  <1>2. /\ count \in 1..Len(f) /\ f[Len(f) - count + 1] = first
        /\ Over(f, Len(f) - count, first)
        /\ count >= MaxLoginFailures => until = f[Len(f)] + Lockout
        /\ ~(count >= MaxLoginFailures) => until = 0
        /\ time < until => count + n <= Most
    BY DEF Counts
  <1>3. Len(f) - count + 1 \in 1..Len(f) /\ Len(f) \in 1..Len(f) /\ Len(f) - count + 1 <= Len(f)
    BY <1>1, <1>2
  <1>4. first <= f[Len(f)] /\ f[Len(f)] \in Nat /\ first <= time
    BY <1>2, <1>3, Times DEF Ordered
  <1>5. count >= MaxLoginFailures => time < until
    <2> SUFFICES ASSUME count >= MaxLoginFailures PROVE time < until
      OBVIOUS
    <2> DEFINE last == f[Len(f)]
    <2>1. last \in Nat /\ first <= last /\ until = last + Lockout
      BY <1>2, <1>4
    <2> HIDE DEF last
    <2> QED
      BY <2>1, Sizes
  <1>6. count + 1 + (n - 1) <= Most
    BY <1>2, <1>5, Sizes
  <1>7. Ordered(g, time)
    <2>1. ASSUME NEW i \in 1..Len(f), i + Most + Trailing <= Len(f) + 1
          PROVE  f[i] + FailureWindow < time
      <3>1. i <= Len(f) - count - Trailing
        BY <1>1, <1>6, <2>1, Sizes
      <3>2. f[i] + FailureWindow < first /\ f[i] \in Nat
        BY <1>2, <3>1, Times DEF Over
      <3> QED
        BY <1>4, <3>2, Sizes
    <2> QED
      BY <2>1, OrderedLonger
  <1> HIDE DEF g
  <1>8. Len(g) - (count + 1) = Len(f) - count /\ count + 1 \in 1..Len(g)
    BY <1>1, <1>2
  <1>9. Over(g, Len(g) - (count + 1), first)
    <2> SUFFICES ASSUME NEW i \in 1..Len(g), i <= Len(g) - (count + 1) - Trailing
                 PROVE  g[i] + FailureWindow < first
      BY DEF Over
    <2>1. i \in 1..Len(f) /\ i <= Len(f) - count - Trailing
      <3>1. i <= Len(f) - count - Trailing
        BY <1>8
      <3>2. Trailing \in Nat /\ i \in Int /\ 1 <= i
        BY <1>1, Sizes
      <3> QED
        BY <1>1, <3>1, <3>2
    <2> QED
      BY <1>1, <1>2, <2>1 DEF Over
  <1>10. g[Len(g) - (count + 1) + 1] = first
    <2>1. Len(g) - (count + 1) + 1 = Len(f) - count + 1
      BY <1>1
    <2> QED
      BY <1>1, <1>2, <1>3, <2>1
  <1>11. lock = IF count + 1 >= MaxLoginFailures THEN g[Len(g)] + Lockout ELSE 0
    BY <1>1, <1>2, Sizes
  <1>12. count + 1 <= Most
    BY <1>6, Sizes
  <1> HIDE DEF lock
  <1>13. Counts(count + 1, first, lock, g, n - 1, time)
    BY <1>6, <1>8, <1>9, <1>10, <1>11, <1>12 DEF Counts
  <1> QED
    BY <1>7, <1>13 DEF g, lock

-----------------------------------------------------------------------------

LEMMA Flying ==
    ASSUME ThrottleShapes, NEW k \in LoginKeys
    PROVE  IsFiniteSet(InFlight(k)) /\ Cardinality(InFlight(k)) \in Nat
           /\ Cardinality(InFlight(k)) <= Cardinality(Attempts)
  BY ThrottleAssumed, FS_Subset, FS_CardinalityType DEF InFlight

LEMMA FlyingNext ==
    ASSUME NEW k \in LoginKeys
    PROVE  Cardinality(InFlight(k)') \in Nat
  BY ThrottleAssumed, FS_Subset, FS_CardinalityType DEF InFlight

(* A login that is answered is no longer in flight, one that is let in is.  *)
LEMMA Landed ==
    ASSUME ThrottleShapes, NEW a \in Attempts, NEW k \in LoginKeys, attempt[a] = k,
           attempt' = [attempt EXCEPT ![a] = None]
    PROVE  /\ Cardinality(InFlight(k)) >= 1
           /\ Cardinality(InFlight(k)') = Cardinality(InFlight(k)) - 1
           /\ \A j \in LoginKeys \ {k} : InFlight(j)' = InFlight(j)
  <1>1. None \notin LoginKeys
    BY ThrottleAssumed
  <1>2. InFlight(k)' = InFlight(k) \ {a} /\ a \in InFlight(k)
    BY <1>1 DEF InFlight, ThrottleShapes
  <1>3. Cardinality(InFlight(k)') = Cardinality(InFlight(k)) - 1
    BY <1>2, Flying, FS_RemoveElement
  <1>4. Cardinality(InFlight(k)) # 0
    BY <1>2, Flying, FS_EmptySet
  <1>5. \A j \in LoginKeys \ {k} : InFlight(j)' = InFlight(j)
    BY <1>1 DEF InFlight, ThrottleShapes
  <1> QED
    BY <1>3, <1>4, <1>5, Flying

LEMMA LetIn ==
    ASSUME ThrottleShapes, NEW a \in Attempts, NEW k \in LoginKeys, attempt[a] = None,
           attempt' = [attempt EXCEPT ![a] = k]
    PROVE  \A j \in LoginKeys \ {k} : InFlight(j)' = InFlight(j)
  <1>1. None \notin LoginKeys
    BY ThrottleAssumed
  <1> QED
    BY <1>1 DEF InFlight, ThrottleShapes

LEMMA Fields ==
    ASSUME NEW e \in Throttle!Entry
    PROVE  e.failures \in Nat /\ e.first \in Nat /\ e.until \in Nat /\ e # None
  BY ThrottleAssumed DEF Throttle!Entry

(* Pruning drops only entries that leave few failures near.                 *)
LEMMA KeptCounts ==
    ASSUME ThrottleInv, NEW k \in LoginKeys
    PROVE  /\ Throttle!Kept \in [LoginKeys -> Throttle!Entry \cup {None}]
           /\ Throttle!Kept[k] \in {record[k], None}
           /\ Throttle!Kept[k] = None => Over(failed[k], Len(failed[k]), hour)
           /\ Throttle!Kept[k] # None => CountsIn(Throttle!Kept[k], failed[k], Cardinality(InFlight(k)), hour)
           /\ Throttle!Kept[k] # None /\ Throttle!Locked(Throttle!Kept[k]) => Cardinality(InFlight(k)) \in Nat
           /\ Throttle!Kept[k] # None /\ ~Throttle!Locked(Throttle!Kept[k]) => ~Throttle!WindowOver(Throttle!Kept[k])
  <1> DEFINE n == Cardinality(InFlight(k))
             f == failed[k]
  <1>1. ThrottleShapes /\ Throttled(k) /\ f \in Seq(Nat) /\ hour \in Nat /\ n \in Nat
    BY Flying DEF ThrottleInv, ThrottleShapes
  <1>2. Throttle!Kept \in [LoginKeys -> Throttle!Entry \cup {None}] /\ Throttle!Kept[k] \in {record[k], None}
    BY <1>1 DEF Throttle!Kept, ThrottleShapes
  <1>3. Throttle!Kept[k] # None =>
          Throttle!Kept[k] = record[k] /\ (~Throttle!Locked(Throttle!Kept[k]) => ~Throttle!WindowOver(Throttle!Kept[k]))
    BY DEF Throttle!Kept
  <1>4. Throttle!Kept[k] = None /\ record[k] # None => Over(f, Len(f), hour)
    <2> SUFFICES ASSUME Throttle!Kept[k] = None, record[k] # None PROVE Over(f, Len(f), hour)
      OBVIOUS
    <2>1. ~Throttle!Locked(record[k]) /\ Throttle!WindowOver(record[k])
      BY DEF Throttle!Kept
    <2> DEFINE count == record[k].failures
               first == record[k].first
               until == record[k].until
    <2>2. /\ count \in Nat /\ first \in Nat /\ until \in Nat /\ ~(hour < until)
          /\ hour - first > FailureWindow
          /\ Ordered(f, hour) /\ Counts(count, first, until, f, n, hour)
      BY <1>1, <2>1, Fields DEF Throttle!Locked, Throttle!WindowOver, Throttled, CountsIn, ThrottleShapes
    <2> HIDE DEF count, first, until, f, n
    <2> QED
      BY <1>1, <2>2, WindowLeft
  <1> QED
    BY <1>1, <1>2, <1>3, <1>4 DEF Throttled

LEMMA ThrottleInit == Throttle!Init => ThrottleInv
  <1> SUFFICES ASSUME Throttle!Init PROVE ThrottleInv
    OBVIOUS
  <1>1. ThrottleShapes
    BY DEF Throttle!Init, ThrottleShapes
  <1>2. ASSUME NEW k \in LoginKeys PROVE Throttled(k)
    <2>1. failed[k] = <<>> /\ record[k] = None
      BY DEF Throttle!Init
    <2> QED
      BY <2>1, Sizes DEF Throttled, Ordered, Over
  <1>3. Throttle!Entries(record) = {}
    BY DEF Throttle!Init, Throttle!Entries
  <1> QED
    BY <1>1, <1>2, <1>3, FS_EmptySet, ThrottleAssumed DEF ThrottleInv, FewKeys

(* What the limiter drops, or leaves as it is, while a key's failures stay.  *)
LEMMA Stays ==
    ASSUME ThrottleInv, NEW k \in LoginKeys, failed'[k] = failed[k], hour' = hour,
           record'[k] = Throttle!Kept[k] \/ record'[k] = record[k],
           Cardinality(InFlight(k)') \in Nat,
           \/ Cardinality(InFlight(k)') <= Cardinality(InFlight(k))
           \/ record'[k] = None \/ ~Throttle!Locked(record'[k])
    PROVE  Throttled(k)'
  <1> DEFINE n == Cardinality(InFlight(k))
             m == Cardinality(InFlight(k)')
             f == failed[k]
             e == record'[k]
  <1>1. ThrottleShapes /\ Throttled(k) /\ f \in Seq(Nat) /\ hour \in Nat /\ n \in Nat /\ m \in Nat
    BY Flying DEF ThrottleInv, ThrottleShapes
  <1>2. e = None => Over(f, Len(f), hour)
    BY <1>1, KeptCounts DEF Throttled
  <1>3. e # None => e \in Throttle!Entry /\ CountsIn(e, f, n, hour)
    BY <1>1, KeptCounts DEF Throttled, ThrottleShapes
  <1>4. e # None => CountsIn(e, f, m, hour)
    <2> SUFFICES ASSUME e # None PROVE CountsIn(e, f, m, hour)
      OBVIOUS
    <2> DEFINE count == e.failures
               first == e.first
               until == e.until
    <2>1. count \in Nat /\ first \in Nat /\ until \in Nat /\ (m <= n \/ ~(hour < until))
      BY <1>3, Fields DEF Throttle!Locked
    <2>2. Counts(count, first, until, f, n, hour)
      BY <1>3 DEF CountsIn
    <2>0. hour <= hour /\ f \in Seq(Nat) /\ hour \in Nat /\ n \in Nat /\ m \in Nat
      BY <1>1
    <2> HIDE DEF count, first, until, f, n, m, e
    <2>3. Counts(count, first, until, f, m, hour)
      BY <2>0, <2>1, <2>2, CountsLater
    <2> QED
      BY <2>3 DEF CountsIn, count, first, until
  <1>5. Ordered(f, hour)
    BY <1>1 DEF Throttled
  <1> QED
    BY <1>2, <1>4, <1>5 DEF Throttled

LEMMA FewerKeys ==
    ASSUME ThrottleInv, Throttle!Entries(record)' \subseteq Throttle!Entries(record)
    PROVE  IsFiniteSet(Throttle!Entries(record)') /\ FewKeys'
  <1>1. IsFiniteSet(Throttle!Entries(record)) /\ Cardinality(Throttle!Entries(record)) <= MaxFailureKeys
    BY DEF ThrottleInv, FewKeys
  <1>2. /\ IsFiniteSet(Throttle!Entries(record)')
        /\ Cardinality(Throttle!Entries(record)') <= Cardinality(Throttle!Entries(record))
    BY <1>1, FS_Subset
  <1>3. Cardinality(Throttle!Entries(record)') \in Nat /\ Cardinality(Throttle!Entries(record)) \in Nat
    BY <1>1, <1>2, FS_CardinalityType
  <1> QED
    BY <1>1, <1>2, <1>3, ThrottleAssumed DEF FewKeys

LEMMA AskInv ==
    ASSUME ThrottleInv, NEW a \in Attempts, NEW k \in LoginKeys, Throttle!Ask(a, k)
    PROVE  ThrottleInv'
  <1>1. ThrottleShapes /\ record' = Throttle!Kept /\ UNCHANGED <<hour, failed>> /\ attempt[a] = None
    BY DEF ThrottleInv, Throttle!Ask
  <1>2. \/ attempt' = attempt /\ Throttle!Kept[k] # None /\ Throttle!Locked(Throttle!Kept[k])
        \/ /\ attempt' = [attempt EXCEPT ![a] = k]
           /\ Throttle!Kept[k] = None \/ ~Throttle!Locked(Throttle!Kept[k])
    <2>1. attempt \in [Attempts -> LoginKeys \cup {None}]
      BY <1>1 DEF ThrottleShapes
    <2>2. CASE Throttle!Kept[k] # None /\ Throttle!Locked(Throttle!Kept[k])
      <3>1. attempt' = [attempt EXCEPT ![a] = None]
        BY <2>2 DEF Throttle!Ask
      <3> QED
        BY <1>1, <2>1, <2>2, <3>1
    <2>3. CASE Throttle!Kept[k] = None \/ ~Throttle!Locked(Throttle!Kept[k])
      BY <2>3 DEF Throttle!Ask
    <2> QED
      BY <2>2, <2>3
  <1>3. ThrottleShapes'
    BY <1>1, <1>2, KeptCounts DEF ThrottleShapes, Throttle!Kept
  <1>4. ASSUME NEW j \in LoginKeys PROVE Throttled(j)'
    <2>1. Cardinality(InFlight(j)') \in Nat /\ Cardinality(InFlight(j)) \in Nat
      BY <1>1, Flying, FlyingNext
    <2>2. CASE j # k \/ attempt' = attempt
      <3>1. InFlight(j)' = InFlight(j)
        BY <1>1, <1>2, <2>2, LetIn DEF InFlight
      <3> QED
        BY <1>1, <2>1, <3>1, Stays
    <2>3. CASE j = k /\ attempt' # attempt
      <3>1. record'[k] = None \/ ~Throttle!Locked(record'[k])
        BY <1>1, <1>2, <2>3
      <3> QED
        BY <1>1, <2>1, <2>3, <3>1, Stays
    <2> QED
      BY <2>2, <2>3
  <1>5. Throttle!Entries(record)' \subseteq Throttle!Entries(record)
    BY <1>1 DEF Throttle!Entries, Throttle!Kept
  <1> QED
    BY <1>3, <1>4, <1>5, FewerKeys DEF ThrottleInv

LEMMA RecordSuccessInv ==
    ASSUME ThrottleInv, NEW a \in Attempts, Throttle!RecordSuccess(a)
    PROVE  ThrottleInv'
  <1>0. PICK k \in LoginKeys : attempt[a] = k
    BY DEF ThrottleInv, Throttle!RecordSuccess, ThrottleShapes
  <1>1. /\ ThrottleShapes /\ UNCHANGED hour
        /\ record' = [record EXCEPT ![k] = None]
        /\ failed' = [failed EXCEPT ![k] = <<>>]
        /\ attempt' = [attempt EXCEPT ![a] = None]
    BY <1>0 DEF ThrottleInv, Throttle!RecordSuccess, ThrottleShapes
  <1>2. ThrottleShapes'
    BY <1>1 DEF ThrottleShapes
  <1>3. /\ record'[k] = None /\ failed'[k] = <<>>
        /\ \A j \in LoginKeys \ {k} : record'[j] = record[j] /\ failed'[j] = failed[j]
    BY <1>1 DEF ThrottleShapes
  <1>4. Throttled(k)'
    BY <1>3, Sizes DEF Throttled, Ordered, Over
  <1>5. ASSUME NEW j \in LoginKeys, j # k PROVE Throttled(j)'
    <2>1. InFlight(j)' = InFlight(j)
      BY <1>0, <1>1, <1>5, Landed
    <2>2. Cardinality(InFlight(j)') \in Nat /\ Cardinality(InFlight(j)) \in Nat
      BY <1>1, Flying, FlyingNext
    <2> QED
      BY <1>1, <1>3, <1>5, <2>1, <2>2, Stays
  <1>6. Throttle!Entries(record)' \subseteq Throttle!Entries(record)
    BY <1>1, <1>3 DEF Throttle!Entries
  <1> QED
    BY <1>1, <1>2, <1>4, <1>5, <1>6, FewerKeys DEF ThrottleInv

LEMMA TickInv ==
    ASSUME ThrottleInv, Throttle!Tick
    PROVE  ThrottleInv'
  <1>1. ThrottleShapes /\ hour' = hour + 1 /\ hour \in Nat /\ UNCHANGED <<record, attempt, failed>>
    BY DEF ThrottleInv, Throttle!Tick, ThrottleShapes
  <1>2. ThrottleShapes'
    BY <1>1 DEF ThrottleShapes
  <1>3. ASSUME NEW k \in LoginKeys PROVE Throttled(k)'
    <2> DEFINE f == failed[k]
               n == Cardinality(InFlight(k))
    <2>1. Throttled(k) /\ f \in Seq(Nat) /\ n \in Nat /\ hour \in Nat /\ hour' \in Nat /\ hour <= hour'
          /\ Len(f) \in Int
      BY <1>1, <1>2, Flying DEF ThrottleInv, ThrottleShapes
    <2>2. Ordered(f, hour')
      BY <2>1, OrderedLater DEF Throttled
    <2>3. record[k] = None => Over(f, Len(f), hour')
      BY <2>1, OverLater DEF Throttled
    <2>4. record[k] # None => CountsIn(record[k], f, n, hour')
      <3> SUFFICES ASSUME record[k] # None PROVE CountsIn(record[k], f, n, hour')
        OBVIOUS
      <3> DEFINE count == record[k].failures
                 first == record[k].first
                 until == record[k].until
      <3>1. count \in Nat /\ first \in Nat /\ until \in Nat
        BY <1>1, Fields DEF ThrottleShapes
      <3>2. Counts(count, first, until, f, n, hour) /\ n <= n
        BY <2>1 DEF Throttled, CountsIn
      <3> HIDE DEF count, first, until, f, n
      <3>3. Counts(count, first, until, f, n, hour')
        BY <2>1, <3>1, <3>2, CountsLater
      <3> QED
        BY <3>3 DEF CountsIn, count, first, until
    <2>5. UNCHANGED InFlight(k)
      BY <1>1 DEF InFlight
    <2> QED
      BY <1>1, <2>2, <2>3, <2>4, <2>5 DEF Throttled
  <1>4. Throttle!Entries(record)' \subseteq Throttle!Entries(record)
    BY <1>1 DEF Throttle!Entries
  <1> QED
    BY <1>2, <1>3, <1>4, FewerKeys DEF ThrottleInv

(* An entry in a new window, and one that counts one more.                  *)
LEMMA FirstFailure ==
    ASSUME NEW e, e = None \/ Throttle!WindowOver(e)
    PROVE  Throttle!LockedAtLimit(Throttle!Counted(e)) = [failures |-> 1, first |-> hour, until |-> 0]
  BY Sizes DEF Throttle!LockedAtLimit, Throttle!Counted

LEMMA NextFailure ==
    ASSUME hour \in Nat, NEW e \in Throttle!Entry, ~Throttle!WindowOver(e)
    PROVE  LET d == Throttle!LockedAtLimit(Throttle!Counted(e))
           IN  /\ d \in Throttle!Entry /\ d.failures = e.failures + 1 /\ d.first = e.first
               /\ d.until = IF e.failures + 1 >= MaxLoginFailures THEN hour + Lockout ELSE e.until
  <1>1. e # None /\ Throttle!Counted(e) = [e EXCEPT !.failures = e.failures + 1]
    BY Fields DEF Throttle!Counted
  <1>2. hour + Lockout \in Nat /\ MaxLoginFailures \in Nat
    BY Sizes
  <1> DEFINE c == [e EXCEPT !.failures = e.failures + 1]
  <1>3. c \in Throttle!Entry /\ c.failures = e.failures + 1 /\ c.first = e.first /\ c.until = e.until
    BY DEF Throttle!Entry
  <1> HIDE DEF c
  <1>4. CASE c.failures >= MaxLoginFailures
    <2>1. Throttle!LockedAtLimit(c) = [c EXCEPT !.until = hour + Lockout]
      BY <1>4 DEF Throttle!LockedAtLimit
    <2>2. [c EXCEPT !.until = hour + Lockout] \in Throttle!Entry
      BY <1>2, <1>3 DEF Throttle!Entry
    <2> QED
      BY <1>1, <1>3, <1>4, <2>1, <2>2 DEF c, Throttle!Entry
  <1>5. CASE ~(c.failures >= MaxLoginFailures)
    <2>1. Throttle!LockedAtLimit(c) = c
      BY <1>5 DEF Throttle!LockedAtLimit
    <2> QED
      BY <1>1, <1>3, <1>5, <2>1 DEF c
  <1> QED
    BY <1>4, <1>5

LEMMA RecordFailureInv ==
    ASSUME ThrottleInv, NEW a \in Attempts, Throttle!RecordFailure(a)
    PROVE  ThrottleInv'
  <1>1. PICK k \in LoginKeys : attempt[a] = k
    BY DEF ThrottleInv, Throttle!RecordFailure, ThrottleShapes
  <1>2. PICK spared \in SUBSET LoginKeys :
          /\ Throttle!Roomy(Throttle!Kept, spared)
          /\ record' = [j \in LoginKeys |->
                          IF j = k THEN Throttle!LockedAtLimit(Throttle!Counted(
                                          IF k \in spared THEN Throttle!Kept[k] ELSE None))
                          ELSE IF j \in spared THEN Throttle!Kept[j] ELSE None]
          /\ failed' = [j \in LoginKeys |->
                          IF j = k THEN Append(
                                          IF k \in Throttle!Entries(Throttle!Kept) \ spared THEN <<>> ELSE failed[k],
                                          hour)
                          ELSE IF j \in Throttle!Entries(Throttle!Kept) \ spared THEN <<>> ELSE failed[j]]
    BY <1>1 DEF Throttle!RecordFailure
  <1>3. ThrottleShapes /\ hour \in Nat /\ hour' = hour /\ attempt' = [attempt EXCEPT ![a] = None]
    BY DEF ThrottleInv, ThrottleShapes, Throttle!RecordFailure
  <1>4. spared \subseteq Throttle!Entries(Throttle!Kept)
        /\ \A j \in Throttle!Entries(Throttle!Kept) : Throttle!Kept[j] # None
    BY <1>2 DEF Throttle!Roomy, Throttle!Entries
  <1> DEFINE old == IF k \in spared THEN Throttle!Kept[k] ELSE None
             f == IF k \in Throttle!Entries(Throttle!Kept) \ spared THEN <<>> ELSE failed[k]
             n == Cardinality(InFlight(k))
  <1>5. f \in Seq(Nat) /\ failed'[k] = Append(f, hour)
        /\ record'[k] = Throttle!LockedAtLimit(Throttle!Counted(old))
    BY <1>2, <1>3 DEF ThrottleShapes
  <1>6. n \in Nat /\ n >= 1 /\ n <= Cardinality(Attempts) /\ Cardinality(InFlight(k)') = n - 1
    BY <1>1, <1>3, Flying, Landed
  <1>7. Ordered(f, hour)
    <2>1. CASE k \in Throttle!Entries(Throttle!Kept) \ spared
      BY <2>1, Sizes DEF Ordered
    <2>2. CASE k \notin Throttle!Entries(Throttle!Kept) \ spared
      BY <2>2 DEF ThrottleInv, Throttled
    <2> QED
      BY <2>1, <2>2
  <1> DEFINE Done == /\ record'[k] \in Throttle!Entry
                     /\ Ordered(failed'[k], hour) /\ CountsIn(record'[k], failed'[k], n - 1, hour)
  <1>8. ASSUME old = None \/ Throttle!WindowOver(old) PROVE Done
    <2>1. record'[k] = [failures |-> 1, first |-> hour, until |-> 0]
      BY <1>5, <1>8, FirstFailure
    <2>2. Over(f, Len(f), hour)
      <3>1. CASE k \in Throttle!Entries(Throttle!Kept) \ spared
        BY <3>1, Sizes DEF Over
      <3>2. CASE k \notin Throttle!Entries(Throttle!Kept)
        <4>1. Throttle!Kept[k] = None
          BY <3>2 DEF Throttle!Entries
        <4> QED
          BY <3>2, <4>1, KeptCounts
      <3>3. CASE k \in spared
        <4>1. Throttle!Kept[k] # None /\ Throttle!WindowOver(Throttle!Kept[k]) /\ f = failed[k]
          BY <1>4, <1>8, <3>3
        <4>2. CountsIn(Throttle!Kept[k], f, n, hour) /\ Throttle!Kept[k] \in Throttle!Entry
          BY <4>1, KeptCounts
        <4> DEFINE count == Throttle!Kept[k].failures
                   first == Throttle!Kept[k].first
                   until == Throttle!Kept[k].until
        <4>3. /\ count \in Nat /\ first \in Nat /\ until \in Nat
              /\ hour - first > FailureWindow
              /\ Counts(count, first, until, f, n, hour)
          BY <4>1, <4>2, Fields DEF Throttle!WindowOver, CountsIn
        <4> HIDE DEF count, first, until, f, n
        <4> QED
          BY <1>3, <1>5, <1>6, <1>7, <4>3, WindowLeft
      <3> QED
        BY <3>1, <3>2, <3>3
    <2>3. n - 1 \in Nat
      BY <1>6
    <2> HIDE DEF f, n
    <2>4. Ordered(Append(f, hour), hour) /\ Counts(1, hour, 0, Append(f, hour), n - 1, hour)
      BY <1>3, <1>5, <1>7, <2>2, <2>3, NewWindow
    <2>5. record'[k] \in Throttle!Entry
      BY <1>3, <2>1 DEF Throttle!Entry
    <2>6. CountsIn(record'[k], failed'[k], n - 1, hour)
      BY <1>5, <2>1, <2>4 DEF CountsIn
    <2> QED
      BY <1>5, <2>4, <2>5, <2>6
  <1>9. ASSUME ~(old = None \/ Throttle!WindowOver(old)) PROVE Done
    <2>1. /\ k \in spared /\ old = Throttle!Kept[k] /\ old # None /\ f = failed[k]
          /\ old \in Throttle!Entry /\ CountsIn(old, f, n, hour)
      BY <1>9, KeptCounts
    <2> HIDE DEF old
    <2> DEFINE count == old.failures
               first == old.first
               until == old.until
               lock == IF count + 1 >= MaxLoginFailures THEN hour + Lockout ELSE until
    <2>2. /\ record'[k] \in Throttle!Entry /\ record'[k].failures = count + 1
          /\ record'[k].first = first /\ record'[k].until = lock
      BY <1>3, <1>5, <1>9, <2>1, NextFailure
    <2>3. /\ count \in Nat /\ first \in Nat /\ until \in Nat /\ ~(hour - first > FailureWindow)
          /\ Counts(count, first, until, f, n, hour)
      BY <1>9, <2>1, Fields DEF Throttle!WindowOver, CountsIn
    <2>4. Ordered(Append(f, hour), hour) /\ Counts(count + 1, first, lock, Append(f, hour), n - 1, hour)
      <3> HIDE DEF count, first, until, f, n
      <3> QED
        BY <1>3, <1>5, <1>6, <1>7, <2>3, SameWindow
    <2> QED
      BY <1>5, <2>2, <2>4 DEF CountsIn
  <1>10. Done
    BY <1>8, <1>9
  <1>11. ThrottleShapes'
    <2>1. record' \in [LoginKeys -> Throttle!Entry \cup {None}]
      <3>1. ASSUME NEW j \in LoginKeys PROVE record'[j] \in Throttle!Entry \cup {None}
        <4>1. CASE j = k
          BY <1>10, <4>1
        <4>2. CASE j # k
          BY <1>2, <4>2, KeptCounts
        <4> QED
          BY <4>1, <4>2
      <3> QED
        BY <1>2, <3>1
    <2>2. failed' \in [LoginKeys -> Seq(Nat)]
      <3>1. ASSUME NEW j \in LoginKeys PROVE failed'[j] \in Seq(Nat)
        <4>1. CASE j = k
          <5>1. Append(f, hour) \in Seq(Nat)
            BY <1>3, <1>5, Longer
          <5> QED
            BY <1>5, <4>1, <5>1
        <4>2. CASE j # k
          BY <1>2, <1>3, <4>2 DEF ThrottleShapes
        <4> QED
          BY <4>1, <4>2
      <3> QED
        BY <1>2, <3>1
    <2> QED
      BY <1>3, <2>1, <2>2 DEF ThrottleShapes
  <1>12. Throttled(k)'
    <2>1. record'[k] # None
      BY <1>10, Fields
    <2> QED
      BY <1>3, <1>6, <1>10, <2>1 DEF Throttled
  <1>13. ASSUME NEW j \in LoginKeys, j # k PROVE Throttled(j)'
    <2>1. InFlight(j)' = InFlight(j) /\ Cardinality(InFlight(j)) \in Nat
      BY <1>1, <1>3, <1>13, Landed, Flying
    <2>2. CASE j \in Throttle!Entries(Throttle!Kept) \ spared
      <3>1. record'[j] = None /\ failed'[j] = <<>>
        BY <1>2, <1>13, <2>2
      <3> QED
        BY <3>1, Sizes DEF Throttled, Ordered, Over
    <2>3. CASE j \notin Throttle!Entries(Throttle!Kept) \ spared
      <3>1. failed'[j] = failed[j]
        BY <1>2, <1>13, <2>3
      <3>2. record'[j] = Throttle!Kept[j]
        <4>1. CASE j \in spared
          BY <1>2, <1>13, <4>1
        <4>2. CASE j \notin spared
          <5>1. Throttle!Kept[j] = None
            BY <2>3, <4>2 DEF Throttle!Entries
          <5> QED
            BY <1>2, <1>13, <4>2, <5>1
        <4> QED
          BY <4>1, <4>2
      <3> QED
        BY <1>3, <2>1, <3>1, <3>2, Stays
    <2> QED
      BY <2>2, <2>3
  <1>14. IsFiniteSet(Throttle!Entries(record)') /\ FewKeys'
    <2>1. IsFiniteSet(Throttle!Entries(Throttle!Kept)) /\ MaxFailureKeys \in Nat \ {0}
      <3>1. IsFiniteSet(Throttle!Entries(record))
            /\ Throttle!Entries(Throttle!Kept) \subseteq Throttle!Entries(record)
        BY DEF ThrottleInv, Throttle!Entries, Throttle!Kept
      <3> QED
        BY <3>1, FS_Subset, ThrottleAssumed
    <2>2. IsFiniteSet(spared) /\ Cardinality(spared) \in Nat
          /\ Cardinality(Throttle!Entries(Throttle!Kept)) \in Nat
      BY <1>4, <2>1, FS_Subset, FS_CardinalityType
    <2>3. Cardinality(spared) <= MaxFailureKeys - 1
      <3>1. Throttle!Cardinality(spared) = Cardinality(spared)
            /\ Throttle!Cardinality(Throttle!Entries(Throttle!Kept)) = Cardinality(Throttle!Entries(Throttle!Kept))
        BY ThrottleSets
      <3> QED
        BY <1>2, <2>1, <2>2, <3>1 DEF Throttle!Roomy
    <2>4. Throttle!Entries(record)' \subseteq spared \cup {k}
      BY <1>2 DEF Throttle!Entries
    <2>5. IsFiniteSet(spared \cup {k}) /\ Cardinality(spared \cup {k}) \in Nat
          /\ Cardinality(spared \cup {k}) <= MaxFailureKeys
      <3>1. CASE k \in spared
        <4>1. spared \cup {k} = spared
          BY <3>1
        <4>2. Cardinality(spared) <= MaxFailureKeys
          BY <2>2, <2>3, ThrottleAssumed
        <4> QED
          BY <2>2, <4>1, <4>2
      <3>2. CASE k \notin spared
        <4>1. IsFiniteSet(spared \cup {k}) /\ Cardinality(spared \cup {k}) = Cardinality(spared) + 1
          BY <2>2, <3>2, FS_AddElement
        <4>2. Cardinality(spared) + 1 <= MaxFailureKeys /\ Cardinality(spared) + 1 \in Nat
          BY <2>2, <2>3, ThrottleAssumed
        <4> QED
          BY <4>1, <4>2
      <3> QED
        BY <3>1, <3>2
    <2>6. IsFiniteSet(Throttle!Entries(record)')
          /\ Cardinality(Throttle!Entries(record)') <= Cardinality(spared \cup {k})
      BY <2>4, <2>5, FS_Subset
    <2>7. Cardinality(Throttle!Entries(record)') \in Nat
      BY <2>6, FS_CardinalityType
    <2> QED
      BY <2>1, <2>5, <2>6, <2>7 DEF FewKeys
  <1> QED
    BY <1>11, <1>12, <1>13, <1>14 DEF ThrottleInv

-----------------------------------------------------------------------------

LEMMA ThrottleInvariant == Throttle!Spec => []ThrottleInv
  <1>1. ThrottleInv /\ [Throttle!Next]_(Throttle!vars) => ThrottleInv'
    <2> SUFFICES ASSUME ThrottleInv, [Throttle!Next]_(Throttle!vars) PROVE ThrottleInv'
      OBVIOUS
    <2>1. ASSUME NEW a \in Attempts, NEW k \in LoginKeys, Throttle!Ask(a, k) PROVE ThrottleInv'
      BY <2>1, AskInv
    <2>2. ASSUME NEW a \in Attempts, Throttle!RecordFailure(a) PROVE ThrottleInv'
      BY <2>2, RecordFailureInv
    <2>3. ASSUME NEW a \in Attempts, Throttle!RecordSuccess(a) PROVE ThrottleInv'
      BY <2>3, RecordSuccessInv
    <2>4. CASE Throttle!Tick
      BY <2>4, TickInv
    <2>5. CASE UNCHANGED Throttle!vars
      BY <2>5 DEF Throttle!vars, ThrottleInv, ThrottleShapes, Throttled, InFlight, FewKeys, Throttle!Entries
    <2> QED
      BY <2>1, <2>2, <2>3, <2>4, <2>5 DEF Throttle!Next
  <1> QED
    BY <1>1, ThrottleInit, PTL DEF Throttle!Spec

(* Failures within a window's length of each other are few, since enough of  *)
(* them take longer.                                                         *)
LEMMA LeastNumber ==
    ASSUME NEW S \in SUBSET Nat, S # {}
    PROVE  \E x \in S : \A y \in S : x <= y
  <1> DEFINE less == {ss \in Nat \X Nat : ss[1] < ss[2]}
  <1>1. IsWellFoundedOn(less, Nat)
    BY NatLessThanWellFounded, Zenon DEF OpToRel
  <1> HIDE DEF less
  <1>2. PICK x \in S : \A y \in S : <<y, x>> \notin less
    BY <1>1, WFMin
  <1>3. ASSUME NEW y \in S PROVE x <= y
    <2>1. ~(<<y, x>> \in less)
      BY <1>2
    <2> QED
      BY <2>1 DEF less
  <1> QED
    BY <1>3

LEMMA FewInAWindow ==
    ASSUME NEW f \in Seq(Nat), NEW time \in Nat, NEW t \in Nat, Ordered(f, time)
    PROVE  Cardinality({i \in DOMAIN f : t - FailureWindow <= f[i] /\ f[i] <= t})
             <= 2 * (MaxLoginFailures + Cardinality(Attempts) - 2)
  <1> DEFINE near == {i \in DOMAIN f : t - FailureWindow <= f[i] /\ f[i] <= t}
             most == Most + Trailing
  <1>1. DOMAIN f = 1..Len(f) /\ Len(f) \in Nat /\ most \in Nat /\ most >= 1
    BY Times, Sizes
  <1>2. \A i, j \in near : j < i + most
    <2> SUFFICES ASSUME NEW i \in near, NEW j \in near, i + most <= j PROVE FALSE
      BY <1>1
    <2>1. f[i] + FailureWindow < f[j]
      <3>1. i \in 1..Len(f) /\ j \in 1..Len(f) /\ i + Most + Trailing <= j
        BY <1>1, Sizes
      <3> QED
        BY <3>1 DEF Ordered
    <2>2. f[i] \in Nat /\ f[j] \in Nat /\ t - FailureWindow <= f[i] /\ f[j] <= t
      BY <1>1, Times
    <2> QED
      BY <2>1, <2>2, Sizes
  <1>3. near \subseteq Nat
    BY <1>1
  <1>4. most = 2 * (MaxLoginFailures + Cardinality(Attempts) - 2)
    BY Twice
  <1> HIDE DEF near, most
  <1>5. ASSUME near = {} PROVE Cardinality(near) <= most
    <2>1. Cardinality(near) = 0
      BY <1>5, FS_EmptySet
    <2> QED
      BY <1>1, <2>1
  <1>6. ASSUME near # {} PROVE Cardinality(near) <= most
    <2>1. PICK least \in near : \A j \in near : least <= j
      BY <1>3, <1>6, LeastNumber
    <2>2. near \subseteq least .. (least + most - 1)
      BY <1>1, <1>2, <1>3, <2>1
    <2>3. /\ IsFiniteSet(least .. (least + most - 1))
          /\ Cardinality(least .. (least + most - 1)) = most
      <3>1. least \in Int /\ least + most - 1 \in Int /\ least <= least + most - 1
            /\ (least + most - 1) - least + 1 = most
        BY <1>1, <1>3, <2>1
      <3> QED
        BY <3>1, FS_Interval
    <2>4. Cardinality(near) <= most
      BY <2>2, <2>3, FS_Subset
    <2> QED
      BY <2>4
  <1>7. Cardinality(near) <= most
    BY <1>5, <1>6
  <1> QED
    BY <1>4, <1>7, Zenon DEF near

LEMMA ThrottleBounds == Throttle!Spec => []Throttle!ThrottleHolds
  <1>1. ThrottleInv => Throttle!ThrottleHolds
    <2> SUFFICES ASSUME ThrottleInv PROVE Throttle!ThrottleHolds
      OBVIOUS
    <2>1. ASSUME NEW k \in LoginKeys, NEW t \in 0..hour
          PROVE  Cardinality(Throttle!Recent(k, t)) <= 2 * (MaxLoginFailures + Cardinality(Attempts) - 2)
      <3>1. failed[k] \in Seq(Nat) /\ hour \in Nat /\ t \in Nat /\ Ordered(failed[k], hour)
        BY DEF ThrottleInv, ThrottleShapes, Throttled
      <3> QED
        BY <3>1, FewInAWindow DEF Throttle!Recent
    <2>2. Cardinality(Throttle!Entries(record)) <= MaxFailureKeys
      BY DEF ThrottleInv, FewKeys
    <2>3. Throttle!GuessesBounded
      <3>1. ASSUME NEW k \in LoginKeys, NEW t \in 0..hour
            PROVE  Throttle!Cardinality(Throttle!Recent(k, t))
                     <= 2 * (MaxLoginFailures + Throttle!Cardinality(Attempts) - 2)
        <4>1. /\ Throttle!Cardinality(Throttle!Recent(k, t)) = Cardinality(Throttle!Recent(k, t))
              /\ Throttle!Cardinality(Attempts) = Cardinality(Attempts)
          BY ThrottleSets
        <4> QED
          BY <2>1, <4>1, Zenon
      <3> QED
        BY <3>1, Zenon DEF Throttle!GuessesBounded
    <2> QED
      BY <2>2, <2>3, ThrottleSets DEF Throttle!ThrottleHolds, Throttle!KeysBounded
  <1> QED
    BY <1>1, ThrottleInvariant, PTL

-----------------------------------------------------------------------------
(* The accounts.                                                             *)

LEMMA RegistryAssumed == "viewer" \notin AdminNames /\ MaxAccountSaves \in Nat /\ MaxStarts \in Nat
  BY AccessAssumption DEF AccessAssumption, Registry!AccountsAssumption

Roles == {"admin", "general_user"}
AllNames == Names \cup AdminNames \cup {"viewer"}
AccountRecords == [id : Nat, name : AllNames, role : Roles, version : Nat, disabled : BOOLEAN]

\* The id under which a save will write its account.
Claim(job) == IF job.found = <<>> THEN Registry!FreshId(job.save) ELSE job.found[1].id

JobShape(job, drawn) ==
    /\ job.name \in Names /\ job.save \in 1..drawn
    /\ job.found # <<>> => job.found[1] \in AccountRecords /\ job.found[1].name = job.name

Alone(list) ==
    \A i, j \in 1..Len(list) : i # j => list[i].id # list[j].id /\ list[i].name # list[j].name

\* An id belongs to one name, in the list and in what saves are about to write;
\* the viewer's is 2, and nobody has an id that was not drawn yet.
Owned(id, name, drawn) ==
    /\ id \in 1..(2 + drawn)
    /\ id = Registry!ViewerId <=> name = "viewer"

ListInv ==
    /\ users \in Seq(AccountRecords) /\ accountSaves \in Nat
    /\ Alone(users)
    /\ \A i \in 1..Len(users) : Owned(users[i].id, users[i].name, accountSaves)
    /\ \E i \in 1..Len(users) : users[i].name = "viewer"

SaverInv ==
    /\ saver = [a \in Savers |-> saver[a]]
    /\ \A a \in Savers : saver[a] # None =>
        /\ JobShape(saver[a], accountSaves) /\ Owned(Claim(saver[a]), saver[a].name, accountSaves)
        /\ \A i \in 1..Len(users) : users[i].id = Claim(saver[a]) => users[i].name = saver[a].name
        /\ \A b \in Savers : saver[b] # None /\ Claim(saver[b]) = Claim(saver[a]) => saver[b].name = saver[a].name

RegistryInv == ListInv /\ SaverInv

-----------------------------------------------------------------------------

\* What an upsert finds.
Hit(list, u, i) == list[i].id = u.id \/ list[i].name = u.name

(* An upsert that finds one record at most replaces it, or adds one.        *)
LEMMA UpsertPlaces ==
    ASSUME NEW list \in Seq(AccountRecords), NEW u \in AccountRecords,
           \A i, j \in 1..Len(list) : Hit(list, u, i) /\ Hit(list, u, j) => i = j
    PROVE  \/ /\ \A i \in 1..Len(list) : ~Hit(list, u, i)
              /\ Registry!UpsertUser(list, u) = Append(list, u)
           \/ \E i \in 1..Len(list) : Hit(list, u, i) /\ Registry!UpsertUser(list, u) = [list EXCEPT ![i] = u]
  <1> DEFINE hits == {i \in DOMAIN list : list[i].id = u.id \/ list[i].name = u.name}
             first == CHOOSE i \in hits : \A j \in hits : i <= j
  <1>1. Registry!UpsertUser(list, u) = IF hits = {} THEN Append(list, u) ELSE [list EXCEPT ![first] = u]
    BY Zenon DEF Registry!UpsertUser, Registry!Upsert
  <1>2. DOMAIN list = 1..Len(list) /\ Len(list) \in Nat
    OBVIOUS
  <1>3. CASE hits = {}
    BY <1>1, <1>2, <1>3 DEF Hit
  <1>4. CASE hits # {}
    <2>1. PICK i \in hits : TRUE
      BY <1>4
    <2>2. \A j \in hits : j = i
      BY <1>2 DEF Hit
    <2>3. i \in 1..Len(list) /\ Hit(list, u, i) /\ i <= i
      BY <1>2 DEF Hit
    <2> HIDE DEF hits
    <2>4. first \in hits
      BY <2>2, <2>3
    <2>5. first = i
      BY <2>2, <2>4
    <2> QED
      BY <1>1, <1>4, <2>3, <2>5
  <1> QED
    BY <1>3, <1>4

LEMMA Upserted ==
    ASSUME NEW list \in Seq(AccountRecords), NEW u \in AccountRecords, Alone(list),
           \A i, j \in 1..Len(list) : Hit(list, u, i) /\ Hit(list, u, j) => i = j
    PROVE  LET new == Registry!UpsertUser(list, u)
           IN  /\ new \in Seq(AccountRecords) /\ Alone(new)
               /\ \A i \in 1..Len(new) : new[i] = u \/ \E j \in 1..Len(list) : new[i] = list[j] /\ ~Hit(list, u, j)
               /\ \E i \in 1..Len(new) : new[i] = u
               /\ \A j \in 1..Len(list) : Hit(list, u, j) \/ \E i \in 1..Len(new) : new[i] = list[j]
  <1> DEFINE new == Registry!UpsertUser(list, u)
  <1>1. Len(list) \in Nat /\ \A i \in 1..Len(list) : list[i] \in AccountRecords
    OBVIOUS
  <1>2. CASE (\A i \in 1..Len(list) : ~Hit(list, u, i)) /\ new = Append(list, u)
    <2> HIDE DEF new
    <2>1. /\ new \in Seq(AccountRecords) /\ Len(new) = Len(list) + 1 /\ new[Len(list) + 1] = u
          /\ \A i \in 1..Len(list) : new[i] = list[i]
      BY <1>2
    <2>2. \A i \in 1..Len(new) : i \in 1..Len(list) \/ i = Len(list) + 1
      BY <1>1, <2>1
    <2>3. 1..Len(list) \subseteq 1..Len(new) /\ Len(list) + 1 \in 1..Len(new)
      BY <1>1, <2>1
    <2>4. Alone(new)
      BY <1>2, <2>1, <2>2 DEF Alone, Hit
    <2>5. \A i \in 1..Len(new) : new[i] = u \/ \E j \in 1..Len(list) : new[i] = list[j] /\ ~Hit(list, u, j)
      BY <1>2, <2>1, <2>2
    <2>6. \A j \in 1..Len(list) : \E i \in 1..Len(new) : new[i] = list[j]
      BY <2>1, <2>3
    <2> QED
      BY <2>1, <2>3, <2>4, <2>5, <2>6 DEF new
  <1>3. ASSUME NEW h \in 1..Len(list), Hit(list, u, h), new = [list EXCEPT ![h] = u]
        PROVE  /\ new \in Seq(AccountRecords) /\ Alone(new)
               /\ \A i \in 1..Len(new) : new[i] = u \/ \E j \in 1..Len(list) : new[i] = list[j] /\ ~Hit(list, u, j)
               /\ \E i \in 1..Len(new) : new[i] = u
               /\ \A j \in 1..Len(list) : Hit(list, u, j) \/ \E i \in 1..Len(new) : new[i] = list[j]
    <2> HIDE DEF new
    <2>1. /\ new \in Seq(AccountRecords) /\ Len(new) = Len(list) /\ new[h] = u
          /\ \A i \in 1..Len(list) : i # h => new[i] = list[i] /\ ~Hit(list, u, i)
      BY <1>3
    <2>2. Alone(new)
      BY <2>1 DEF Alone, Hit
    <2> QED
      BY <1>3, <2>1, <2>2
  <1>4. \/ (\A i \in 1..Len(list) : ~Hit(list, u, i)) /\ new = Append(list, u)
        \/ \E i \in 1..Len(list) : Hit(list, u, i) /\ new = [list EXCEPT ![i] = u]
    BY UpsertPlaces
  <1> QED
    BY <1>2, <1>3, <1>4

(* The look-up by name finds the one account of that name, or none.         *)
LEMMA NamedFinds ==
    ASSUME ListInv, NEW name
    PROVE  \/ Registry!Named(name) = <<>> /\ \A i \in 1..Len(users) : users[i].name # name
           \/ \E i \in 1..Len(users) : users[i].name = name /\ Registry!Named(name) = <<users[i]>>
  <1> DEFINE hits == {i \in DOMAIN users : users[i].name = name}
             first == CHOOSE i \in hits : \A j \in hits : i <= j
  <1>1. Registry!Named(name) = IF hits = {} THEN <<>> ELSE <<users[first]>>
    BY Zenon DEF Registry!Named, Registry!Find
  <1>2. DOMAIN users = 1..Len(users) /\ Len(users) \in Nat
    BY DEF ListInv
  <1>3. CASE hits = {}
    BY <1>1, <1>2, <1>3
  <1>4. CASE hits # {}
    <2>1. PICK i \in hits : TRUE
      BY <1>4
    <2>2. i \in 1..Len(users) /\ users[i].name = name /\ i <= i
      BY <1>2
    <2>3. \A j \in hits : j = i
      BY <1>2, <2>2 DEF ListInv, Alone
    <2> HIDE DEF hits
    <2>4. first \in hits
      BY <2>1, <2>2, <2>3
    <2>5. first = i
      BY <2>3, <2>4
    <2> QED
      BY <1>1, <1>4, <2>2, <2>5
  <1> QED
    BY <1>3, <1>4

(* An account that owns its id can be upserted.                             *)
LEMMA OwnerUpserted ==
    ASSUME ListInv, NEW u \in AccountRecords, Owned(u.id, u.name, accountSaves),
           \A i \in 1..Len(users) : users[i].id = u.id => users[i].name = u.name,
           users' = Registry!UpsertUser(users, u), UNCHANGED accountSaves
    PROVE  /\ ListInv'
           /\ \A i \in 1..Len(users') : users'[i] = u \/ \E j \in 1..Len(users) : users'[i] = users[j]
  <1>1. users \in Seq(AccountRecords) /\ Alone(users)
    BY DEF ListInv
  <1>2. \A i, j \in 1..Len(users) : Hit(users, u, i) /\ Hit(users, u, j) => i = j
    BY <1>1 DEF Hit, Alone
  <1>3. /\ users' \in Seq(AccountRecords) /\ Alone(users')
        /\ \A i \in 1..Len(users') : users'[i] = u \/ \E j \in 1..Len(users) : users'[i] = users[j]
                                                                  /\ ~Hit(users, u, j)
        /\ \E i \in 1..Len(users') : users'[i] = u
        /\ \A j \in 1..Len(users) : Hit(users, u, j) \/ \E i \in 1..Len(users') : users'[i] = users[j]
    BY <1>1, <1>2, Upserted, Zenon
  <1>4. \A i \in 1..Len(users') : Owned(users'[i].id, users'[i].name, accountSaves)
    BY <1>3 DEF ListInv
  <1>5. \E i \in 1..Len(users') : users'[i].name = "viewer"
    <2>1. PICK v \in 1..Len(users) : users[v].name = "viewer"
      BY DEF ListInv
    <2>2. CASE Hit(users, u, v)
      <3>1. users[v].id = Registry!ViewerId
        BY <2>1 DEF ListInv, Owned
      <3>2. u.name = "viewer"
        BY <2>1, <2>2, <3>1 DEF Hit, Owned
      <3> QED
        BY <1>3, <3>2
    <2>3. CASE ~Hit(users, u, v)
      BY <1>3, <2>1, <2>3
    <2> QED
      BY <2>2, <2>3
  <1> QED
    BY <1>1, <1>3, <1>4, <1>5 DEF ListInv, Owned

LEMMA SaveReadInv ==
    ASSUME RegistryInv, NEW a \in Savers, NEW name \in Names, Registry!SaveRead(a, name)
    PROVE  RegistryInv'
  <1> DEFINE job == [name |-> name, found |-> Registry!Named(name), save |-> accountSaves + 1]
  <1>1. /\ accountSaves' = accountSaves + 1 /\ accountSaves \in Nat /\ UNCHANGED users
        /\ saver' = [saver EXCEPT ![a] = job]
    BY DEF Registry!SaveRead, RegistryInv, ListInv
  <1>2. job.name = name /\ job.save = accountSaves + 1 /\ job.found = Registry!Named(name)
    OBVIOUS
  <1> HIDE DEF job
  <1>3. ListInv'
    BY <1>1 DEF RegistryInv, ListInv, Owned
  <1>4. \/ job.found = <<>> /\ Claim(job) = 3 + accountSaves /\ \A i \in 1..Len(users) : users[i].name # name
        \/ \E i \in 1..Len(users) :
             /\ job.found # <<>> /\ job.found[1] = users[i]
             /\ users[i].name = name /\ Claim(job) = users[i].id
    <2>1. CASE Registry!Named(name) = <<>> /\ \A i \in 1..Len(users) : users[i].name # name
      BY <1>1, <1>2, <2>1 DEF Claim, Registry!FreshId
    <2>2. ASSUME NEW i \in 1..Len(users), users[i].name = name, Registry!Named(name) = <<users[i]>>
          PROVE  /\ job.found # <<>> /\ job.found[1] = users[i]
                 /\ users[i].name = name /\ Claim(job) = users[i].id
      <3>1. <<users[i]>> # <<>> /\ <<users[i]>>[1] = users[i]
        OBVIOUS
      <3> QED
        BY <1>2, <2>2, <3>1 DEF Claim
    <2> QED
      BY <2>1, <2>2, NamedFinds DEF RegistryInv
  <1>5. JobShape(job, accountSaves')
    <2>1. \A i \in 1..Len(users) : users[i] \in AccountRecords
      BY DEF RegistryInv, ListInv
    <2> QED
      BY <1>1, <1>2, <1>4, <2>1 DEF JobShape
  <1>6. Owned(Claim(job), name, accountSaves')
    BY <1>1, <1>4 DEF RegistryInv, ListInv, Owned, Registry!ViewerId
  <1>7. \A i \in 1..Len(users) : users[i].id = Claim(job) => users[i].name = name
    <2> SUFFICES ASSUME NEW i \in 1..Len(users), users[i].id = Claim(job) PROVE users[i].name = name
      OBVIOUS
    <2>1. users[i].id <= 2 + accountSaves /\ users[i].id \in Nat
      BY <1>1 DEF RegistryInv, ListInv, Owned
    <2>2. PICK j \in 1..Len(users) : users[j].name = name /\ Claim(job) = users[j].id
      BY <1>1, <1>4, <2>1
    <2>3. j = i
      BY <2>2 DEF RegistryInv, ListInv, Alone
    <2> QED
      BY <2>2, <2>3
  <1>8. ASSUME NEW b \in Savers, b # a, saver[b] # None, Claim(saver[b]) = Claim(job)
        PROVE  saver[b].name = name
    BY <1>1, <1>4, <1>8 DEF RegistryInv, SaverInv, Owned
  <1>9. ASSUME NEW b \in Savers, saver'[b] # None
        PROVE  /\ JobShape(saver'[b], accountSaves') /\ Owned(Claim(saver'[b]), saver'[b].name, accountSaves')
               /\ \A i \in 1..Len(users) : users[i].id = Claim(saver'[b]) => users[i].name = saver'[b].name
               /\ \A c \in Savers : saver'[c] # None /\ Claim(saver'[c]) = Claim(saver'[b])
                     => saver'[c].name = saver'[b].name
    <2>1. \A c \in Savers : saver'[c] = IF c = a THEN job ELSE saver[c]
      BY <1>1 DEF RegistryInv, SaverInv
    <2>2. CASE b = a
      BY <1>2, <1>5, <1>6, <1>7, <1>8, <2>1, <2>2
    <2>3. CASE b # a
      <3>1. /\ saver'[b] = saver[b] /\ saver[b] # None
            /\ JobShape(saver[b], accountSaves) /\ Owned(Claim(saver[b]), saver[b].name, accountSaves)
        BY <1>9, <2>1, <2>3 DEF RegistryInv, SaverInv
      <3>2. JobShape(saver'[b], accountSaves') /\ Owned(Claim(saver'[b]), saver'[b].name, accountSaves')
        BY <1>1, <3>1 DEF JobShape, Owned
      <3> QED
        BY <1>2, <1>8, <2>1, <2>3, <3>1, <3>2 DEF RegistryInv, SaverInv
    <2> QED
      BY <2>2, <2>3
  <1>10. saver' = [b \in Savers |-> saver'[b]]
    BY <1>1 DEF RegistryInv, SaverInv
  <1>11. SaverInv'
    BY <1>1, <1>9, <1>10 DEF SaverInv
  <1> QED
    BY <1>3, <1>11 DEF RegistryInv

LEMMA SaveWriteInv ==
    ASSUME RegistryInv, NEW a \in Savers, NEW role \in Roles, NEW password \in BOOLEAN,
           NEW disabled \in BOOLEAN, Registry!SaveWrite(a, role, password, disabled)
    PROVE  RegistryInv'
  <1>1. PICK job : job = saver[a]
    OBVIOUS
  <1> DEFINE u == Registry!Saved(job, role, password, disabled)
  <1>2. /\ job # None /\ users' = Registry!UpsertUser(users, u) /\ UNCHANGED accountSaves
        /\ saver' = [saver EXCEPT ![a] = None]
    BY <1>1 DEF Registry!SaveWrite
  <1>3. JobShape(job, accountSaves) /\ Owned(Claim(job), job.name, accountSaves) /\ job.save \in Nat
        /\ \A i \in 1..Len(users) : users[i].id = Claim(job) => users[i].name = job.name
    BY <1>1, <1>2 DEF RegistryInv, SaverInv, JobShape
  <1>4. u \in AccountRecords /\ u.id = Claim(job) /\ u.name = job.name
    <2>1. CASE job.found = <<>>
      <3>1. u = Registry!Account(Registry!FreshId(job.save), job.name, role, job.save, disabled)
        BY <2>1 DEF Registry!Saved
      <3> QED
        BY <1>3, <2>1, <3>1 DEF Registry!Account, Registry!FreshId, Claim, AccountRecords, AllNames, JobShape, Owned
    <2>2. CASE job.found # <<>>
      <3>1. PICK r : r = job.found[1]
        OBVIOUS
      <3>2. r \in AccountRecords /\ r.name = job.name /\ Claim(job) = r.id
        BY <1>3, <2>2, <3>1 DEF JobShape, Claim
      <3>3. PICK version \in Nat : u = [r EXCEPT !.role = role, !.disabled = disabled, !.version = version]
        <4>1. u = [r EXCEPT !.role = role, !.disabled = disabled,
                            !.version = IF password THEN job.save ELSE r.version]
          BY <2>2, <3>1 DEF Registry!Saved
        <4>2. (IF password THEN job.save ELSE r.version) \in Nat
          BY <1>3, <3>2 DEF AccountRecords
        <4> QED
          BY <4>1, <4>2
      <3> QED
        BY <3>2, <3>3 DEF AccountRecords
    <2> QED
      BY <2>1, <2>2
  <1> HIDE DEF u
  <1>5. /\ ListInv'
        /\ \A i \in 1..Len(users') : users'[i] = u \/ \E j \in 1..Len(users) : users'[i] = users[j]
    BY <1>2, <1>3, <1>4, OwnerUpserted DEF RegistryInv
  <1>6. ASSUME NEW b \in Savers, saver'[b] # None
        PROVE  /\ saver'[b] = saver[b] /\ saver[b] # None
               /\ \A i \in 1..Len(users') : users'[i].id = Claim(saver[b]) => users'[i].name = saver[b].name
    <2>1. saver'[b] = saver[b] /\ saver[b] # None
      BY <1>2, <1>6 DEF RegistryInv, SaverInv
    <2>2. u.id = Claim(saver[b]) => u.name = saver[b].name
      BY <1>1, <1>2, <1>4, <2>1 DEF RegistryInv, SaverInv
    <2> QED
      BY <1>5, <2>1, <2>2 DEF RegistryInv, SaverInv
  <1>7. saver' = [b \in Savers |-> saver'[b]]
    BY <1>2 DEF RegistryInv, SaverInv
  <1>8. SaverInv'
    BY <1>2, <1>6, <1>7 DEF RegistryInv, SaverInv, JobShape, Owned
  <1> QED
    BY <1>5, <1>8 DEF RegistryInv

(* What a start seeds: the admin under the name that is configured, with the *)
(* admin's id, and the viewer.                                              *)
LEMMA Seeded ==
    ASSUME NEW list \in Seq(AccountRecords), NEW name \in AdminNames, NEW drawn \in Nat,
           Alone(list), \A i \in 1..Len(list) : Owned(list[i].id, list[i].name, drawn),
           list = <<>> \/ \E i \in 1..Len(list) : list[i].name = "viewer"
    PROVE  LET new == Registry!Bootstrapped(list, name)
           IN  /\ new \in Seq(AccountRecords) /\ Alone(new)
               /\ \A i \in 1..Len(new) : Owned(new[i].id, new[i].name, drawn)
               /\ \E i \in 1..Len(new) : new[i].name = "viewer"
  <1> DEFINE named == \E i \in DOMAIN list : list[i].name = name
             adm == Registry!Account(Registry!AdminId, name, "admin", 0, FALSE)
             vwr == Registry!Account(Registry!ViewerId, "viewer", "general_user", 0, FALSE)
             mid == Registry!UpsertUser(list, adm)
             new == Registry!UpsertUser(mid, vwr)
  <1>0. DOMAIN list = 1..Len(list) /\ name # "viewer"
    BY RegistryAssumed
  <1>1. Registry!Bootstrapped(list, name) = IF named THEN list ELSE new
    <2> DEFINE hits == {i \in DOMAIN list : list[i].name = name}
               found == IF hits = {} THEN <<>> ELSE <<list[CHOOSE i \in hits : \A j \in hits : i <= j]>>
    <2>1. Registry!Bootstrapped(list, name) = IF found # <<>> THEN list ELSE new
      BY Zenon DEF Registry!Bootstrapped, Registry!Find
    <2>2. found # <<>> <=> hits # {}
      <3> HIDE DEF hits
      <3> QED
        OBVIOUS
    <2>3. hits # {} <=> named
      OBVIOUS
    <2> QED
      BY <2>1, <2>2, <2>3, Zenon
  <1>2. CASE named
    <2>1. list # <<>>
      BY <1>0, <1>2
    <2> QED
      BY <1>1, <1>2, <2>1
  <1>3. CASE ~named
    <2>1. adm \in AccountRecords /\ adm.id = 1 /\ adm.name = name
      BY DEF Registry!Account, Registry!AdminId, AccountRecords, AllNames, Roles
    <2>2. vwr \in AccountRecords /\ vwr.id = 2 /\ vwr.name = "viewer"
      BY DEF Registry!Account, Registry!ViewerId, AccountRecords, AllNames, Roles
    <2> HIDE DEF adm, vwr, named
    <2>3. \A i, j \in 1..Len(list) : Hit(list, adm, i) /\ Hit(list, adm, j) => i = j
      BY <1>0, <1>3, <2>1 DEF Hit, Alone, named
    <2>4. /\ mid \in Seq(AccountRecords) /\ Alone(mid)
          /\ \A i \in 1..Len(mid) : mid[i] = adm \/ \E j \in 1..Len(list) : mid[i] = list[j] /\ ~Hit(list, adm, j)
      BY <2>1, <2>3, Upserted, Zenon
    <2> HIDE DEF mid
    <2>5. Owned(adm.id, adm.name, drawn) /\ Owned(vwr.id, vwr.name, drawn)
      BY <1>0, <2>1, <2>2 DEF Owned, Registry!ViewerId
    <2>6. \A i \in 1..Len(mid) : Owned(mid[i].id, mid[i].name, drawn)
      BY <2>4, <2>5
    <2>7. \A i, j \in 1..Len(mid) : Hit(mid, vwr, i) /\ Hit(mid, vwr, j) => i = j
      BY <2>2, <2>4, <2>6 DEF Hit, Alone, Owned, Registry!ViewerId
    <2>8. /\ new \in Seq(AccountRecords) /\ Alone(new)
          /\ \A i \in 1..Len(new) : new[i] = vwr \/ \E j \in 1..Len(mid) : new[i] = mid[j] /\ ~Hit(mid, vwr, j)
          /\ \E i \in 1..Len(new) : new[i] = vwr
      BY <2>2, <2>4, <2>7, Upserted, Zenon
    <2> HIDE DEF new
    <2>9. Registry!Bootstrapped(list, name) = new
      BY <1>1, <1>3
    <2>10. \A i \in 1..Len(new) : Owned(new[i].id, new[i].name, drawn)
      BY <2>5, <2>6, <2>8
    <2>11. \E i \in 1..Len(new) : new[i].name = "viewer"
      BY <2>2, <2>8
    <2> QED
      BY <2>8, <2>9, <2>10, <2>11
  <1> QED
    BY <1>2, <1>3

LEMMA RegistryInit == Registry!Init => RegistryInv
  <1> SUFFICES ASSUME Registry!Init PROVE RegistryInv
    OBVIOUS
  <1>1. PICK name \in AdminNames : users = Registry!Bootstrapped(<<>>, name)
    BY DEF Registry!Init
  <1>2. accountSaves = 0 /\ saver = [a \in Savers |-> None]
    BY DEF Registry!Init
  <1>3. Alone(<<>>) /\ <<>> \in Seq(AccountRecords) /\ 1..Len(<<>>) = {}
    BY DEF Alone
  <1>4. /\ users \in Seq(AccountRecords) /\ Alone(users)
        /\ \A i \in 1..Len(users) : Owned(users[i].id, users[i].name, 0)
        /\ \E i \in 1..Len(users) : users[i].name = "viewer"
    BY <1>1, <1>3, Seeded, Zenon
  <1> QED
    BY <1>2, <1>4 DEF RegistryInv, ListInv, SaverInv

LEMMA StartInv ==
    ASSUME RegistryInv, NEW name \in AdminNames, Registry!Start(name)
    PROVE  RegistryInv'
  <1>1. users' = Registry!Bootstrapped(users, name) /\ saver' = [a \in Savers |-> None] /\ UNCHANGED accountSaves
    BY DEF Registry!Start
  <1>2. /\ users \in Seq(AccountRecords) /\ Alone(users) /\ accountSaves \in Nat
        /\ \A i \in 1..Len(users) : Owned(users[i].id, users[i].name, accountSaves)
        /\ \E i \in 1..Len(users) : users[i].name = "viewer"
    BY DEF RegistryInv, ListInv
  <1>3. /\ users' \in Seq(AccountRecords) /\ Alone(users')
        /\ \A i \in 1..Len(users') : Owned(users'[i].id, users'[i].name, accountSaves)
        /\ \E i \in 1..Len(users') : users'[i].name = "viewer"
    BY <1>1, <1>2, Seeded, Zenon
  <1> QED
    BY <1>1, <1>2, <1>3 DEF RegistryInv, ListInv, SaverInv

LEMMA RegistryInvariant == Registry!Spec => []RegistryInv
  <1>1. RegistryInv /\ [Registry!Next]_(Registry!vars) => RegistryInv'
    <2> SUFFICES ASSUME RegistryInv, [Registry!Next]_(Registry!vars) PROVE RegistryInv'
      OBVIOUS
    <2>1. ASSUME NEW a \in Savers, NEW name \in Names, Registry!SaveRead(a, name) PROVE RegistryInv'
      BY <2>1, SaveReadInv
    <2>2. ASSUME NEW a \in Savers, NEW role \in {"admin", "general_user"}, NEW password \in BOOLEAN,
                 NEW disabled \in BOOLEAN, Registry!SaveWrite(a, role, password, disabled)
          PROVE  RegistryInv'
      BY <2>2, SaveWriteInv DEF Roles
    <2>3. ASSUME NEW name \in AdminNames, Registry!Start(name) PROVE RegistryInv'
      BY <2>3, StartInv
    <2>4. CASE UNCHANGED Registry!vars
      BY <2>4 DEF Registry!vars, RegistryInv, ListInv, SaverInv, JobShape, Owned
    <2> QED
      BY <2>1, <2>2, <2>3, <2>4 DEF Registry!Next
  <1> QED
    BY <1>1, RegistryInit, PTL DEF Registry!Spec

LEMMA RegistryUnique == Registry!Spec => []Registry!UniqueAccounts
  <1>1. RegistryInv => Registry!UniqueAccounts
    <2> SUFFICES ASSUME RegistryInv PROVE Registry!UniqueAccounts
      OBVIOUS
    <2>1. DOMAIN users = 1..Len(users) /\ Alone(users)
      BY DEF RegistryInv, ListInv
    <2> QED
      BY <2>1 DEF Registry!UniqueAccounts, Alone
  <1> QED
    BY <1>1, RegistryInvariant, PTL

-----------------------------------------------------------------------------
(* The runs' behaviours are behaviours of the parts.                         *)

LEMMA ThrottleSpec == MCSpec => Throttle!Spec
  <1>1. MCInit => Throttle!Init
    BY DEF MCInit
  <1>2. [MCNext]_MCVars => [Throttle!Next]_(Throttle!vars)
    BY DEF MCNext, MCVars, throttleVars, Throttle!vars
  <1> QED
    BY <1>1, <1>2, PTL DEF MCSpec, Throttle!Spec

LEMMA RegistrySpec == MCSpec => Registry!Spec
  <1>1. MCInit => Registry!Init
    BY DEF MCInit
  <1>2. [MCNext]_MCVars => [Registry!Next]_(Registry!vars)
    BY DEF MCNext, MCVars, accountVars, Registry!vars
  <1> QED
    BY <1>1, <1>2, PTL DEF MCSpec, Registry!Spec

(* However many logins guess in parallel, and whatever is evicted between the *)
(* two locks, the guesses in vain within a window are bounded, and so is the  *)
(* map (loginLimiter).                                                        *)
THEOREM GuessesLimited == MCSpec => []ThrottleHolds
  BY ThrottleSpec, ThrottleBounds, PTL DEF ThrottleHolds

(* However saves of one account, or of two with one name, and starts that     *)
(* seed accounts interleave, no two accounts share an id or a name            *)
(* (users.Registry.Save, bootstrap, FileStore.UpsertUser).                    *)
THEOREM AccountsUnique == MCSpec => []UniqueAccounts
  BY RegistrySpec, RegistryUnique, PTL DEF UniqueAccounts

(* The sessions' theorems, for the two instances.                             *)
BusyProofs == INSTANCE Sessions_proofs WITH
    clock <- sessionClock, Kinds <- BusyKinds, MaxClock <- BusyClock, MaxSaves <- BusySaves

AgingProofs == INSTANCE Sessions_proofs WITH
    clock <- sessionClock, Kinds <- AgingKinds, Tokens <- {LoneToken}, Admins <- {},
    MaxClock <- AgingClock, MaxSaves <- AgingSaves

LEMMA BusyInit == Busy!Init <=> BusyProofs!Init
  BY DEF Busy!Init, BusyProofs!Init

LEMMA BusyNext == Busy!Next <=> BusyProofs!Next
  BY DEF Busy!At, Busy!Goto, Busy!Return, Busy!Expired, Busy!Unexpired, Busy!Room,
           Busy!Survivors, Busy!Put, Busy!Drop, Busy!Prune, Busy!Valid,
           Busy!BeginLogin, Busy!Create, Busy!Record, Busy!Save, Busy!SavePrune,
           Busy!BeginRequest, Busy!Get, Busy!RecordExpired, Busy!Lookup, Busy!Restore,
           Busy!Touch, Busy!PutRestored, Busy!Validate, Busy!DropStored, Busy!Read,
           Busy!Renew, Busy!Logout, Busy!LogoutStored, Busy!ArmedUntil, Busy!Arm,
           Busy!SaveRead, Busy!SaveWrite, Busy!Tick, Busy!Restart, Busy!Login,
           Busy!Authenticate, Busy!Serve, Busy!Next, Busy!Cardinality, BusyProofs!At,
           BusyProofs!Goto, BusyProofs!Return, BusyProofs!Expired,
           BusyProofs!Unexpired, BusyProofs!Room, BusyProofs!Survivors,
           BusyProofs!Put, BusyProofs!Drop, BusyProofs!Prune, BusyProofs!Valid,
           BusyProofs!BeginLogin, BusyProofs!Create, BusyProofs!Record,
           BusyProofs!Save, BusyProofs!SavePrune, BusyProofs!BeginRequest,
           BusyProofs!Get, BusyProofs!RecordExpired, BusyProofs!Lookup,
           BusyProofs!Restore, BusyProofs!Touch, BusyProofs!PutRestored,
           BusyProofs!Validate, BusyProofs!DropStored, BusyProofs!Read,
           BusyProofs!Renew, BusyProofs!Logout, BusyProofs!LogoutStored,
           BusyProofs!ArmedUntil, BusyProofs!Arm, BusyProofs!SaveRead,
           BusyProofs!SaveWrite, BusyProofs!Tick, BusyProofs!Restart,
           BusyProofs!Login, BusyProofs!Authenticate, BusyProofs!Serve,
           BusyProofs!Next, BusyProofs!Cardinality

LEMMA BusyAssumed == BusyProofs!SessionsAssumption
  BY AccessAssumption DEF AccessAssumption, Busy!SessionsAssumption,
           BusyProofs!SessionsAssumption, Busy!IsFiniteSet, BusyProofs!IsFiniteSet

LEMMA BusySpec == MCSpec /\ part = "busy" => BusyProofs!Spec
  <1>1. MCInit /\ part = "busy" => BusyProofs!Init
    BY BusyInit DEF MCInit
  <1>2. part = "busy" /\ [MCNext]_MCVars => (part = "busy")'
    BY DEF MCNext, MCVars
  <1>3. part = "busy" /\ [MCNext]_MCVars => [BusyProofs!Next]_(BusyProofs!vars)
    BY BusyNext DEF MCNext, MCVars, sessionVars, BusyProofs!vars
  <1> QED
    BY <1>1, <1>2, <1>3, PTL DEF MCSpec, BusyProofs!Spec

LEMMA AgingInit == Aging!Init <=> AgingProofs!Init
  BY DEF Aging!Init, AgingProofs!Init

LEMMA AgingNext == Aging!Next <=> AgingProofs!Next
  BY DEF Aging!At, Aging!Goto, Aging!Return, Aging!Expired, Aging!Unexpired,
           Aging!Room, Aging!Survivors, Aging!Put, Aging!Drop, Aging!Prune,
           Aging!Valid, Aging!BeginLogin, Aging!Create, Aging!Record, Aging!Save,
           Aging!SavePrune, Aging!BeginRequest, Aging!Get, Aging!RecordExpired,
           Aging!Lookup, Aging!Restore, Aging!Touch, Aging!PutRestored,
           Aging!Validate, Aging!DropStored, Aging!Read, Aging!Renew, Aging!Logout,
           Aging!LogoutStored, Aging!ArmedUntil, Aging!Arm, Aging!SaveRead,
           Aging!SaveWrite, Aging!Tick, Aging!Restart, Aging!Login,
           Aging!Authenticate, Aging!Serve, Aging!Next, Aging!Cardinality,
           AgingProofs!At, AgingProofs!Goto, AgingProofs!Return, AgingProofs!Expired,
           AgingProofs!Unexpired, AgingProofs!Room, AgingProofs!Survivors,
           AgingProofs!Put, AgingProofs!Drop, AgingProofs!Prune, AgingProofs!Valid,
           AgingProofs!BeginLogin, AgingProofs!Create, AgingProofs!Record,
           AgingProofs!Save, AgingProofs!SavePrune, AgingProofs!BeginRequest,
           AgingProofs!Get, AgingProofs!RecordExpired, AgingProofs!Lookup,
           AgingProofs!Restore, AgingProofs!Touch, AgingProofs!PutRestored,
           AgingProofs!Validate, AgingProofs!DropStored, AgingProofs!Read,
           AgingProofs!Renew, AgingProofs!Logout, AgingProofs!LogoutStored,
           AgingProofs!ArmedUntil, AgingProofs!Arm, AgingProofs!SaveRead,
           AgingProofs!SaveWrite, AgingProofs!Tick, AgingProofs!Restart,
           AgingProofs!Login, AgingProofs!Authenticate, AgingProofs!Serve,
           AgingProofs!Next, AgingProofs!Cardinality

LEMMA AgingAssumed == AgingProofs!SessionsAssumption
  BY AccessAssumption DEF AccessAssumption, Aging!SessionsAssumption,
           AgingProofs!SessionsAssumption, Aging!IsFiniteSet, AgingProofs!IsFiniteSet

LEMMA AgingSpec == MCSpec /\ part = "aging" => AgingProofs!Spec
  <1>1. MCInit /\ part = "aging" => AgingProofs!Init
    BY AgingInit DEF MCInit
  <1>2. part = "aging" /\ [MCNext]_MCVars => (part = "aging")'
    BY DEF MCNext, MCVars
  <1>3. part = "aging" /\ [MCNext]_MCVars => [AgingProofs!Next]_(AgingProofs!vars)
    BY AgingNext DEF MCNext, MCVars, sessionVars, AgingProofs!vars
  <1> QED
    BY <1>1, <1>2, <1>3, PTL DEF MCSpec, AgingProofs!Spec

(* A request is served only on a password that was good at some moment while  *)
(* it ran (requireAuth, sessionStore).                                        *)
THEOREM PasswordsWereGood == MCSpec => []AdmittedWhileValid
  <1>1. BusyProofs!AdmittedWhileValid => AdmittedWhileValid
    BY DEF AdmittedWhileValid, Busy!AdmittedWhileValid, Busy!At,
             BusyProofs!AdmittedWhileValid, BusyProofs!At
  <1>2. BusyProofs!Spec => []BusyProofs!AdmittedWhileValid
    BY BusyAssumed, BusyProofs!Admitted
  <1>3. ~(part = "busy") => AdmittedWhileValid
    BY DEF AdmittedWhileValid
  <1>4. ~(part = "busy") /\ [MCNext]_MCVars => (~(part = "busy"))'
    BY DEF MCNext, MCVars
  <1>5. MCSpec /\ ~(part = "busy") => []AdmittedWhileValid
    BY <1>3, <1>4, PTL DEF MCSpec
  <1>6. MCSpec /\ part = "busy" => []AdmittedWhileValid
    BY <1>1, <1>2, BusySpec, PTL
  <1> QED
    BY <1>5, <1>6, PTL

(* Whatever is put back into the map of sessions, it keeps to its cap.        *)
THEOREM SessionsCapped == MCSpec => []SessionCapHeld
  <1>1. BusyProofs!SessionCapHeld => SessionCapHeld
    BY DEF SessionCapHeld, Busy!SessionCapHeld, Busy!Cardinality,
             BusyProofs!SessionCapHeld, BusyProofs!Cardinality
  <1>2. BusyProofs!Spec => []BusyProofs!SessionCapHeld
    BY BusyAssumed, BusyProofs!CapHeld
  <1>3. ~(part = "busy") => SessionCapHeld
    BY DEF SessionCapHeld
  <1>4. ~(part = "busy") /\ [MCNext]_MCVars => (~(part = "busy"))'
    BY DEF MCNext, MCVars
  <1>5. MCSpec /\ ~(part = "busy") => []SessionCapHeld
    BY <1>3, <1>4, PTL DEF MCSpec
  <1>6. MCSpec /\ part = "busy" => []SessionCapHeld
    BY <1>1, <1>2, BusySpec, PTL
  <1> QED
    BY <1>5, <1>6, PTL

(* No request that begins after its token's end is served, however the map    *)
(* and the store were put back and pruned.                                    *)
THEOREM SessionsEnd == MCSpec => []NoSessionAfterExpiry
  <1>1. AgingProofs!NoSessionAfterExpiry => NoSessionAfterExpiry
    BY DEF NoSessionAfterExpiry, Aging!NoSessionAfterExpiry, Aging!At,
             AgingProofs!NoSessionAfterExpiry, AgingProofs!At
  <1>2. AgingProofs!Spec => []AgingProofs!NoSessionAfterExpiry
    BY AgingAssumed, AgingProofs!NotAfterExpiry
  <1>3. ~(part = "aging") => NoSessionAfterExpiry
    BY DEF NoSessionAfterExpiry
  <1>4. ~(part = "aging") /\ [MCNext]_MCVars => (~(part = "aging"))'
    BY DEF MCNext, MCVars
  <1>5. MCSpec /\ ~(part = "aging") => []NoSessionAfterExpiry
    BY <1>3, <1>4, PTL DEF MCSpec
  <1>6. MCSpec /\ part = "aging" => []NoSessionAfterExpiry
    BY <1>1, <1>2, AgingSpec, PTL
  <1> QED
    BY <1>5, <1>6, PTL

(* No arming outlasts its session (armAgent, renew).                          *)
THEOREM ArmingEnds == MCSpec => []ArmedWithinSession
  <1>1. AgingProofs!ArmedWithinSession => ArmedWithinSession
    BY DEF ArmedWithinSession, Aging!ArmedWithinSession,
             AgingProofs!ArmedWithinSession
  <1>2. AgingProofs!Spec => []AgingProofs!ArmedWithinSession
    BY AgingAssumed, AgingProofs!ArmedWithin
  <1>3. ~(part = "aging") => ArmedWithinSession
    BY DEF ArmedWithinSession
  <1>4. ~(part = "aging") /\ [MCNext]_MCVars => (~(part = "aging"))'
    BY DEF MCNext, MCVars
  <1>5. MCSpec /\ ~(part = "aging") => []ArmedWithinSession
    BY <1>3, <1>4, PTL DEF MCSpec
  <1>6. MCSpec /\ part = "aging" => []ArmedWithinSession
    BY <1>1, <1>2, AgingSpec, PTL
  <1> QED
    BY <1>5, <1>6, PTL

=============================================================================
