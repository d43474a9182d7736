-------------------------- MODULE RepairFlow_proofs --------------------------
(***************************************************************************)
(* The repair handlers, for any number of goroutines, apps, tokens and      *)
(* requests, any settings change, restart and bound: what a handler has     *)
(* passed on its route, it has really passed when it sends a control call.  *)
(***************************************************************************)
EXTENDS RepairFlow, FiniteSetTheorems, TLAPS

Signed == [target : Apps \cup {Array}, expires : Int]
Stored == [app : Apps, status : {"pending", "denied", "executed", "failed"}]
Control == [job : Job, ok : BOOLEAN, time : Nat]

Shapes ==
    /\ clock \in Nat /\ grants \in Seq(Grant)
    /\ docker \in [Apps -> AppState] /\ array \in {"started", "stopped"}
    /\ cfg \in Settings
    /\ issued \in [Tokens -> Signed \cup {None}]
    /\ consumed \subseteq Tokens
    /\ requests \in [Requests -> Stored \cup {None}]
    /\ job \in [Threads -> Job \cup {None}]
    /\ controls \in Seq(Control)
    /\ base \in 0..Len(controls)

\* The step a handler stands before.
StepOf(j) == Route[j.kind][j.at]

Placed(j) == j.at \in DOMAIN Route[j.kind]

\* What a handler acts on besides its target.
RefOK(j) ==
    /\ j.kind \in {"plan", "array"} => j.ref \in Tokens /\ issued[j.ref] # None
    /\ j.kind \in {"request", "deny", "create"} => j.ref \in Requests /\ j.target \in Apps

\* What a handler has seen of the gates at each step of its route: the opt-in
\* from the check on, or from the gate of an automatic repair on, and the
\* reviewer's consent behind the review.
Gated(j) ==
    /\ OptedIn(j.kind, j.target, cfg) => j.sawAllowed
    /\ cfg.agentControlEnabled => j.sawControl
    /\ j.kind \in {"plan", "request"} => j.sawControl
    /\ j.kind \in {"plan", "request", "direct"} /\ StepOf(j) # "check" => j.sawAllowed
    /\ j.kind = "auto" /\ StepOf(j) = "gate" /\ j.seen # None => j.sawAllowed
    /\ j.kind = "auto" /\ StepOf(j) \notin {"diagnose", "gate"} => j.sawAllowed /\ j.sawControl
    /\ j.kind \in ReviewedKinds /\ StepOf(j) \notin {"check", "diagnose", "gate", "review"} => j.reviewed

\* A handler that holds a reservation, and one that redeemed a token, until it
\* sends its control call.
Reserved(j) == j.kind \in LimitedKinds /\ StepOf(j) = "execute"
Redeemed(j) == j.kind \in {"plan", "array"} /\ StepOf(j) \in {"reserve", "execute"}

Holds(t, x) == job[t] # None /\ Redeemed(job[t]) /\ job[t].ref = x
SentUnder(i, x) == controls[i].job.kind \in {"plan", "array"} /\ controls[i].job.ref = x

\* Once a token was redeemed, its nonce is remembered until it expires; so
\* before that, only one handler redeems it.
OnceRedeemed(x) ==
    LET expired == clock >= issued[x].expires IN
    /\ \A t \in Threads : Holds(t, x) => x \in consumed \/ expired
    /\ \A i \in DOMAIN controls : SentUnder(i, x) => x \in consumed \/ expired
    /\ \A t, u \in Threads : Holds(t, x) /\ Holds(u, x) => t = u \/ expired
    /\ \A t \in Threads, i \in DOMAIN controls : Holds(t, x) /\ SentUnder(i, x) => expired

\* A control call was sent for request r, and turned out as its status says.
SentFor(r, status) ==
    \E i \in DOMAIN controls :
        /\ controls[i].job.kind = "request"
        /\ controls[i].job.ref = r
        /\ controls[i].ok = (status = "executed")

\* What an approved request is about to be marked with is what happened.
Told(j) ==
    j.kind = "request" /\ StepOf(j) \in {"verify", "resolve"} =>
        j.result \in {"executed", "failed"} /\ SentFor(j.ref, j.result)

JobInv(j) == Placed(j) /\ RefOK(j) /\ Gated(j) /\ Told(j)

FlowInv ==
    /\ Shapes
    /\ \A t \in Threads : job[t] # None => JobInv(job[t])
    /\ \A i \in DOMAIN controls : RefOK(controls[i].job)
    /\ \A x \in consumed : issued[x] # None
    /\ \A x \in Tokens : OnceRedeemed(x)
    /\ ControlsGated
    /\ EveryControlReserved
    /\ TokenOncePerLifetime
    /\ RequestOutcomeTrue

-----------------------------------------------------------------------------
(* The routes.                                                             *)

(* What can come before what on a route.                                    *)
LEMMA RouteOrder ==
    ASSUME NEW k \in AllKinds, NEW n \in DOMAIN Route[k]
    PROVE  /\ n \in 1..6 /\ Len(Route[k]) \in 1..6 /\ DOMAIN Route[k] = 1..Len(Route[k])
           /\ n # Len(Route[k]) => n + 1 \in DOMAIN Route[k]
           /\ n + 1 \in DOMAIN Route[k] =>
                /\ Route[k][n + 1] \notin {"check", "diagnose"}
                /\ Route[k][n + 1] = "gate" => Route[k][n] = "diagnose"
                /\ Route[k][n] = "diagnose" => Route[k][n + 1] = "gate"
                /\ Route[k][n] = "gate" => Route[k][n + 1] = "review"
                /\ Route[k][n + 1] = "execute" /\ k \in LimitedKinds => Route[k][n] = "reserve"
                /\ k \in {"plan", "array"} /\ Route[k][n + 1] \in {"reserve", "execute"}
                     => Route[k][n] \in {"consume", "reserve"}
                /\ k \in {"plan", "request", "direct"} /\ Route[k][n] = "check"
                     => Route[k][n + 1] = "review"
                /\ Route[k][n] = "execute" => Route[k][n + 1] = "verify"
                /\ Route[k][n] = "verify" => Route[k][n + 1] = "resolve"
                /\ k = "request" /\ Route[k][n + 1] = "verify" => Route[k][n] = "execute"
                /\ k = "request" /\ Route[k][n + 1] = "resolve" => Route[k][n] = "verify"
           /\ Route[k][n] \in {"diagnose", "gate"} => k = "auto"
           /\ Route[k][n] = "check" => k \in {"plan", "request", "direct", "array", "control"}
           /\ Route[k][n] = "consume" => k \in {"plan", "array"}
           /\ Route[k][n] = "reserve" => k \in LimitedKinds
           /\ Route[k][n] = "resolve" => k \in {"request", "deny"}
           /\ Route[k][n] = "store" => k = "create"
  <1>1. CASE k = "plan"
    BY <1>1 DEF Route, LimitedKinds, ReviewedKinds, AdminKinds
  <1>2. CASE k = "auto"
    BY <1>2 DEF Route, LimitedKinds, ReviewedKinds, AdminKinds
  <1>3. CASE k = "request"
    BY <1>3 DEF Route, LimitedKinds, ReviewedKinds, AdminKinds
  <1>4. CASE k = "deny"
    BY <1>4 DEF Route, LimitedKinds, ReviewedKinds, AdminKinds
  <1>5. CASE k = "create"
    BY <1>5 DEF Route, LimitedKinds, ReviewedKinds, AdminKinds
  <1>6. CASE k = "direct"
    BY <1>6 DEF Route, LimitedKinds, ReviewedKinds, AdminKinds
  <1>7. CASE k = "array"
    BY <1>7 DEF Route, LimitedKinds, ReviewedKinds, AdminKinds
  <1>8. CASE k = "unifi"
    BY <1>8 DEF Route, LimitedKinds, ReviewedKinds, AdminKinds
  <1>9. CASE k = "control"
    BY <1>9 DEF Route, LimitedKinds, ReviewedKinds, AdminKinds
  <1> QED
    BY <1>1, <1>2, <1>3, <1>4, <1>5, <1>6, <1>7, <1>8, <1>9 DEF AllKinds

-----------------------------------------------------------------------------
(* Moving along a route.                                                    *)

LEMMA MoveAt ==
    ASSUME NEW j \in Job, NEW n \in 1..7
    PROVE  /\ [j EXCEPT !.at = n] \in Job /\ [j EXCEPT !.at = n].at = n
           /\ [j EXCEPT !.at = n].kind = j.kind /\ [j EXCEPT !.at = n].target = j.target
           /\ [j EXCEPT !.at = n].ref = j.ref /\ [j EXCEPT !.at = n].seen = j.seen
           /\ [j EXCEPT !.at = n].reviewed = j.reviewed /\ [j EXCEPT !.at = n].result = j.result
           /\ [j EXCEPT !.at = n].sawControl = j.sawControl
           /\ [j EXCEPT !.at = n].sawAllowed = j.sawAllowed
  BY DEF Job

(* The handler of t, which still runs, and which keeps its identity.        *)
LEMMA Running ==
    ASSUME FlowInv, NEW t \in Threads, job[t] # None
    PROVE  /\ job[t] \in Job /\ JobInv(job[t]) /\ Placed(job[t])
           /\ job[t].kind \in Kinds /\ job[t].kind \in AllKinds /\ job[t].target \in Targets
           /\ job[t].at \in 1..6 /\ job[t].at \in DOMAIN Route[job[t].kind]
  <1>1. job[t] \in Job /\ JobInv(job[t]) /\ Placed(job[t])
    BY DEF FlowInv, Shapes, JobInv
  <1>2. job[t].kind \in Kinds /\ job[t].kind \in AllKinds /\ job[t].target \in Targets
    BY <1>1, FlowAssumption DEF Job
  <1> QED
    BY <1>1, <1>2, RouteOrder DEF Placed

LEMMA Advanced ==
    ASSUME FlowInv, NEW t \in Threads, job[t] # None,
           NEW s \in Job, s.kind = job[t].kind, s.at = job[t].at, Advance(t, s)
    PROVE  \/ job' = [job EXCEPT ![t] = None]
           \/ \E n \in DOMAIN Route[s.kind] :
                 /\ n = s.at + 1 /\ n \in 1..7
                 /\ job' = [job EXCEPT ![t] = [s EXCEPT !.at = n]]
  <1>1. job[t].kind \in AllKinds /\ job[t].at \in DOMAIN Route[job[t].kind]
    BY Running
  <1>2. CASE job[t].at = Len(Route[job[t].kind])
    BY <1>2 DEF Advance, Finish
  <1>3. CASE job[t].at # Len(Route[job[t].kind])
    <2> DEFINE n == s.at + 1
    <2>1. n \in DOMAIN Route[s.kind] /\ n \in 1..7
      BY <1>1, <1>3, RouteOrder
    <2>2. job' = [job EXCEPT ![t] = [s EXCEPT !.at = n]]
      BY <1>3 DEF Advance
    <2> QED
      BY <2>1, <2>2
  <1> QED
    BY <1>2, <1>3

-----------------------------------------------------------------------------
(* A step that changes nothing but its own goroutine, and neither holds a   *)
(* reservation nor a redeemed token afterwards.                              *)

LEMMA OthersStay ==
    ASSUME FlowInv, NEW t \in Threads, NEW r \in Job \cup {None},
           job' = [job EXCEPT ![t] = r]
    PROVE  /\ job' \in [Threads -> Job \cup {None}] /\ job'[t] = r
           /\ \A u \in Threads : u # t => job'[u] = job[u]
  BY DEF FlowInv, Shapes

(* Fewer handlers hold a reservation, and nothing was sent or granted.      *)
LEMMA FewerReserved ==
    ASSUME FlowInv, UNCHANGED <<controls, base, grants>>,
           \A u \in Threads : job'[u] # None /\ Reserved(job'[u]) =>
               job[u] # None /\ Reserved(job[u]) /\ job[u].target = job'[u].target
    PROVE  EveryControlReserved'
  <1> SUFFICES ASSUME NEW k \in Targets
      PROVE  Cardinality({i \in base + 1 .. Len(controls) :
                              /\ controls[i].job.target = k
                              /\ controls[i].job.kind \in LimitedKinds})
               + Cardinality({u \in Threads : /\ job'[u] # None
                                              /\ job'[u].target = k
                                              /\ job'[u].kind \in LimitedKinds
                                              /\ At(u, "execute")'})
             <= Cardinality({i \in DOMAIN grants : grants[i].key = k})
    BY DEF EveryControlReserved
  <1> DEFINE sent == {i \in base + 1 .. Len(controls) :
                              /\ controls[i].job.target = k
                              /\ controls[i].job.kind \in LimitedKinds}
             held == {u \in Threads : /\ job[u] # None
                                      /\ job[u].target = k
                                      /\ job[u].kind \in LimitedKinds
                                      /\ At(u, "execute")}
             holds == {u \in Threads : /\ job'[u] # None
                                       /\ job'[u].target = k
                                       /\ job'[u].kind \in LimitedKinds
                                       /\ At(u, "execute")'}
             granted == {i \in DOMAIN grants : grants[i].key = k}
  <1>1. holds \subseteq held
    BY DEF At, Reserved, StepOf
  <1>2. IsFiniteSet(held) /\ Cardinality(held) \in Nat /\ Cardinality(holds) \in Nat
        /\ Cardinality(holds) <= Cardinality(held)
    <2>1. IsFiniteSet(held)
      BY FlowAssumption, FS_Subset
    <2> QED
      BY <1>1, <2>1, FS_Subset, FS_CardinalityType
  <1>3. Cardinality(sent) \in Nat
    <2>1. base + 1 \in Int /\ Len(controls) \in Int
      BY DEF FlowInv, Shapes
    <2>2. IsFiniteSet(base + 1 .. Len(controls))
      BY <2>1, FS_Interval
    <2> QED
      BY <2>2, FS_Subset, FS_CardinalityType
  <1>4. Cardinality(granted) \in Nat
    <2>1. IsFiniteSet(DOMAIN grants)
      <3>1. DOMAIN grants = 1..Len(grants) /\ Len(grants) \in Int
        BY DEF FlowInv, Shapes
      <3> QED
        BY <3>1, FS_Interval
    <2> QED
      BY <2>1, FS_Subset, FS_CardinalityType
  <1>5. Cardinality(sent) + Cardinality(held) <= Cardinality(granted)
    BY DEF FlowInv, EveryControlReserved
  <1> HIDE DEF sent, held, holds, granted
  <1>6. Cardinality(sent) + Cardinality(holds) <= Cardinality(granted)
    BY <1>2, <1>3, <1>4, <1>5
  <1> QED
    BY <1>6 DEF sent, holds, granted

\* A step of t that only moves t, to where it holds nothing.
Plain(t, r) ==
    /\ r \in Job \cup {None}
    /\ job' = [job EXCEPT ![t] = r]
    /\ r # None => JobInv(r) /\ ~Reserved(r) /\ ~Redeemed(r)
    /\ OnlyJobs

LEMMA PlainInv ==
    ASSUME FlowInv, NEW t \in Threads, NEW r, Plain(t, r)
    PROVE  FlowInv'
  <1>1. /\ job' \in [Threads -> Job \cup {None}] /\ job'[t] = r
        /\ \A u \in Threads : u # t => job'[u] = job[u]
    BY OthersStay DEF Plain
  <1>2. UNCHANGED <<clock, grants, docker, array, cfg, issued, consumed, requests, controls, base, toggles>>
    BY DEF Plain, OnlyJobs, budgetVars, worldVars
  <1>3. Shapes'
    BY <1>1, <1>2 DEF FlowInv, Shapes
  <1>4. ASSUME NEW u \in Threads, job'[u] # None PROVE JobInv(job[u])'
    BY <1>1, <1>2, <1>4 DEF FlowInv, Plain, JobInv, Placed, RefOK, Gated, Told, SentFor, StepOf
  <1>5. \A i \in DOMAIN controls' : RefOK(controls[i].job)'
    BY <1>2 DEF FlowInv, RefOK
  <1>6. \A x \in consumed' : issued'[x] # None
    BY <1>2 DEF FlowInv
  <1>7. ASSUME NEW x \in Tokens PROVE OnceRedeemed(x)'
    <2>1. \A u \in Threads : Holds(u, x)' => Holds(u, x)
      BY <1>1 DEF Plain, Holds, Redeemed, StepOf
    <2>2. \A i \in DOMAIN controls' : SentUnder(i, x)' => SentUnder(i, x)
      BY <1>2 DEF SentUnder
    <2> QED
      BY <1>2, <2>1, <2>2 DEF FlowInv, OnceRedeemed
  <1>8. ControlsGated'
    BY <1>2 DEF FlowInv, ControlsGated
  <1>9. EveryControlReserved'
    BY <1>1, <1>2, FewerReserved DEF Plain
  <1>10. TokenOncePerLifetime'
    BY <1>2 DEF FlowInv, TokenOncePerLifetime, SameToken
  <1>11. RequestOutcomeTrue'
    BY <1>2 DEF FlowInv, RequestOutcomeTrue
  <1> QED
    BY <1>3, <1>4, <1>5, <1>6, <1>7, <1>8, <1>9, <1>10, <1>11 DEF FlowInv

LEMMA FinishInv ==
    ASSUME FlowInv, NEW t \in Threads, Finish(t), OnlyJobs
    PROVE  FlowInv'
  BY PlainInv DEF Plain, Finish

-----------------------------------------------------------------------------
(* The beginning of a handler.                                              *)

LEMMA StartInv ==
    ASSUME FlowInv, NEW t \in Threads, NEW kind \in AllKinds, NEW target \in Targets,
           NEW act \in Action \cup {None}, NEW ref \in Tokens \cup Requests \cup {None},
           kind \in {"plan", "array"} => ref \in Tokens /\ issued[ref] # None,
           kind \in {"request", "deny", "create"} => ref \in Requests /\ target \in Apps,
           kind \in {"plan", "request"} => cfg.agentControlEnabled,
           Start(t, kind, target, act, ref), OnlyJobs
    PROVE  FlowInv'
  <1> DEFINE r == [kind |-> kind, at |-> 1, target |-> target, act |-> act, ref |-> ref,
                   seen |-> None, attempt |-> 0, reviewed |-> FALSE, result |-> None,
                   sawControl |-> cfg.agentControlEnabled,
                   sawAllowed |-> OptedIn(kind, target, cfg)]
  <1>1. job' = [job EXCEPT ![t] = r] /\ kind \in Kinds
    BY DEF Start
  <1>2. cfg.agentControlEnabled \in BOOLEAN /\ OptedIn(kind, target, cfg) \in BOOLEAN
    BY DEF FlowInv, Shapes, Settings, OptedIn
  <1>3. r \in Job
    BY <1>1, <1>2, FlowAssumption DEF Job
  <1>4. /\ 1 \in DOMAIN Route[kind]
        /\ kind \in {"plan", "request", "direct"} => Route[kind][1] = "check"
        /\ kind = "auto" => Route[kind][1] = "diagnose"
        /\ ~(kind \in LimitedKinds /\ Route[kind][1] = "execute")
        /\ ~(kind \in {"plan", "array"} /\ Route[kind][1] \in {"reserve", "execute"})
        /\ kind = "request" => Route[kind][1] = "check"
    BY DEF AllKinds, Route, LimitedKinds, ReviewedKinds, AdminKinds
  <1>5. /\ r.kind = kind /\ r.at = 1 /\ r.target = target /\ r.ref = ref /\ r.seen = None
        /\ r.sawControl = cfg.agentControlEnabled /\ r.sawAllowed = OptedIn(kind, target, cfg)
    OBVIOUS
  <1> HIDE DEF r
  <1>6. Placed(r) /\ RefOK(r) /\ Told(r) /\ ~Reserved(r) /\ ~Redeemed(r)
    BY <1>4, <1>5 DEF Placed, RefOK, Told, Reserved, Redeemed, StepOf
  <1>7. Gated(r)
    BY <1>4, <1>5 DEF Gated, StepOf, ReviewedKinds, AdminKinds
  <1> QED
    BY <1>1, <1>3, <1>6, <1>7, PlainInv DEF Plain, JobInv

LEMMA BeginInv == ASSUME FlowInv, NEW t \in Threads, Begin(t) PROVE FlowInv'
  <1>1. ASSUME NEW x \in Tokens, BeginPlan(t, x) PROVE FlowInv'
    <2>1. issued[x] # None /\ issued[x].target \in Targets
      BY <1>1, FlowAssumption DEF BeginPlan, TokenValid
    <2> QED
      BY <1>1, <2>1, StartInv DEF BeginPlan, AllKinds, Action
  <1>2. ASSUME NEW x \in Tokens, BeginArray(t, x) PROVE FlowInv'
    <2>1. issued[x] # None /\ Array \in Targets
      BY <1>2, FlowAssumption DEF BeginArray, TokenValid
    <2> QED
      BY <1>2, <2>1, StartInv DEF BeginArray, AllKinds, Action
  <1>3. ASSUME NEW q \in Requests, NEW choice \in {"approve", "deny"}, BeginDecision(t, q, choice)
        PROVE  FlowInv'
    <2>1. requests[q].app \in Apps /\ requests[q].app \in Targets
      BY <1>3, FlowAssumption DEF BeginDecision, FlowInv, Shapes, Stored
    <2>2. CASE Start(t, "deny", requests[q].app, None, q)
      BY <1>3, <2>1, <2>2, StartInv DEF BeginDecision, AllKinds
    <2>3. CASE cfg.agentControlEnabled /\ Start(t, "request", requests[q].app, "restart", q)
      BY <1>3, <2>1, <2>3, StartInv DEF BeginDecision, AllKinds, Action
    <2> QED
      BY <1>3, <2>2, <2>3 DEF BeginDecision
  <1>4. ASSUME NEW a \in Apps, BeginCreate(t, a) PROVE FlowInv'
    <2>1. PICK q \in Requests : Start(t, "create", a, None, q)
      BY <1>4 DEF BeginCreate
    <2>2. a \in Targets /\ OnlyJobs
      BY <1>4, FlowAssumption DEF BeginCreate
    <2> QED
      BY <2>1, <2>2, StartInv DEF AllKinds
  <1>5. ASSUME NEW a \in Apps, BeginAuto(t, a) PROVE FlowInv'
    BY <1>5, StartInv, FlowAssumption DEF BeginAuto, AllKinds, Action
  <1>6. ASSUME NEW a \in Apps, NEW act \in Action, BeginDirect(t, a, act) PROVE FlowInv'
    BY <1>6, StartInv, FlowAssumption DEF BeginDirect, AllKinds
  <1>7. ASSUME NEW a \in Apps, NEW act \in Action, BeginControl(t, a, act) PROVE FlowInv'
    BY <1>7, StartInv, FlowAssumption DEF BeginControl, AllKinds
  <1>8. CASE BeginDevice(t)
    BY <1>8, StartInv, FlowAssumption DEF BeginDevice, AllKinds, Action
  <1> QED
    BY <1>1, <1>2, <1>3, <1>4, <1>5, <1>6, <1>7, <1>8 DEF Begin

-----------------------------------------------------------------------------
(* The steps that only move their handler.                                  *)

(* What a handler settled, moved on by one, when the next step is not       *)
(* execute for a limited handler and nothing is redeemed.                   *)
LEMMA ForwardInv ==
    ASSUME FlowInv, NEW t \in Threads, job[t] # None, OnlyJobs,
           NEW s \in Job, s.kind = job[t].kind, s.at = job[t].at,
           s.target = job[t].target, s.ref = job[t].ref, s.result = job[t].result,
           s.sawControl = job[t].sawControl, s.sawAllowed = job[t].sawAllowed,
           Advance(t, s),
           StepOf(job[t]) \notin {"consume", "reserve", "execute"},
           s.kind \in {"plan", "request", "direct"} => s.sawAllowed,
           s.kind = "auto" /\ StepOf(job[t]) = "diagnose" /\ s.seen # None => s.sawAllowed,
           s.kind = "auto" /\ StepOf(job[t]) # "diagnose" => s.sawAllowed /\ s.sawControl,
           s.kind \in ReviewedKinds /\ StepOf(job[t]) \notin {"check", "diagnose", "gate"} => s.reviewed
    PROVE  FlowInv'
  <1>1. CASE job' = [job EXCEPT ![t] = None]
    BY <1>1, FinishInv DEF Finish
  <1>2. ASSUME NEW n \in DOMAIN Route[s.kind], n = s.at + 1, n \in 1..7,
               job' = [job EXCEPT ![t] = [s EXCEPT !.at = n]]
        PROVE  FlowInv'
    <2> DEFINE r == [s EXCEPT !.at = n]
    <2>1. /\ r \in Job /\ r.at = n /\ r.kind = s.kind /\ r.target = s.target /\ r.ref = s.ref
          /\ r.seen = s.seen /\ r.reviewed = s.reviewed /\ r.result = s.result
          /\ r.sawControl = s.sawControl /\ r.sawAllowed = s.sawAllowed
      BY <1>2, MoveAt
    <2> HIDE DEF r
    <2>2. JobInv(job[t]) /\ s.kind \in AllKinds /\ s.at \in DOMAIN Route[s.kind]
      BY Running
    <2> DEFINE this == Route[s.kind][s.at]
               next == Route[s.kind][n]
    <2>3. this = StepOf(job[t]) /\ next = StepOf(r)
      BY <2>1 DEF StepOf
    <2>4. /\ next \notin {"check", "diagnose"}
          /\ next = "gate" => this = "diagnose"
          /\ this = "diagnose" => next = "gate"
          /\ this = "gate" => next = "review"
          /\ next = "execute" /\ s.kind \in LimitedKinds => this = "reserve"
          /\ s.kind \in {"plan", "array"} /\ next \in {"reserve", "execute"} => this \in {"consume", "reserve"}
          /\ s.kind \in {"plan", "request", "direct"} /\ this = "check" => next = "review"
          /\ this = "check" => s.kind \in {"plan", "request", "direct", "array", "control"}
          /\ s.kind = "request" /\ next = "verify" => this = "execute"
          /\ s.kind = "request" /\ next = "resolve" => this = "verify"
      BY <1>2, <2>2, RouteOrder
    <2> HIDE DEF this, next
    <2>5. Placed(r) /\ RefOK(r)
      BY <1>2, <2>1, <2>2 DEF JobInv, Placed, RefOK
    <2>6. ~Reserved(r) /\ ~Redeemed(r)
      BY <2>1, <2>3, <2>4 DEF Reserved, Redeemed
    <2>7. Gated(r)
      BY <2>1, <2>2, <2>3, <2>4 DEF JobInv, Gated, ReviewedKinds, AdminKinds
    <2>8. Told(r)
      BY <2>1, <2>2, <2>3, <2>4 DEF JobInv, Told
    <2> QED
      BY <1>2, <2>1, <2>5, <2>6, <2>7, <2>8, PlainInv DEF Plain, JobInv, r
  <1> QED
    BY <1>1, <1>2, Advanced

LEMMA CheckInv == ASSUME FlowInv, NEW t \in Threads, Check(t) PROVE FlowInv'
  <1>1. job[t] # None /\ StepOf(job[t]) = "check" /\ OnlyJobs
    BY DEF Check, At, StepOf
  <1>2. job[t] \in Job /\ JobInv(job[t]) /\ job[t].target \in Targets
    BY <1>1, Running
  <1>3. ASSUME NEW act \in Action, CheckPasses(t, act),
               Advance(t, [job[t] EXCEPT !.act = act, !.seen = Observed(job[t].target)])
        PROVE  FlowInv'
    <2> DEFINE s == [job[t] EXCEPT !.act = act, !.seen = Observed(job[t].target)]
    <2>1. Observed(job[t].target) \in AppState \cup {"started", "stopped", None}
      BY <1>2, FlowAssumption DEF Observed, FlowInv, Shapes
    <2>2. /\ s \in Job /\ s.kind = job[t].kind /\ s.at = job[t].at /\ s.target = job[t].target
          /\ s.ref = job[t].ref /\ s.result = job[t].result /\ s.sawControl = job[t].sawControl
          /\ s.sawAllowed = job[t].sawAllowed
      BY <1>2, <2>1 DEF Job
    <2> HIDE DEF s
    <2>3. job[t].kind \in {"plan", "request", "direct"} => job[t].sawAllowed
      BY <1>2, <1>3 DEF CheckPasses, JobInv, Gated, OptedIn
    <2>4. job[t].kind # "auto"
      BY <1>1, Running, RouteOrder DEF StepOf
    <2> QED
      BY <1>1, <1>3, <2>2, <2>3, <2>4, ForwardInv DEF s
  <1>4. CASE Finish(t)
    BY <1>1, <1>4, FinishInv
  <1> QED
    BY <1>3, <1>4 DEF Check

LEMMA DiagnoseInv == ASSUME FlowInv, NEW t \in Threads, Diagnose(t) PROVE FlowInv'
  <1>1. job[t] # None /\ StepOf(job[t]) = "diagnose" /\ OnlyJobs
    BY DEF Diagnose, At, StepOf
  <1>2. /\ job[t] \in Job /\ JobInv(job[t]) /\ job[t].kind = "auto"
    BY <1>1, Running, RouteOrder DEF StepOf
  <1> DEFINE a == job[t].target
             act == ResolveAction(a)
             seen == IF a \in cfg.repairAllowed THEN docker[a] ELSE None
             s == [job[t] EXCEPT !.act = act, !.seen = seen]
  <1>3. act \in Action /\ seen \in AppState \cup {None}
    BY DEF ResolveAction, Action, FlowInv, Shapes, Settings
  <1>4. seen # None => job[t].sawAllowed
    BY <1>2 DEF JobInv, Gated, OptedIn
  <1>5. Advance(t, s)
    BY DEF Diagnose
  <1> HIDE DEF act, seen
  <1>6. /\ s \in Job /\ s.kind = job[t].kind /\ s.at = job[t].at /\ s.target = job[t].target
        /\ s.ref = job[t].ref /\ s.result = job[t].result /\ s.sawControl = job[t].sawControl
        /\ s.sawAllowed = job[t].sawAllowed /\ s.seen = seen
    BY <1>2, <1>3 DEF Job
  <1> HIDE DEF s
  <1> QED
    BY <1>1, <1>2, <1>4, <1>5, <1>6, ForwardInv

LEMMA GateInv == ASSUME FlowInv, NEW t \in Threads, Gate(t) PROVE FlowInv'
  <1>1. job[t] # None /\ StepOf(job[t]) = "gate" /\ OnlyJobs
    BY DEF Gate, At, StepOf
  <1>2. job[t] \in Job /\ JobInv(job[t]) /\ job[t].kind = "auto"
    BY <1>1, Running, RouteOrder DEF StepOf
  <1>3. CASE AutoGateOpen(t) /\ Advance(t, job[t])
    <2>1. job[t].sawAllowed /\ job[t].sawControl
      BY <1>1, <1>2, <1>3 DEF AutoGateOpen, JobInv, Gated
    <2> QED
      BY <1>1, <1>2, <1>3, <2>1, ForwardInv
  <1>4. CASE Finish(t)
    BY <1>1, <1>4, FinishInv
  <1> QED
    BY <1>3, <1>4 DEF Gate

LEMMA ReviewInv == ASSUME FlowInv, NEW t \in Threads, Review(t) PROVE FlowInv'
  <1>1. job[t] # None /\ StepOf(job[t]) = "review" /\ OnlyJobs
    BY DEF Review, At, StepOf
  <1>2. job[t] \in Job /\ JobInv(job[t])
    BY <1>1, Running
  <1> DEFINE s == [job[t] EXCEPT !.reviewed = TRUE]
  <1>3. CASE Advance(t, s)
    <2>1. /\ s \in Job /\ s.kind = job[t].kind /\ s.at = job[t].at /\ s.target = job[t].target
          /\ s.ref = job[t].ref /\ s.result = job[t].result /\ s.sawControl = job[t].sawControl
          /\ s.sawAllowed = job[t].sawAllowed /\ s.reviewed
      BY <1>2 DEF Job
    <2> HIDE DEF s
    <2>2. /\ job[t].kind \in {"plan", "request", "direct"} => job[t].sawAllowed
          /\ job[t].kind = "auto" => job[t].sawAllowed /\ job[t].sawControl
      BY <1>1, <1>2 DEF JobInv, Gated
    <2> QED
      BY <1>1, <1>3, <2>1, <2>2, ForwardInv
  <1>4. CASE Finish(t)
    BY <1>1, <1>4, FinishInv
  <1> QED
    BY <1>3, <1>4 DEF Review, ReviewOutcome

LEMMA VerifyInv == ASSUME FlowInv, NEW t \in Threads, Verify(t) PROVE FlowInv'
  <1>1. job[t] # None /\ StepOf(job[t]) = "verify" /\ OnlyJobs
    BY DEF Verify, At, StepOf
  <1>2. job[t] \in Job /\ JobInv(job[t])
    BY <1>1, Running
  <1>3. CASE Advance(t, job[t])
    <2>1. /\ job[t].kind \in {"plan", "request", "direct"} => job[t].sawAllowed
          /\ job[t].kind = "auto" => job[t].sawAllowed /\ job[t].sawControl
          /\ job[t].kind \in ReviewedKinds => job[t].reviewed
      BY <1>1, <1>2 DEF JobInv, Gated
    <2> QED
      BY <1>1, <1>2, <1>3, <2>1, ForwardInv
  <1>4. CASE MoreAttempts(t) /\ job' = [job EXCEPT ![t].attempt = NextAttempt(@)]
    <2> DEFINE n == NextAttempt(job[t].attempt)
               r == [job[t] EXCEPT !.attempt = n]
    <2>1. job[t].attempt \in 0..MaxAttempts
      BY <1>2 DEF Job
    <2>2. n \in 0..MaxAttempts
      BY <1>4, <2>1, FlowAssumption DEF MoreAttempts, NextAttempt
    <2> HIDE DEF n
    <2>3. /\ r \in Job /\ r.kind = job[t].kind /\ r.at = job[t].at /\ r.target = job[t].target
          /\ r.ref = job[t].ref /\ r.seen = job[t].seen /\ r.reviewed = job[t].reviewed
          /\ r.sawControl = job[t].sawControl /\ r.sawAllowed = job[t].sawAllowed
          /\ r.result = job[t].result
      BY <1>2, <2>2 DEF Job
    <2>4. job' = [job EXCEPT ![t] = r]
      BY <1>4 DEF n
    <2> HIDE DEF r
    <2>5. JobInv(r) /\ ~Reserved(r) /\ ~Redeemed(r)
      BY <1>1, <1>2, <2>3 DEF JobInv, Placed, RefOK, Gated, Told, Reserved, Redeemed, StepOf
    <2> QED
      BY <1>1, <2>3, <2>4, <2>5, PlainInv DEF Plain
  <1> QED
    BY <1>1, <1>3, <1>4 DEF Verify

LEMMA StoreInv ==
    ASSUME FlowInv, NEW t \in Threads, Resolve(t) \/ StoreRequest(t)
    PROVE  FlowInv'
  <1>1. /\ job' = [job EXCEPT ![t] = None] /\ job[t] # None
        /\ UNCHANGED <<clock, grants, docker, array, cfg, issued, consumed, controls, base>>
    BY DEF Resolve, StoreRequest, At, Finish, budgetVars, worldVars
  <1>2. \A u \in Threads : job'[u] # None => job'[u] = job[u]
    BY <1>1, OthersStay
  <1>3. /\ StepOf(job[t]) \in {"resolve", "store"} /\ job[t] \in Job /\ JobInv(job[t])
        /\ job[t].kind \in {"request", "deny", "create"}
        /\ StepOf(job[t]) = "resolve" => job[t].kind \in {"request", "deny"}
    BY <1>1, Running, RouteOrder DEF Resolve, StoreRequest, At, StepOf
  <1>4. job[t].target \in Apps /\ job[t].ref \in Requests
    BY <1>3 DEF JobInv, RefOK
  <1>5. PICK status \in {"pending", "denied", "executed", "failed"} :
            /\ requests' = [requests EXCEPT ![job[t].ref] = [app |-> job[t].target, status |-> status]]
            /\ status \in {"executed", "failed"} => SentFor(job[t].ref, status)
    <2>1. CASE Resolve(t)
      <3>1. StepOf(job[t]) = "resolve"
        BY <2>1 DEF Resolve, At, StepOf
      <3>2. /\ ResolvedAs(t) \in {"denied", "executed", "failed"}
            /\ ResolvedAs(t) \in {"executed", "failed"} => SentFor(job[t].ref, ResolvedAs(t))
        BY <1>3, <3>1 DEF ResolvedAs, JobInv, Told
      <3> QED
        BY <2>1, <3>2 DEF Resolve
    <2>2. CASE StoreRequest(t)
      BY <2>2 DEF StoreRequest
    <2> QED
      BY <2>1, <2>2
  <1>6. Shapes'
    <2>1. [app |-> job[t].target, status |-> status] \in Stored
      BY <1>4, <1>5 DEF Stored
    <2>2. requests' \in [Requests -> Stored \cup {None}]
      BY <1>4, <1>5, <2>1 DEF FlowInv, Shapes
    <2>3. job' \in [Threads -> Job \cup {None}]
      BY <1>1, OthersStay
    <2> QED
      BY <1>1, <2>2, <2>3 DEF FlowInv, Shapes
  <1>7. RequestOutcomeTrue'
    <2> SUFFICES ASSUME NEW r \in Requests, requests'[r] # None,
                        requests'[r].status \in {"executed", "failed"}
                 PROVE  SentFor(r, requests'[r].status)
      BY <1>1 DEF RequestOutcomeTrue, SentFor
    <2>1. CASE r = job[t].ref
      BY <1>4, <1>5, <2>1 DEF FlowInv, Shapes
    <2>2. CASE r # job[t].ref
      BY <1>4, <1>5, <2>2 DEF FlowInv, Shapes, RequestOutcomeTrue, SentFor
    <2> QED
      BY <2>1, <2>2
  <1>8. ASSUME NEW u \in Threads, job'[u] # None PROVE JobInv(job[u])'
    BY <1>1, <1>2, <1>8 DEF FlowInv, JobInv, Placed, RefOK, Gated, Told, SentFor, StepOf
  <1>9. \A i \in DOMAIN controls' : RefOK(controls[i].job)'
    BY <1>1 DEF FlowInv, RefOK
  <1>10. \A x \in consumed' : issued'[x] # None
    BY <1>1 DEF FlowInv
  <1>11. ASSUME NEW x \in Tokens PROVE OnceRedeemed(x)'
    <2>1. \A u \in Threads : Holds(u, x)' => Holds(u, x)
      BY <1>2 DEF Holds, Redeemed, StepOf
    <2>2. \A i \in DOMAIN controls' : SentUnder(i, x)' => SentUnder(i, x)
      BY <1>1 DEF SentUnder
    <2> QED
      BY <1>1, <2>1, <2>2 DEF FlowInv, OnceRedeemed
  <1>12. ControlsGated'
    BY <1>1 DEF FlowInv, ControlsGated
  <1>13. EveryControlReserved'
    BY <1>1, <1>2, FewerReserved
  <1>14. TokenOncePerLifetime'
    BY <1>1 DEF FlowInv, TokenOncePerLifetime, SameToken
  <1> QED
    BY <1>6, <1>7, <1>8, <1>9, <1>10, <1>11, <1>12, <1>13, <1>14 DEF FlowInv
-----------------------------------------------------------------------------
(* The surroundings.                                                        *)

\* A step that moves no goroutine, sends nothing and grants nothing.
Aside == UNCHANGED <<grants, requests, job, controls, base>>

(* What such a step leaves standing by itself.                              *)
LEMMA AsideKeeps ==
    ASSUME FlowInv, Aside
    PROVE  /\ \A t \in Threads : job[t] # None => Placed(job[t])' /\ Told(job[t])'
           /\ ControlsGated' /\ EveryControlReserved' /\ RequestOutcomeTrue'
           /\ \A t \in Threads, x \in Tokens : Holds(t, x)' <=> Holds(t, x)
           /\ \A i \in DOMAIN controls, x \in Tokens : SentUnder(i, x)' <=> SentUnder(i, x)
  <1>1. UNCHANGED <<grants, requests, job, controls, base>>
    BY DEF Aside
  <1>2. ControlsGated' /\ RequestOutcomeTrue'
    BY <1>1 DEF FlowInv, ControlsGated, RequestOutcomeTrue
  <1>3. EveryControlReserved'
    BY <1>1, FewerReserved
  <1>4. \A t \in Threads : job[t] # None => Placed(job[t])' /\ Told(job[t])'
    BY <1>1 DEF FlowInv, JobInv, Placed, Told, SentFor, StepOf
  <1>5. \A t \in Threads, x \in Tokens : Holds(t, x)' <=> Holds(t, x)
    BY <1>1 DEF Holds, Redeemed, StepOf
  <1>6. \A i \in DOMAIN controls, x \in Tokens : SentUnder(i, x)' <=> SentUnder(i, x)
    BY <1>1 DEF SentUnder
  <1> QED
    BY <1>2, <1>3, <1>4, <1>5, <1>6

(* A handler that acts on a token, or a call sent under one, has it signed.  *)
LEMMA SignedFirst ==
    ASSUME FlowInv, NEW x \in Tokens
    PROVE  /\ \A t \in Threads : Holds(t, x) => issued[x] # None
           /\ \A i \in DOMAIN controls : SentUnder(i, x) => issued[x] # None
           /\ issued[x] # None => issued[x] \in Signed /\ issued[x].expires \in Int
           /\ clock \in Nat
  <1>1. issued[x] # None => issued[x] \in Signed /\ issued[x].expires \in Int
    BY DEF FlowInv, Shapes, Signed
  <1>2. \A t \in Threads : Holds(t, x) => issued[x] # None
    BY DEF FlowInv, JobInv, RefOK, Holds, Redeemed
  <1>3. \A i \in DOMAIN controls : SentUnder(i, x) => issued[x] # None
    BY DEF FlowInv, RefOK, SentUnder
  <1> QED
    BY <1>1, <1>2, <1>3 DEF FlowInv, Shapes

LEMMA WorldMovesInv == ASSUME FlowInv, WorldMoves PROVE FlowInv'
  <1>1. /\ Aside
        /\ UNCHANGED <<clock, grants, cfg, issued, consumed, requests, job, controls, base>>
    BY DEF WorldMoves, Aside, budgetVars
  <1>2. Shapes'
    BY <1>1 DEF WorldMoves, FlowInv, Shapes
  <1>3. ASSUME NEW t \in Threads, job'[t] # None PROVE JobInv(job[t])'
    <2>1. Placed(job[t])' /\ Told(job[t])'
      BY <1>1, <1>3, AsideKeeps
    <2> QED
      BY <1>1, <1>3, <2>1 DEF FlowInv, JobInv, RefOK, Gated, StepOf
  <1>4. /\ \A i \in DOMAIN controls' : RefOK(controls[i].job)'
        /\ \A x \in consumed' : issued'[x] # None
    BY <1>1 DEF FlowInv, RefOK
  <1>5. \A x \in Tokens : OnceRedeemed(x)'
    BY <1>1, AsideKeeps DEF FlowInv, OnceRedeemed
  <1>6. TokenOncePerLifetime'
    BY <1>1 DEF FlowInv, TokenOncePerLifetime, SameToken
  <1> QED
    BY <1>1, <1>2, <1>3, <1>4, <1>5, <1>6, AsideKeeps DEF FlowInv

LEMMA TickInv == ASSUME FlowInv, Tick, UNCHANGED flowVars PROVE FlowInv'
  <1>1. /\ Aside /\ clock' = clock + 1
        /\ UNCHANGED <<docker, array, grants, cfg, issued, consumed, requests, job, controls, base>>
    BY DEF Tick, Aside, flowVars, worldVars
  <1>2. Shapes'
    BY <1>1 DEF FlowInv, Shapes
  <1>3. ASSUME NEW t \in Threads, job'[t] # None PROVE JobInv(job[t])'
    <2>1. Placed(job[t])' /\ Told(job[t])'
      BY <1>1, <1>3, AsideKeeps
    <2> QED
      BY <1>1, <1>3, <2>1 DEF FlowInv, JobInv, RefOK, Gated, StepOf
  <1>4. /\ \A i \in DOMAIN controls' : RefOK(controls[i].job)'
        /\ \A x \in consumed' : issued'[x] # None
    BY <1>1 DEF FlowInv, RefOK
  <1>5. ASSUME NEW x \in Tokens PROVE OnceRedeemed(x)'
    <2>1. issued[x] # None /\ clock >= issued[x].expires => clock' >= issued'[x].expires
      BY <1>1, SignedFirst
    <2> QED
      BY <1>1, <2>1, AsideKeeps, SignedFirst DEF FlowInv, OnceRedeemed
  <1>6. TokenOncePerLifetime'
    BY <1>1 DEF FlowInv, TokenOncePerLifetime, SameToken
  <1> QED
    BY <1>1, <1>2, <1>3, <1>4, <1>5, <1>6, AsideKeeps DEF FlowInv

LEMMA ProposeInv == ASSUME FlowInv, NEW x \in Tokens, Propose(x) PROVE FlowInv'
  <1>1. /\ Aside /\ issued[x] = None
        /\ UNCHANGED <<clock, docker, array, grants, cfg, consumed, requests, job, controls, base>>
    BY DEF Propose, Aside, budgetVars, worldVars
  <1>2. PICK target \in Apps \cup {Array} :
            issued' = [issued EXCEPT ![x] = [target |-> target, expires |-> clock + TokenTTL]]
    BY DEF Propose
  <1> DEFINE new == [target |-> target, expires |-> clock + TokenTTL]
  <1>3. new \in Signed /\ new # None
    <2>1. clock + TokenTTL \in Int
      BY FlowAssumption DEF FlowInv, Shapes
    <2>2. new \in [target : Apps \cup {Array}, expires : Int]
      BY <2>1
    <2> QED
      BY <2>2, FlowAssumption DEF Signed
  <1> HIDE DEF new
  <1>4. issued' = [issued EXCEPT ![x] = new] /\ issued \in [Tokens -> Signed \cup {None}]
    BY <1>2 DEF new, FlowInv, Shapes
  <1>5. /\ \A y \in Tokens : issued[y] # None => issued'[y] = issued[y] /\ issued'[y] # None
        /\ issued' \in [Tokens -> Signed \cup {None}]
    BY <1>1, <1>3, <1>4
  <1>6. Shapes'
    BY <1>1, <1>5 DEF FlowInv, Shapes
  <1>7. ASSUME NEW t \in Threads, job'[t] # None PROVE JobInv(job[t])'
    <2>1. Placed(job[t])' /\ Told(job[t])'
      BY <1>1, <1>7, AsideKeeps
    <2> QED
      BY <1>1, <1>5, <1>7, <2>1 DEF FlowInv, JobInv, RefOK, Gated, StepOf
  <1>8. \A i \in DOMAIN controls' : RefOK(controls[i].job)'
    BY <1>1, <1>5 DEF FlowInv, RefOK
  <1>9. \A y \in consumed' : issued'[y] # None
    BY <1>1, <1>5 DEF FlowInv, Shapes
  <1>10. ASSUME NEW y \in Tokens PROVE OnceRedeemed(y)'
    <2>1. CASE issued[y] # None
      BY <1>1, <1>5, <2>1, AsideKeeps DEF FlowInv, OnceRedeemed
    <2>2. CASE issued[y] = None
      BY <1>1, <2>2, AsideKeeps, SignedFirst DEF OnceRedeemed
    <2> QED
      BY <2>1, <2>2
  <1>11. TokenOncePerLifetime'
    <2> SUFFICES ASSUME NEW i \in DOMAIN controls, NEW j \in DOMAIN controls,
                        i < j, SameToken(i, j)
                 PROVE  controls[j].time >= issued'[controls[j].job.ref].expires
      BY <1>1 DEF TokenOncePerLifetime, SameToken
    <2>1. controls[j].job.ref \in Tokens /\ issued[controls[j].job.ref] # None
      BY DEF FlowInv, RefOK, SameToken
    <2> QED
      BY <1>5, <2>1 DEF FlowInv, TokenOncePerLifetime
  <1> QED
    BY <1>1, <1>6, <1>7, <1>8, <1>9, <1>10, <1>11, AsideKeeps DEF FlowInv

LEMMA SaveSettingsInv == ASSUME FlowInv, SaveSettings PROVE FlowInv'
  <1>1. UNCHANGED <<clock, grants, docker, array, issued, consumed, requests, controls, base>>
    BY DEF SaveSettings, budgetVars, worldVars
  <1>2. cfg' \in Settings /\ cfg'.agentControlEnabled \in BOOLEAN
    <2>1. cfg \in Settings
      BY DEF FlowInv, Shapes
    <2>2. cfg' \in Settings
      BY <2>1 DEF SaveSettings, Settings
    <2> QED
      BY <2>2 DEF Settings
  <1> DEFINE opted(j) == OptedIn(j.kind, j.target, cfg')
             seen(j) == [j EXCEPT !.sawControl = @ \/ cfg'.agentControlEnabled,
                                  !.sawAllowed = @ \/ opted(j)]
  <1>3. job' = [t \in Threads |-> IF job[t] = None THEN None ELSE seen(job[t])]
    BY DEF SaveSettings
  <1>4. ASSUME NEW t \in Threads, job[t] # None
        PROVE  LET j == job[t] IN
               /\ job'[t] \in Job /\ job'[t].kind = j.kind /\ job'[t].at = j.at
               /\ job'[t].target = j.target /\ job'[t].ref = j.ref /\ job'[t].seen = j.seen
               /\ job'[t].reviewed = j.reviewed /\ job'[t].result = j.result
               /\ job'[t].sawControl = (j.sawControl \/ cfg'.agentControlEnabled)
               /\ job'[t].sawAllowed = (j.sawAllowed \/ opted(j))
    <2>1. job[t] \in Job
      BY <1>4, Running
    <2>2. job'[t] = seen(job[t])
      BY <1>3, <1>4
    <2>3. job[t].sawControl \in BOOLEAN /\ job[t].sawAllowed \in BOOLEAN
      BY <2>1 DEF Job
    <2>4. opted(job[t]) \in BOOLEAN
      BY DEF OptedIn
    <2> HIDE DEF opted
    <2>5. /\ (job[t].sawControl \/ cfg'.agentControlEnabled) \in BOOLEAN
          /\ (job[t].sawAllowed \/ opted(job[t])) \in BOOLEAN
      OBVIOUS
    <2> QED
      BY <2>1, <2>2, <2>5 DEF Job
  <1> HIDE DEF seen
  <1>5. \A t \in Threads : job'[t] # None => job[t] # None
    BY <1>3
  <1>6. Shapes'
    <2>1. job' \in [Threads -> Job \cup {None}]
      BY <1>3, <1>4
    <2> QED
      BY <1>1, <1>2, <2>1 DEF FlowInv, Shapes
  <1>7. ASSUME NEW t \in Threads, job'[t] # None PROVE JobInv(job[t])'
    <2>1. JobInv(job[t])
      BY <1>5, <1>7, Running
    <2>2. Placed(job[t])' /\ RefOK(job[t])' /\ Told(job[t])'
      BY <1>1, <1>4, <1>5, <1>7, <2>1 DEF JobInv, Placed, RefOK, Told, SentFor, StepOf
    <2>3. Gated(job[t])'
      BY <1>4, <1>5, <1>7, <2>1 DEF JobInv, Gated, StepOf
    <2> QED
      BY <2>2, <2>3 DEF JobInv
  <1>8. /\ \A i \in DOMAIN controls' : RefOK(controls[i].job)'
        /\ \A x \in consumed' : issued'[x] # None
    BY <1>1 DEF FlowInv, RefOK
  <1>9. ASSUME NEW x \in Tokens PROVE OnceRedeemed(x)'
    <2>1. \A t \in Threads : Holds(t, x)' => Holds(t, x)
      BY <1>4, <1>5 DEF Holds, Redeemed, StepOf
    <2>2. \A i \in DOMAIN controls' : SentUnder(i, x)' => SentUnder(i, x)
      BY <1>1 DEF SentUnder
    <2> QED
      BY <1>1, <2>1, <2>2 DEF FlowInv, OnceRedeemed
  <1>10. ControlsGated' /\ RequestOutcomeTrue'
    BY <1>1 DEF FlowInv, ControlsGated, RequestOutcomeTrue
  <1>11. EveryControlReserved'
    BY <1>1, <1>4, <1>5, FewerReserved DEF Reserved, StepOf
  <1>12. TokenOncePerLifetime'
    BY <1>1 DEF FlowInv, TokenOncePerLifetime, SameToken
  <1> QED
    BY <1>6, <1>7, <1>8, <1>9, <1>10, <1>11, <1>12 DEF FlowInv

LEMMA RestartInv == ASSUME FlowInv, Restart PROVE FlowInv'
  <1>1. /\ job' = [t \in Threads |-> None] /\ grants' = << >> /\ consumed' = {}
        /\ issued' = [x \in Tokens |-> IF issued[x] = None THEN None
                                       ELSE [issued[x] EXCEPT !.expires = -1]]
        /\ base' = Len(controls)
        /\ UNCHANGED <<clock, docker, array, cfg, requests, controls>>
    BY DEF Restart, worldVars
  <1>2. ASSUME NEW x \in Tokens, issued[x] # None
        PROVE  issued'[x] \in Signed /\ issued'[x].expires = -1 /\ issued'[x] # None
    <2>1. issued[x] \in Signed
      BY <1>2 DEF FlowInv, Shapes
    <2>2. issued'[x] = [issued[x] EXCEPT !.expires = -1]
      BY <1>1, <1>2
    <2>3. issued'[x] \in Signed /\ issued'[x].expires = -1
      BY <2>1, <2>2 DEF Signed
    <2> QED
      BY <2>3, FlowAssumption DEF Signed
  <1>3. \A x \in Tokens : issued[x] = None => issued'[x] = None
    BY <1>1
  <1>4. Shapes'
    <2>1. issued' \in [Tokens -> Signed \cup {None}]
      BY <1>1, <1>2, <1>3
    <2>2. grants' \in Seq(Grant) /\ job' \in [Threads -> Job \cup {None}]
      BY <1>1
    <2>3. base' \in 0..Len(controls)
      BY <1>1 DEF FlowInv, Shapes
    <2> QED
      BY <1>1, <2>1, <2>2, <2>3 DEF FlowInv, Shapes
  <1>5. /\ \A t \in Threads : job'[t] = None
        /\ \A x \in consumed' : issued'[x] # None
    BY <1>1
  <1>6. \A i \in DOMAIN controls' : RefOK(controls[i].job)'
    BY <1>1, <1>2 DEF FlowInv, RefOK
  <1>7. ASSUME NEW x \in Tokens PROVE OnceRedeemed(x)'
    <2>1. \A t \in Threads : ~Holds(t, x)'
      BY <1>5 DEF Holds
    <2>2. \A i \in DOMAIN controls' : SentUnder(i, x)' => clock' >= issued'[x].expires
      <3>1. \A i \in DOMAIN controls' : SentUnder(i, x)' => issued[x] # None
        BY <1>1, SignedFirst DEF SentUnder
      <3>2. clock' \in Nat
        BY <1>4 DEF Shapes
      <3> QED
        BY <1>2, <3>1, <3>2
    <2> QED
      BY <2>1, <2>2 DEF OnceRedeemed
  <1>8. ControlsGated' /\ RequestOutcomeTrue'
    BY <1>1 DEF FlowInv, ControlsGated, RequestOutcomeTrue
  <1>9. EveryControlReserved'
    <2> SUFFICES ASSUME NEW k \in Targets
        PROVE  Cardinality({i \in base' + 1 .. Len(controls') :
                                /\ controls'[i].job.target = k
                                /\ controls'[i].job.kind \in LimitedKinds})
                 + Cardinality({u \in Threads : /\ job'[u] # None
                                                /\ job'[u].target = k
                                                /\ job'[u].kind \in LimitedKinds
                                                /\ At(u, "execute")'})
               <= Cardinality({i \in DOMAIN grants' : grants'[i].key = k})
      BY DEF EveryControlReserved
    <2> DEFINE sent == {i \in base' + 1 .. Len(controls') :
                           /\ controls'[i].job.target = k
                           /\ controls'[i].job.kind \in LimitedKinds}
               held == {u \in Threads : /\ job'[u] # None
                                        /\ job'[u].target = k
                                        /\ job'[u].kind \in LimitedKinds
                                        /\ At(u, "execute")'}
               granted == {i \in DOMAIN grants' : grants'[i].key = k}
    <2>1. sent = {}
      <3>1. Len(controls) \in Nat /\ base' = Len(controls) /\ Len(controls') = Len(controls)
        BY <1>1 DEF FlowInv, Shapes
      <3>2. base' + 1 .. Len(controls') = {}
        BY <3>1
      <3> QED
        BY <3>2
    <2>2. held = {}
      BY <1>5
    <2>3. granted = {}
      BY <1>1
    <2> HIDE DEF sent, held, granted
    <2>4. Cardinality(sent) + Cardinality(held) <= Cardinality(granted)
      BY <2>1, <2>2, <2>3, FS_EmptySet
    <2> QED
      BY <2>4 DEF sent, held, granted
  <1>10. TokenOncePerLifetime'
    <2> SUFFICES ASSUME NEW i \in DOMAIN controls, NEW j \in DOMAIN controls,
                        i < j, SameToken(i, j)
                 PROVE  controls[j].time >= issued'[controls[j].job.ref].expires
      BY <1>1 DEF TokenOncePerLifetime, SameToken
    <2>1. controls[j].job.ref \in Tokens /\ issued[controls[j].job.ref] # None
      BY DEF FlowInv, RefOK, SameToken
    <2>2. controls[j].time \in Nat
      <3>1. controls \in Seq(Control)
        BY DEF FlowInv, Shapes
      <3>2. controls[j] \in Control
        BY <3>1
      <3> QED
        BY <3>2 DEF Control
    <2> QED
      BY <1>2, <2>1, <2>2
  <1> QED
    BY <1>4, <1>5, <1>6, <1>7, <1>8, <1>9, <1>10 DEF FlowInv

-----------------------------------------------------------------------------
(* The steps that spend something: the nonce, the reservation, the call.    *)

(* What is counted in a finite stretch of a log.                            *)
LEMMA Counted ==
    ASSUME NEW a \in Int, NEW b \in Int, NEW S \in SUBSET (a..b)
    PROVE  IsFiniteSet(S) /\ Cardinality(S) \in Nat
  BY FS_Interval, FS_Subset, FS_CardinalityType

LEMMA ConsumeInv == ASSUME FlowInv, NEW t \in Threads, Consume(t) PROVE FlowInv'
  <1>1. /\ job[t] # None /\ StepOf(job[t]) = "consume"
        /\ UNCHANGED <<clock, grants, docker, array, cfg, issued, requests, controls, base>>
    BY DEF Consume, At, StepOf, budgetVars, worldVars
  <1>2. /\ job[t] \in Job /\ JobInv(job[t]) /\ job[t].kind \in {"plan", "array"}
        /\ job[t].kind \in AllKinds /\ job[t].at \in DOMAIN Route[job[t].kind]
    BY <1>1, Running, RouteOrder DEF StepOf
  <1> DEFINE ref == job[t].ref
  <1>3. ref \in Tokens /\ issued[ref] # None
    BY <1>2 DEF JobInv, RefOK
  <1>4. PICK r \in Job \cup {None} :
            /\ job' = [job EXCEPT ![t] = r]
            /\ r # None => /\ JobInv(r) /\ ~Reserved(r)
                           /\ Redeemed(r) => r.ref = ref /\ ref \notin Remembered
            /\ Remembered \subseteq consumed'
            /\ consumed' \subseteq Remembered \cup {ref}
            /\ r # None => ref \in consumed'
    <2>1. CASE consumed' = Remembered /\ Finish(t)
      BY <2>1 DEF Finish
    <2>2. CASE /\ ref \notin Remembered /\ consumed' = Remembered \cup {ref}
               /\ Advance(t, job[t])
      <3>1. CASE job' = [job EXCEPT ![t] = None]
        BY <2>2, <3>1
      <3>2. ASSUME NEW n \in DOMAIN Route[job[t].kind], n = job[t].at + 1, n \in 1..7,
                   job' = [job EXCEPT ![t] = [job[t] EXCEPT !.at = n]]
            PROVE  \E r \in Job : /\ job' = [job EXCEPT ![t] = r]
                                  /\ JobInv(r) /\ ~Reserved(r) /\ r.ref = ref
        <4> DEFINE s == job[t]
                   r == [s EXCEPT !.at = n]
        <4> HIDE DEF s
        <4>0. s \in Job /\ s = job[t]
          BY <1>2 DEF s
        <4>1. /\ r \in Job /\ r.at = n /\ r.kind = s.kind /\ r.target = s.target /\ r.ref = s.ref
              /\ r.seen = s.seen /\ r.reviewed = s.reviewed /\ r.result = s.result
              /\ r.sawControl = s.sawControl /\ r.sawAllowed = s.sawAllowed
          <5>1. s \in Job
            BY <4>0
          <5>2. n \in 1..7
            BY <3>2
          <5> QED
            BY <5>1, <5>2, MoveAt
        <4>2. job' = [job EXCEPT ![t] = r]
          BY <3>2, <4>0
        <4> HIDE DEF r
        <4>3. /\ StepOf(r) \notin {"check", "diagnose"}
              /\ ~(StepOf(r) = "execute" /\ r.kind \in LimitedKinds)
          BY <1>1, <1>2, <3>2, <4>0, <4>1, RouteOrder DEF StepOf
        <4>4. r.kind # "request"
          BY <1>2, <4>0, <4>1
        <4>5. Placed(r) /\ RefOK(r) /\ Told(r) /\ ~Reserved(r)
          BY <1>1, <1>2, <3>2, <4>0, <4>1, <4>3, <4>4 DEF JobInv, Placed, RefOK, Told, Reserved
        <4>6. Gated(r)
          BY <1>1, <1>2, <4>0, <4>1, <4>3 DEF JobInv, Gated, ReviewedKinds, AdminKinds
        <4> QED
          BY <4>0, <4>1, <4>2, <4>5, <4>6 DEF JobInv
      <3>3. \E r \in Job \cup {None} :
               /\ job' = [job EXCEPT ![t] = r]
               /\ r # None => JobInv(r) /\ ~Reserved(r) /\ r.ref = ref
        BY <1>1, <1>2, <2>2, <3>1, <3>2, Advanced
      <3>4. Remembered \subseteq consumed' /\ consumed' \subseteq Remembered \cup {ref} /\ ref \in consumed'
        BY <2>2
      <3> QED
        BY <2>2, <3>3, <3>4
    <2> QED
      BY <2>1, <2>2 DEF Consume
  <1>5. /\ job' \in [Threads -> Job \cup {None}] /\ job'[t] = r
        /\ \A u \in Threads : u # t => job'[u] = job[u]
    BY <1>4, OthersStay
  <1>6. Remembered \subseteq consumed /\ consumed \subseteq Tokens
    BY DEF Remembered, FlowInv, Shapes
  <1>7. Shapes'
    BY <1>1, <1>3, <1>4, <1>5, <1>6 DEF FlowInv, Shapes
  <1>8. ASSUME NEW u \in Threads, job'[u] # None PROVE JobInv(job[u])'
    <2>1. JobInv(job'[u])
      BY <1>4, <1>5, <1>8, Running
    <2> QED
      BY <1>1, <2>1 DEF JobInv, Placed, RefOK, Gated, Told, SentFor, StepOf
  <1>9. /\ \A i \in DOMAIN controls' : RefOK(controls[i].job)'
        /\ \A x \in consumed' : issued'[x] # None
    BY <1>1, <1>3, <1>4, <1>6 DEF FlowInv, RefOK
  <1>10. ASSUME NEW x \in Tokens PROVE OnceRedeemed(x)'
    <2>1. /\ \A u \in Threads : Holds(u, x)' /\ ~Holds(u, x) =>
                 u = t /\ x = ref /\ ref \notin Remembered /\ ref \in consumed'
          /\ \A i \in DOMAIN controls' : SentUnder(i, x)' <=> SentUnder(i, x)
      BY <1>1, <1>4, <1>5 DEF Holds, SentUnder, Redeemed, StepOf
    <2>2. x \in consumed /\ issued[x] # None => x \in Remembered \/ clock >= issued[x].expires
      BY SignedFirst DEF Remembered
    <2>3. /\ \A u \in Threads : Holds(u, x) => x \in Remembered \/ clock >= issued[x].expires
          /\ \A i \in DOMAIN controls : SentUnder(i, x) => x \in Remembered \/ clock >= issued[x].expires
      BY <2>2, SignedFirst DEF FlowInv, OnceRedeemed
    <2>4. /\ \A u \in Threads : Holds(u, x)' => x \in consumed' \/ clock >= issued[x].expires
          /\ \A i \in DOMAIN controls : SentUnder(i, x) => x \in consumed' \/ clock >= issued[x].expires
      BY <1>4, <2>1, <2>3
    <2>5. /\ \A u, v \in Threads : Holds(u, x)' /\ Holds(v, x)' => u = v \/ clock >= issued[x].expires
          /\ \A u \in Threads, i \in DOMAIN controls :
                 Holds(u, x)' /\ SentUnder(i, x) => clock >= issued[x].expires
      BY <2>1, <2>3 DEF FlowInv, OnceRedeemed
    <2> QED
      BY <1>1, <2>1, <2>4, <2>5 DEF OnceRedeemed
  <1>11. ControlsGated' /\ RequestOutcomeTrue'
    BY <1>1 DEF FlowInv, ControlsGated, RequestOutcomeTrue
  <1>12. EveryControlReserved'
    BY <1>1, <1>4, <1>5, FewerReserved
  <1>13. TokenOncePerLifetime'
    BY <1>1 DEF FlowInv, TokenOncePerLifetime, SameToken
  <1> QED
    BY <1>7, <1>8, <1>9, <1>10, <1>11, <1>12, <1>13 DEF FlowInv

LEMMA ReserveInv == ASSUME FlowInv, NEW t \in Threads, Reserve(t) PROVE FlowInv'
  <1>1. /\ job[t] # None /\ StepOf(job[t]) = "reserve"
        /\ UNCHANGED <<clock, docker, array, cfg, issued, consumed, requests, controls, base, toggles>>
    BY DEF Reserve, At, StepOf, AllowRepair, Refused, worldVars
  <1>2. /\ job[t] \in Job /\ JobInv(job[t]) /\ job[t].kind \in LimitedKinds
        /\ job[t].kind \in AllKinds /\ job[t].at \in DOMAIN Route[job[t].kind]
        /\ job[t].target \in Targets
    BY <1>1, Running, RouteOrder DEF StepOf
  <1>3. CASE Refused(t)
    <2>1. OnlyJobs
      BY <1>1, <1>3 DEF OnlyJobs, Refused, budgetVars, worldVars
    <2> QED
      BY <1>3, <2>1, FinishInv DEF Refused
  <1>4. CASE AllowRepair(job[t].target, clock) /\ Advance(t, job[t])
    <2> DEFINE grant == [key |-> job[t].target, now |-> clock, at |-> clock]
    <2>1. grants' = Append(grants, grant) /\ grants \in Seq(Grant) /\ grant \in Grant
          /\ grant.key = job[t].target
      BY <1>2, <1>4 DEF AllowRepair, FlowInv, Shapes, Grant
    <2> HIDE DEF grant
    <2>2. /\ grants' \in Seq(Grant) /\ Len(grants) \in Nat /\ Len(grants') = Len(grants) + 1
          /\ DOMAIN grants = 1..Len(grants) /\ DOMAIN grants' = 1..Len(grants) + 1
          /\ \A i \in DOMAIN grants : grants'[i] = grants[i]
          /\ grants'[Len(grants) + 1].key = job[t].target
      BY <2>1
    <2>3. PICK r \in Job \cup {None} :
              /\ job' = [job EXCEPT ![t] = r]
              /\ r # None => /\ JobInv(r) /\ r.target = job[t].target
                             /\ Redeemed(r) => Redeemed(job[t]) /\ r.ref = job[t].ref
      <3>1. CASE job' = [job EXCEPT ![t] = None]
        BY <3>1
      <3>2. ASSUME NEW n \in DOMAIN Route[job[t].kind], n = job[t].at + 1, n \in 1..7,
                   job' = [job EXCEPT ![t] = [job[t] EXCEPT !.at = n]]
            PROVE  \E r \in Job : /\ job' = [job EXCEPT ![t] = r]
                                  /\ JobInv(r) /\ r.target = job[t].target
                                  /\ Redeemed(r) => Redeemed(job[t]) /\ r.ref = job[t].ref
        <4> DEFINE s == job[t]
                   r == [s EXCEPT !.at = n]
        <4> HIDE DEF s
        <4>0. s \in Job /\ s = job[t]
          BY <1>2 DEF s
        <4>1. /\ r \in Job /\ r.at = n /\ r.kind = s.kind /\ r.target = s.target /\ r.ref = s.ref
              /\ r.seen = s.seen /\ r.reviewed = s.reviewed /\ r.result = s.result
              /\ r.sawControl = s.sawControl /\ r.sawAllowed = s.sawAllowed
          <5>1. s \in Job
            BY <4>0
          <5>2. n \in 1..7
            BY <3>2
          <5> QED
            BY <5>1, <5>2, MoveAt
        <4>2. job' = [job EXCEPT ![t] = r]
          BY <3>2, <4>0
        <4> HIDE DEF r
        <4>3. /\ StepOf(r) \notin {"check", "diagnose", "gate"}
              /\ ~(r.kind = "request" /\ StepOf(r) \in {"verify", "resolve"})
          BY <1>1, <1>2, <3>2, <4>0, <4>1, RouteOrder DEF StepOf
        <4>4. Placed(r) /\ RefOK(r) /\ Told(r)
          BY <1>2, <3>2, <4>0, <4>1, <4>3 DEF JobInv, Placed, RefOK, Told
        <4>5. Gated(r)
          BY <1>1, <1>2, <4>0, <4>1, <4>3 DEF JobInv, Gated, ReviewedKinds, AdminKinds
        <4>6. Redeemed(r) => Redeemed(job[t])
          BY <1>1, <4>0, <4>1 DEF Redeemed
        <4> QED
          BY <4>0, <4>1, <4>2, <4>4, <4>5, <4>6 DEF JobInv
      <3> QED
        BY <1>1, <1>2, <1>4, <3>1, <3>2, Advanced
    <2>4. /\ job' \in [Threads -> Job \cup {None}] /\ job'[t] = r
          /\ \A u \in Threads : u # t => job'[u] = job[u]
      BY <2>3, OthersStay
    <2>5. Shapes'
      BY <1>1, <2>2, <2>4 DEF FlowInv, Shapes
    <2>6. ASSUME NEW u \in Threads, job'[u] # None PROVE JobInv(job[u])'
      <3>1. JobInv(job'[u])
        BY <2>3, <2>4, <2>6, Running
      <3> QED
        BY <1>1, <3>1 DEF JobInv, Placed, RefOK, Gated, Told, SentFor, StepOf
    <2>7. /\ \A i \in DOMAIN controls' : RefOK(controls[i].job)'
          /\ \A x \in consumed' : issued'[x] # None
      BY <1>1 DEF FlowInv, RefOK
    <2>8. ASSUME NEW x \in Tokens PROVE OnceRedeemed(x)'
      <3>1. \A u \in Threads : Holds(u, x)' => Holds(u, x)
        BY <1>1, <2>3, <2>4 DEF Holds, Redeemed, StepOf
      <3>2. \A i \in DOMAIN controls' : SentUnder(i, x)' => SentUnder(i, x)
        BY <1>1 DEF SentUnder
      <3> QED
        BY <1>1, <3>1, <3>2 DEF FlowInv, OnceRedeemed
    <2>9. ControlsGated' /\ RequestOutcomeTrue'
      BY <1>1 DEF FlowInv, ControlsGated, RequestOutcomeTrue
    <2>10. TokenOncePerLifetime'
      BY <1>1 DEF FlowInv, TokenOncePerLifetime, SameToken
    <2>11. EveryControlReserved'
      <3> SUFFICES ASSUME NEW k \in Targets
          PROVE  Cardinality({i \in base + 1 .. Len(controls) :
                                  /\ controls[i].job.target = k
                                  /\ controls[i].job.kind \in LimitedKinds})
                   + Cardinality({u \in Threads : /\ job'[u] # None
                                                  /\ job'[u].target = k
                                                  /\ job'[u].kind \in LimitedKinds
                                                  /\ At(u, "execute")'})
                 <= Cardinality({i \in DOMAIN grants' : grants'[i].key = k})
        BY <1>1 DEF EveryControlReserved
      <3> DEFINE sent == {i \in base + 1 .. Len(controls) :
                             /\ controls[i].job.target = k
                             /\ controls[i].job.kind \in LimitedKinds}
                 held == {u \in Threads : /\ job[u] # None
                                          /\ job[u].target = k
                                          /\ job[u].kind \in LimitedKinds
                                          /\ At(u, "execute")}
                 holds == {u \in Threads : /\ job'[u] # None
                                           /\ job'[u].target = k
                                           /\ job'[u].kind \in LimitedKinds
                                           /\ At(u, "execute")'}
                 granted == {i \in DOMAIN grants : grants[i].key = k}
                 grows == {i \in DOMAIN grants' : grants'[i].key = k}
                 n == Len(grants) + 1
      <3>1. Cardinality(sent) + Cardinality(held) <= Cardinality(granted)
        BY DEF FlowInv, EveryControlReserved
      <3>2. /\ Cardinality(sent) \in Nat
            /\ IsFiniteSet(granted) /\ Cardinality(granted) \in Nat
        <4>1. base + 1 \in Int /\ Len(controls) \in Int
          BY DEF FlowInv, Shapes
        <4>2. sent \in SUBSET (base + 1 .. Len(controls)) /\ granted \in SUBSET (1..Len(grants))
          BY <2>2
        <4>3. 1 \in Int /\ Len(grants) \in Int
          BY <2>2
        <4> HIDE DEF sent, granted
        <4> QED
          BY <4>1, <4>2, <4>3, Counted
      <3>3. IsFiniteSet(held) /\ Cardinality(held) \in Nat
            /\ IsFiniteSet(holds) /\ Cardinality(holds) \in Nat
        <4>1. held \subseteq Threads /\ holds \subseteq Threads
          OBVIOUS
        <4> HIDE DEF held, holds
        <4> QED
          BY <4>1, FlowAssumption, FS_Subset, FS_CardinalityType
      <3>4. holds \subseteq held \cup {t} /\ (job[t].target # k => holds \subseteq held)
        BY <1>1, <2>3, <2>4 DEF At
      <3>5. /\ n \notin granted
            /\ job[t].target = k => grows = granted \cup {n}
            /\ job[t].target # k => grows = granted
        BY <2>2
      <3> HIDE DEF sent, held, holds, granted, grows, n
      <3>6. CASE job[t].target # k
        <4>1. Cardinality(holds) <= Cardinality(held)
          BY <3>3, <3>4, <3>6, FS_Subset
        <4>2. Cardinality(sent) + Cardinality(holds) <= Cardinality(grows)
          BY <3>1, <3>2, <3>3, <3>5, <3>6, <4>1
        <4> QED
          BY <4>2 DEF sent, holds, grows
      <3>7. CASE job[t].target = k
        <4>1. IsFiniteSet(held \cup {t}) /\ Cardinality(held \cup {t}) <= Cardinality(held) + 1
              /\ Cardinality(held \cup {t}) \in Nat
          <5>1. /\ IsFiniteSet(held \cup {t})
                /\ Cardinality(held \cup {t}) =
                     IF t \in held THEN Cardinality(held) ELSE Cardinality(held) + 1
            BY <3>3, FS_AddElement
          <5> QED
            BY <3>3, <5>1
        <4>2. Cardinality(holds) <= Cardinality(held) + 1
          <5>1. Cardinality(holds) <= Cardinality(held \cup {t})
            BY <3>4, <4>1, FS_Subset
          <5> QED
            BY <3>3, <4>1, <5>1
        <4>3. Cardinality(grows) = Cardinality(granted) + 1
          BY <3>2, <3>5, <3>7, FS_AddElement
        <4>4. Cardinality(sent) + Cardinality(holds) <= Cardinality(grows)
          BY <3>1, <3>2, <3>3, <4>2, <4>3
        <4> QED
          BY <4>4 DEF sent, holds, grows
      <3> QED
        BY <3>6, <3>7
    <2> QED
      BY <2>5, <2>6, <2>7, <2>8, <2>9, <2>10, <2>11 DEF FlowInv
  <1> QED
    BY <1>3, <1>4 DEF Reserve

LEMMA ExecuteInv == ASSUME FlowInv, NEW t \in Threads, Execute(t) PROVE FlowInv'
  <1>1. /\ job[t] # None /\ StepOf(job[t]) = "execute"
        /\ UNCHANGED <<clock, grants, cfg, issued, consumed, requests, base, toggles>>
    BY DEF Execute, At, StepOf, budgetVars
  <1>2. /\ job[t] \in Job /\ JobInv(job[t])
        /\ job[t].kind \in AllKinds /\ job[t].at \in DOMAIN Route[job[t].kind]
        /\ job[t].target \in Targets
    BY <1>1, Running, RouteOrder DEF StepOf
  <1>3. PICK ok \in BOOLEAN :
            /\ Controlled(job[t].target, job[t].act, ok)
            /\ controls' = Append(controls, [job |-> job[t], ok |-> ok, time |-> clock])
            /\ \/ ok /\ Advance(t, [job[t] EXCEPT !.result = "executed"])
               \/ ~ok /\ job[t].kind # "request" /\ Finish(t)
               \/ /\ ~ok /\ job[t].kind = "request"
                  /\ job' = [job EXCEPT ![t] = [@ EXCEPT !.result = "failed",
                                                         !.at = Len(Route["request"])]]
    BY DEF Execute
  <1> DEFINE call == [job |-> job[t], ok |-> ok, time |-> clock]
             last == Len(controls) + 1
  <1>4. /\ controls' = Append(controls, call) /\ call \in Control
        /\ call.job = job[t] /\ call.ok = ok /\ call.time = clock /\ clock \in Nat
        /\ controls \in Seq(Control)
    BY <1>2, <1>3 DEF Control, FlowInv, Shapes
  <1> HIDE DEF call
  <1>5. /\ controls' \in Seq(Control) /\ Len(controls) \in Nat /\ Len(controls') = last
        /\ DOMAIN controls = 1..Len(controls) /\ DOMAIN controls' = 1..last
        /\ \A i \in DOMAIN controls : controls'[i] = controls[i] /\ i \in DOMAIN controls'
        /\ controls'[last] = call
    BY <1>4
  <1>6. PICK r \in Job \cup {None} :
            /\ job' = [job EXCEPT ![t] = r]
            /\ r # None =>
                 /\ Placed(r) /\ RefOK(r) /\ Gated(r) /\ ~Reserved(r) /\ ~Redeemed(r)
                 /\ r.kind = job[t].kind /\ r.ref = job[t].ref
                 /\ r.kind = "request" => r.result \in {"executed", "failed"} /\ ok = (r.result = "executed")
    <2>1. ASSUME NEW m \in 1..7, NEW res \in {"executed", "failed"}, m \in DOMAIN Route[job[t].kind],
                 StepOf([job[t] EXCEPT !.result = res, !.at = m]) \in {"verify", "resolve"},
                 job' = [job EXCEPT ![t] = [job[t] EXCEPT !.result = res, !.at = m]],
                 ok = (res = "executed")
          PROVE  \E r \in Job :
                   /\ job' = [job EXCEPT ![t] = r]
                   /\ Placed(r) /\ RefOK(r) /\ Gated(r) /\ ~Reserved(r) /\ ~Redeemed(r)
                   /\ r.kind = job[t].kind /\ r.ref = job[t].ref
                   /\ r.kind = "request" => r.result \in {"executed", "failed"} /\ ok = (r.result = "executed")
      <3> DEFINE s == job[t]
                 r == [s EXCEPT !.result = res, !.at = m]
      <3> HIDE DEF s
      <3>1. s \in Job /\ s = job[t]
        BY <1>2 DEF s
      <3>2. /\ r \in Job /\ r.at = m /\ r.kind = s.kind /\ r.target = s.target /\ r.ref = s.ref
            /\ r.seen = s.seen /\ r.reviewed = s.reviewed /\ r.result = res
            /\ r.sawControl = s.sawControl /\ r.sawAllowed = s.sawAllowed
        <4>1. s \in Job
          BY <3>1
        <4> QED
          BY <2>1, <4>1 DEF Job
      <3>3. job' = [job EXCEPT ![t] = r] /\ StepOf(r) \in {"verify", "resolve"}
        BY <2>1, <3>1
      <3> HIDE DEF r
      <3>4. Placed(r) /\ RefOK(r) /\ ~Reserved(r) /\ ~Redeemed(r)
        BY <1>2, <2>1, <3>1, <3>2, <3>3 DEF JobInv, Placed, RefOK, Reserved, Redeemed
      <3>5. Gated(r)
        BY <1>1, <1>2, <3>1, <3>2, <3>3 DEF JobInv, Gated
      <3> QED
        BY <2>1, <3>1, <3>2, <3>3, <3>4, <3>5
    <2>2. CASE ok /\ Advance(t, [job[t] EXCEPT !.result = "executed"])
      <3> DEFINE s == [job[t] EXCEPT !.result = "executed"]
      <3>1. s \in Job /\ s.kind = job[t].kind /\ s.at = job[t].at
        BY <1>2 DEF Job
      <3>2. CASE job' = [job EXCEPT ![t] = None]
        BY <3>2
      <3>3. ASSUME NEW n \in DOMAIN Route[s.kind], n = s.at + 1, n \in 1..7,
                   job' = [job EXCEPT ![t] = [s EXCEPT !.at = n]]
            PROVE  \E r \in Job :
                     /\ job' = [job EXCEPT ![t] = r]
                     /\ Placed(r) /\ RefOK(r) /\ Gated(r) /\ ~Reserved(r) /\ ~Redeemed(r)
                     /\ r.kind = job[t].kind /\ r.ref = job[t].ref
                     /\ r.kind = "request" => r.result \in {"executed", "failed"} /\ ok = (r.result = "executed")
        <4>1. Route[job[t].kind][n] = "verify" /\ n \in DOMAIN Route[job[t].kind]
          BY <1>1, <1>2, <3>1, <3>3, RouteOrder DEF StepOf
        <4>2. [s EXCEPT !.at = n] = [job[t] EXCEPT !.result = "executed", !.at = n]
          BY <1>2 DEF Job
        <4>3. [job[t] EXCEPT !.result = "executed", !.at = n].kind = job[t].kind
              /\ [job[t] EXCEPT !.result = "executed", !.at = n].at = n
          BY <1>2 DEF Job
        <4>4. StepOf([job[t] EXCEPT !.result = "executed", !.at = n]) \in {"verify", "resolve"}
          BY <4>1, <4>3 DEF StepOf
        <4> QED
          BY <2>1, <2>2, <3>3, <4>1, <4>2, <4>4
      <3> HIDE DEF s
      <3>4. Advance(t, s)
        BY <2>2 DEF s
      <3> QED
        BY <1>1, <3>1, <3>2, <3>3, <3>4, Advanced
    <2>3. CASE Finish(t)
      BY <2>3 DEF Finish
    <2>4. CASE /\ ~ok /\ job[t].kind = "request"
               /\ job' = [job EXCEPT ![t] = [@ EXCEPT !.result = "failed",
                                                      !.at = Len(Route["request"])]]
      <3>1. Len(Route["request"]) = 6 /\ 6 \in DOMAIN Route["request"] /\ Route["request"][6] = "resolve"
        BY DEF Route
      <3>2. [job[t] EXCEPT !.result = "failed", !.at = 6].kind = job[t].kind
            /\ [job[t] EXCEPT !.result = "failed", !.at = 6].at = 6
        BY <1>2 DEF Job
      <3>3. StepOf([job[t] EXCEPT !.result = "failed", !.at = 6]) \in {"verify", "resolve"}
        BY <2>4, <3>1, <3>2 DEF StepOf
      <3>4. job' = [job EXCEPT ![t] = [job[t] EXCEPT !.result = "failed", !.at = 6]]
        BY <2>4, <3>1
      <3>5. 6 \in 1..7 /\ 6 \in DOMAIN Route[job[t].kind] /\ ok = ("failed" = "executed")
        BY <2>4, <3>1
      <3> DEFINE m == 6
                 res == "failed"
      <3>6. /\ m \in 1..7 /\ res \in {"executed", "failed"} /\ m \in DOMAIN Route[job[t].kind]
            /\ StepOf([job[t] EXCEPT !.result = res, !.at = m]) \in {"verify", "resolve"}
            /\ job' = [job EXCEPT ![t] = [job[t] EXCEPT !.result = res, !.at = m]]
            /\ ok = (res = "executed")
        BY <3>3, <3>4, <3>5
      <3> HIDE DEF m, res
      <3>7. \E x \in Job :
               /\ job' = [job EXCEPT ![t] = x]
               /\ Placed(x) /\ RefOK(x) /\ Gated(x) /\ ~Reserved(x) /\ ~Redeemed(x)
               /\ x.kind = job[t].kind /\ x.ref = job[t].ref
               /\ x.kind = "request" => x.result \in {"executed", "failed"} /\ ok = (x.result = "executed")
        BY <2>1, <3>6
      <3> QED
        BY <3>7
    <2> QED
      BY <1>3, <2>2, <2>3, <2>4
  <1>7. /\ job' \in [Threads -> Job \cup {None}] /\ job'[t] = r
        /\ \A u \in Threads : u # t => job'[u] = job[u]
    BY <1>6, OthersStay
  <1>8. docker' \in [Apps -> AppState] /\ array' \in {"started", "stopped"}
    BY <1>3 DEF Controlled, FlowInv, Shapes, worldVars
  <1>9. Shapes'
    <2>1. base' \in 0..Len(controls')
      BY <1>1, <1>5 DEF FlowInv, Shapes
    <2> QED
      BY <1>1, <1>5, <1>7, <1>8, <2>1 DEF FlowInv, Shapes
  <1>10. \A q \in Requests, st \in {"executed", "failed"} : SentFor(q, st) => SentFor(q, st)'
    BY <1>5 DEF SentFor
  <1>11. ASSUME NEW u \in Threads, job'[u] # None PROVE JobInv(job[u])'
    <2>1. CASE u = t
      <3>1. Placed(r) /\ RefOK(r)' /\ Gated(r)'
        BY <1>1, <1>6, <1>7, <1>11, <2>1 DEF RefOK, Gated
      <3>2. r.kind = "request" => r.result \in {"executed", "failed"} /\ SentFor(r.ref, r.result)'
        BY <1>4, <1>5, <1>6, <1>7, <1>11, <2>1 DEF SentFor
      <3> QED
        BY <1>7, <2>1, <3>1, <3>2 DEF JobInv, Placed, RefOK, Gated, Told, StepOf, SentFor
    <2>2. CASE u # t
      <3>1. job'[u] = job[u] /\ JobInv(job[u])
        BY <1>7, <1>11, <2>2, Running
      <3>2. Told(job[u])'
        BY <1>10, <3>1 DEF JobInv, Told, RefOK, StepOf, SentFor
      <3> QED
        BY <1>1, <3>1, <3>2 DEF JobInv, Placed, RefOK, Gated, StepOf
    <2> QED
      BY <2>1, <2>2
  <1>12. ASSUME NEW i \in DOMAIN controls' PROVE RefOK(controls[i].job)'
    <2>1. CASE i \in DOMAIN controls
      BY <1>1, <1>5, <2>1 DEF FlowInv, RefOK
    <2>2. CASE i = last
      BY <1>1, <1>2, <1>4, <1>5, <2>2 DEF JobInv, RefOK
    <2> QED
      BY <1>5, <2>1, <2>2
  <1>13. \A x \in consumed' : issued'[x] # None
    BY <1>1 DEF FlowInv
  <1>14. ASSUME NEW x \in Tokens PROVE OnceRedeemed(x)'
    <2>1. \A u \in Threads : Holds(u, x)' => Holds(u, x) /\ u # t
      BY <1>6, <1>7 DEF Holds, Redeemed, StepOf
    <2>2. \A i \in DOMAIN controls' : SentUnder(i, x)' => \/ i \in DOMAIN controls /\ SentUnder(i, x)
                                                          \/ Holds(t, x)
      <3> SUFFICES ASSUME NEW i \in DOMAIN controls', SentUnder(i, x)'
                   PROVE  \/ i \in DOMAIN controls /\ SentUnder(i, x)
                          \/ Holds(t, x)
        OBVIOUS
      <3>1. CASE i \in DOMAIN controls
        BY <1>5, <3>1 DEF SentUnder
      <3>2. CASE i = last
        BY <1>1, <1>4, <1>5, <3>2 DEF SentUnder, Holds, Redeemed
      <3> QED
        BY <1>5, <3>1, <3>2
    <2>3. OnceRedeemed(x)
      BY DEF FlowInv
    <2> QED
      BY <1>1, <2>1, <2>2, <2>3 DEF OnceRedeemed
  <1>15. ControlsGated'
    <2> SUFFICES ASSUME NEW i \in DOMAIN controls'
                 PROVE  /\ controls'[i].job.kind \in ReviewedKinds =>
                             controls'[i].job.reviewed /\ controls'[i].job.sawAllowed
                        /\ controls'[i].job.kind \in AdminKinds => controls'[i].job.sawControl
      BY DEF ControlsGated
    <2>1. CASE i \in DOMAIN controls
      BY <1>5, <2>1 DEF FlowInv, ControlsGated
    <2>2. CASE i = last
      BY <1>1, <1>2, <1>4, <1>5, <2>2 DEF JobInv, Gated, ReviewedKinds, AdminKinds
    <2> QED
      BY <1>5, <2>1, <2>2
  <1>16. RequestOutcomeTrue'
    BY <1>1, <1>5 DEF FlowInv, RequestOutcomeTrue
  <1>17. TokenOncePerLifetime'
    <2> SUFFICES ASSUME NEW i \in DOMAIN controls', NEW j \in DOMAIN controls', i < j, SameToken(i, j)'
                 PROVE  controls'[j].time >= issued[controls'[j].job.ref].expires
      BY <1>1 DEF TokenOncePerLifetime
    <2>1. CASE j \in DOMAIN controls
      <3>1. i \in DOMAIN controls
        BY <1>5, <2>1
      <3> QED
        BY <1>5, <2>1, <3>1 DEF FlowInv, TokenOncePerLifetime, SameToken
    <2>2. CASE j = last
      <3> DEFINE x == job[t].ref
      <3>1. i \in DOMAIN controls
        BY <1>5, <2>2
      <3>2. SentUnder(i, x) /\ Holds(t, x) /\ x \in Tokens
        BY <1>1, <1>2, <1>4, <1>5, <2>2, <3>1 DEF SameToken, SentUnder, Holds, Redeemed, JobInv, RefOK
      <3>3. clock >= issued[x].expires
        BY <3>1, <3>2 DEF FlowInv, OnceRedeemed
      <3> QED
        BY <1>4, <1>5, <2>2, <3>3
    <2> QED
      BY <1>5, <2>1, <2>2
  <1>18. EveryControlReserved'
    <2> SUFFICES ASSUME NEW k \in Targets
        PROVE  Cardinality({i \in base + 1 .. Len(controls') :
                                /\ controls'[i].job.target = k
                                /\ controls'[i].job.kind \in LimitedKinds})
                 + Cardinality({u \in Threads : /\ job'[u] # None
                                                /\ job'[u].target = k
                                                /\ job'[u].kind \in LimitedKinds
                                                /\ At(u, "execute")'})
               <= Cardinality({i \in DOMAIN grants : grants[i].key = k})
      BY <1>1 DEF EveryControlReserved
    <2> DEFINE sent == {i \in base + 1 .. Len(controls) :
                           /\ controls[i].job.target = k
                           /\ controls[i].job.kind \in LimitedKinds}
               sends == {i \in base + 1 .. Len(controls') :
                           /\ controls'[i].job.target = k
                           /\ controls'[i].job.kind \in LimitedKinds}
               held == {u \in Threads : /\ job[u] # None
                                        /\ job[u].target = k
                                        /\ job[u].kind \in LimitedKinds
                                        /\ At(u, "execute")}
               holds == {u \in Threads : /\ job'[u] # None
                                         /\ job'[u].target = k
                                         /\ job'[u].kind \in LimitedKinds
                                         /\ At(u, "execute")'}
               granted == {i \in DOMAIN grants : grants[i].key = k}
               counts == job[t].target = k /\ job[t].kind \in LimitedKinds
    <2>1. Cardinality(sent) + Cardinality(held) <= Cardinality(granted)
      BY DEF FlowInv, EveryControlReserved
    <2>2. base \in 0..Len(controls) /\ Len(controls) \in Nat
      BY DEF FlowInv, Shapes
    <2>3. /\ IsFiniteSet(sent) /\ Cardinality(sent) \in Nat /\ Cardinality(granted) \in Nat
      <3>1. base + 1 \in Int /\ Len(controls) \in Int /\ 1 \in Int /\ Len(grants) \in Int
            /\ DOMAIN grants = 1..Len(grants)
        BY DEF FlowInv, Shapes
      <3>2. sent \in SUBSET (base + 1 .. Len(controls)) /\ granted \in SUBSET (1..Len(grants))
        BY <3>1
      <3> HIDE DEF sent, granted
      <3> QED
        BY <3>1, <3>2, Counted
    <2>4. IsFiniteSet(held) /\ Cardinality(held) \in Nat
          /\ IsFiniteSet(holds) /\ Cardinality(holds) \in Nat
      <3>1. held \subseteq Threads /\ holds \subseteq Threads
        OBVIOUS
      <3> HIDE DEF held, holds
      <3> QED
        BY <3>1, FlowAssumption, FS_Subset, FS_CardinalityType
    <2>5. /\ holds \subseteq held
          /\ counts => t \in held /\ holds \subseteq held \ {t}
      <3>1. r # None /\ r.kind \in LimitedKinds => StepOf(r) # "execute"
        BY <1>6 DEF Reserved
      <3> QED
        BY <1>1, <1>7, <3>1 DEF At, StepOf
    <2>6. /\ last \notin sent
          /\ counts => sends = sent \cup {last}
          /\ ~counts => sends = sent
      <3>1. base + 1 .. Len(controls') = (base + 1 .. Len(controls)) \cup {last}
        BY <1>5, <2>2
      <3>2. \A i \in base + 1 .. Len(controls) : controls'[i] = controls[i]
        BY <1>5, <2>2
      <3>3. controls'[last].job = job[t]
        BY <1>4, <1>5
      <3>4. last \notin base + 1 .. Len(controls)
        BY <2>2
      <3> QED
        BY <3>1, <3>2, <3>3, <3>4
    <2> HIDE DEF sent, sends, held, holds, granted, counts, last
    <2>7. CASE ~counts
      <3>1. Cardinality(holds) <= Cardinality(held)
        BY <2>4, <2>5, FS_Subset
      <3>2. Cardinality(sends) + Cardinality(holds) <= Cardinality(granted)
        BY <2>1, <2>3, <2>4, <2>6, <2>7, <3>1
      <3> QED
        BY <3>2 DEF sends, holds, granted
    <2>8. CASE counts
      <3>1. /\ IsFiniteSet(held \ {t}) /\ Cardinality(held \ {t}) = Cardinality(held) - 1
        BY <2>4, <2>5, <2>8, FS_RemoveElement
      <3>2. Cardinality(holds) <= Cardinality(held \ {t})
        BY <2>5, <2>8, <3>1, FS_Subset
      <3>3. Cardinality(sends) = Cardinality(sent) + 1
        BY <2>3, <2>6, <2>8, FS_AddElement
      <3>4. Cardinality(sends) + Cardinality(holds) <= Cardinality(granted)
        BY <2>1, <2>3, <2>4, <3>1, <3>2, <3>3
      <3> QED
        BY <3>4 DEF sends, holds, granted
    <2> QED
      BY <2>7, <2>8
  <1> QED
    BY <1>9, <1>11, <1>12, <1>13, <1>14, <1>15, <1>16, <1>17, <1>18 DEF FlowInv

-----------------------------------------------------------------------------
(* The whole.                                                               *)

LEMMA InitInv == Init => FlowInv
  <1> SUFFICES ASSUME Init PROVE FlowInv
    OBVIOUS
  <1>1. Shapes
    BY DEF Init, BudgetInit, Shapes, Settings
  <1>2. (\A t \in Threads : job[t] = None) /\ DOMAIN controls = {}
    BY DEF Init
  <1>3. /\ \A i \in DOMAIN controls : RefOK(controls[i].job)
        /\ \A x \in consumed : issued[x] # None
    BY <1>2 DEF Init
  <1>4. \A x \in Tokens : OnceRedeemed(x)
    BY <1>2 DEF OnceRedeemed, Holds
  <1>5. ControlsGated /\ TokenOncePerLifetime /\ RequestOutcomeTrue
    BY <1>2 DEF Init, ControlsGated, TokenOncePerLifetime, RequestOutcomeTrue
  <1>6. EveryControlReserved
    <2> SUFFICES ASSUME NEW k \in Targets
        PROVE  Cardinality({i \in base + 1 .. Len(controls) :
                                /\ controls[i].job.target = k
                                /\ controls[i].job.kind \in LimitedKinds})
                 + Cardinality({u \in Threads : /\ job[u] # None
                                                /\ job[u].target = k
                                                /\ job[u].kind \in LimitedKinds
                                                /\ At(u, "execute")})
               <= Cardinality({i \in DOMAIN grants : grants[i].key = k})
      BY DEF EveryControlReserved
    <2> DEFINE sent == {i \in base + 1 .. Len(controls) :
                           /\ controls[i].job.target = k
                           /\ controls[i].job.kind \in LimitedKinds}
               held == {u \in Threads : /\ job[u] # None
                                        /\ job[u].target = k
                                        /\ job[u].kind \in LimitedKinds
                                        /\ At(u, "execute")}
               granted == {i \in DOMAIN grants : grants[i].key = k}
    <2>1. base + 1 .. Len(controls) = {}
      BY DEF Init
    <2>2. sent = {} /\ held = {} /\ granted = {}
      BY <1>2, <2>1 DEF Init, BudgetInit
    <2> HIDE DEF sent, held, granted
    <2>3. Cardinality(sent) + Cardinality(held) <= Cardinality(granted)
      BY <2>2, FS_EmptySet
    <2> QED
      BY <2>3 DEF sent, held, granted
  <1> QED
    BY <1>1, <1>2, <1>3, <1>4, <1>5, <1>6 DEF FlowInv

LEMMA StepInv == FlowInv /\ [Next]_vars => FlowInv'
  <1> SUFFICES ASSUME FlowInv, [Next]_vars PROVE FlowInv'
    OBVIOUS
  <1>1. ASSUME NEW t \in Threads, Step(t) PROVE FlowInv'
    BY <1>1, CheckInv, DiagnoseInv, GateInv, ReviewInv, ConsumeInv, ReserveInv, ExecuteInv,
       VerifyInv, StoreInv DEF Step
  <1>2. ASSUME NEW t \in Threads, Begin(t) PROVE FlowInv'
    BY <1>2, BeginInv
  <1>3. ASSUME NEW x \in Tokens, Propose(x) PROVE FlowInv'
    BY <1>3, ProposeInv
  <1>4. CASE SaveSettings
    BY <1>4, SaveSettingsInv
  <1>5. CASE WorldMoves
    BY <1>5, WorldMovesInv
  <1>6. CASE Restart
    BY <1>6, RestartInv
  <1>7. CASE Tick /\ UNCHANGED flowVars
    BY <1>7, TickInv
  <1>8. CASE UNCHANGED vars
    <2>1. /\ Aside /\ UNCHANGED <<clock, docker, array, grants, cfg, issued, consumed, requests, job,
                                  controls, base>>
      BY <1>8 DEF vars, budgetVars, flowVars, worldVars, Aside
    <2>2. Shapes'
      BY <2>1 DEF FlowInv, Shapes
    <2>3. ASSUME NEW t \in Threads, job'[t] # None PROVE JobInv(job[t])'
      <3>1. Placed(job[t])' /\ Told(job[t])'
        BY <2>1, <2>3, AsideKeeps
      <3> QED
        BY <2>1, <2>3, <3>1 DEF FlowInv, JobInv, RefOK, Gated, StepOf
    <2>4. /\ \A i \in DOMAIN controls' : RefOK(controls[i].job)'
          /\ \A x \in consumed' : issued'[x] # None
      BY <2>1 DEF FlowInv, RefOK
    <2>5. \A x \in Tokens : OnceRedeemed(x)'
      BY <2>1, AsideKeeps DEF FlowInv, OnceRedeemed
    <2>6. TokenOncePerLifetime'
      BY <2>1 DEF FlowInv, TokenOncePerLifetime, SameToken
    <2> QED
      BY <2>1, <2>2, <2>3, <2>4, <2>5, <2>6, AsideKeeps DEF FlowInv
  <1> QED
    BY <1>1, <1>2, <1>3, <1>4, <1>5, <1>6, <1>7, <1>8 DEF Next

(* FlowInv is an invariant: what a handler has passed, it has really passed. *)
THEOREM FlowInvariant == Spec => []FlowInv
  BY InitInv, StepInv, PTL DEF Spec

(* The state keeps its shapes, and every handler stands on its route.        *)
THEOREM TypesHeld == Spec => []TypeOK
  <1>1. FlowInv => TypeOK
    <2> SUFFICES ASSUME FlowInv PROVE TypeOK
      OBVIOUS
    <2>1. \A t \in Threads : job[t] # None =>
             job[t] \in Job /\ job[t].at \in DOMAIN Route[job[t].kind]
      BY DEF FlowInv, Shapes, JobInv, Placed
    <2>2. \A x \in Tokens : issued[x] # None => issued[x].target \in Apps \cup {Array}
      BY DEF FlowInv, Shapes, Signed
    <2>3. \A r \in Requests : requests[r] # None =>
             requests[r].status \in {"pending", "denied", "executed", "failed"}
      BY DEF FlowInv, Shapes, Stored
    <2> QED
      BY <2>1, <2>2, <2>3 DEF FlowInv, Shapes, TypeOK
  <1> QED
    BY <1>1, FlowInvariant, PTL

(* No container is controlled for a plan, an automatic repair, a request or a *)
(* user without a review, an opt-in and, for admins, the kill switch.         *)
THEOREM GatesHeld == Spec => []ControlsGated
  <1>1. FlowInv => ControlsGated
    BY DEF FlowInv
  <1> QED
    BY <1>1, FlowInvariant, PTL

(* Every limited control call spent a reservation of its own.               *)
THEOREM ReservationsHeld == Spec => []EveryControlReserved
  <1>1. FlowInv => EveryControlReserved
    BY DEF FlowInv
  <1> QED
    BY <1>1, FlowInvariant, PTL

(* A signed plan is carried out at most once while it lives.                *)
THEOREM TokensOnce == Spec => []TokenOncePerLifetime
  <1>1. FlowInv => TokenOncePerLifetime
    BY DEF FlowInv
  <1> QED
    BY <1>1, FlowInvariant, PTL

(* A request that reads executed or failed was carried out, with that end.  *)
THEOREM OutcomesTrue == Spec => []RequestOutcomeTrue
  <1>1. FlowInv => RequestOutcomeTrue
    BY DEF FlowInv
  <1> QED
    BY <1>1, FlowInvariant, PTL
=============================================================================
