----------------------------- MODULE RepairFlow -----------------------------
(***************************************************************************)
(* The handlers of internal/server that end in a container, array or device*)
(* being controlled, run by concurrent request goroutines:                 *)
(*                                                                         *)
(*   plan     recordAgentApproval      an admin allows a signed plan       *)
(*   auto     maybeExecuteAgentAutoRepair, inside an admin diagnosis       *)
(*   request  approveRepairRequest     an admin approves a user's request  *)
(*   deny     decideRepairRequest      an admin denies it                  *)
(*   create   createRepairRequest      a user asks for help                *)
(*   direct   executeGeneralUserAppAction, the user's buttons and auto-fix *)
(*   array    executeUserAgentAction   a user starts the array by token    *)
(*   unifi    unifiRestartDevice       an admin restarts a network device  *)
(*   control  controlApp               an admin's manual container action  *)
(*                                                                         *)
(* Each handler is a route of steps, and between two steps every other     *)
(* goroutine, the containers and the settings may move: the snapshot a     *)
(* handler checks takes seconds to collect, the safety reviewer up to 45,  *)
(* the verification half a minute.  The rate limit is the promise of       *)
(* RepairBudget, which RepairLimiter is proved to implement; a refusal is  *)
(* possible at any time, since the limiter may hold a stale time.          *)
(***************************************************************************)
EXTENDS RepairBudget

CONSTANTS
    Threads,        \* request goroutines
    Apps,           \* Docker apps in the snapshot
    Array, Device,  \* the array and one UniFi device, as repair targets
    Tokens,         \* signed plans, each with its nonce
    Requests,       \* ids of repair requests
    Kinds,          \* the handlers an instance runs
    TokenTTL,       \* five minutes, in ticks
    MaxAttempts,    \* agentRepairVerificationAttempts
    MaxControls,    \* bound on the control calls after which no handler starts
    MaxToggles,     \* bound on the writes to settings and restarts
    None

AllKinds == {"plan", "auto", "request", "deny", "create", "direct", "array",
             "unifi", "control"}

ASSUME FlowAssumption ==
    /\ Targets = Apps \cup {Array, Device}
    /\ Array \notin Apps /\ Device \notin Apps /\ Array # Device
    /\ Kinds \subseteq AllKinds
    /\ TokenTTL \in Nat \ {0} /\ MaxAttempts \in Nat \ {0}
    /\ MaxControls \in Nat /\ MaxToggles \in Nat
    /\ IsFiniteSet(Threads)
    /\ None \notin [target : Apps \cup {Array}, expires : Int]

VARIABLES
    docker,     \* per app, what a collection reports: online, unhealthy, exited
    array,      \* UnraidArrayState: started, stopped
    cfg,        \* the live settings the gates read
    issued,     \* per token, the target and expiry it was signed with
    consumed,   \* consumedAgentApprovals: the tokens whose nonce is remembered
    requests,   \* the stored repair requests
    job,        \* what each goroutine is doing
    controls,   \* every control call sent, in order (history)
    base,       \* how many of them were sent before this process started (history)
    toggles     \* writes to settings and restarts so far

worldVars == <<docker, array>>
flowVars == <<worldVars, cfg, issued, consumed, requests, job, controls,
             base, toggles>>
vars == <<budgetVars, flowVars>>

AppState == {"online", "unhealthy", "exited"}
Action == {"start", "stop", "restart"}

\* agentControlEnabled is the admin kill switch; repairAllowed and userAllowed
\* are the per-app opt-ins, with blacklisted and hidden apps left out.
Settings == [agentControlEnabled : BOOLEAN, actionAutoReviewEnabled : BOOLEAN,
             repairAllowed : SUBSET Apps, userAllowed : SUBSET Apps]

\* The steps of each handler, in the order of its source.
Route == [
    plan    |-> <<"check", "review", "consume", "reserve", "execute", "verify">>,
    auto    |-> <<"diagnose", "gate", "review", "reserve", "execute", "verify">>,
    request |-> <<"check", "review", "reserve", "execute", "verify", "resolve">>,
    deny    |-> <<"resolve">>,
    create  |-> <<"store">>,
    direct  |-> <<"check", "review", "reserve", "execute", "verify">>,
    array   |-> <<"check", "consume", "reserve", "execute", "verify">>,
    unifi   |-> <<"reserve", "execute", "verify">>,
    control |-> <<"check", "execute">>]

Init ==
    /\ BudgetInit
    /\ docker \in [Apps -> AppState]
    /\ array \in {"started", "stopped"}
    /\ cfg = [agentControlEnabled |-> TRUE, actionAutoReviewEnabled |-> TRUE,
              repairAllowed |-> Apps, userAllowed |-> Apps]
    /\ issued = [x \in Tokens |-> None]
    /\ consumed = {}
    /\ requests = [r \in Requests |-> None]
    /\ job = [t \in Threads |-> None]
    /\ controls = << >>
    /\ base = 0
    /\ toggles = 0

-----------------------------------------------------------------------------
(* Moving a goroutine along its route.                                     *)

At(t, step) ==
    /\ job[t] # None
    /\ Route[job[t].kind][job[t].at] = step

\* The step changes nothing but what its goroutine remembers.
OnlyJobs ==
    /\ UNCHANGED <<budgetVars, worldVars, cfg, issued, consumed, requests,
                   controls, base, toggles>>

Finish(t) == job' = [job EXCEPT ![t] = None]

\* Mutation: a handler does not return after its last step.
AdvancePastEnd(t, settled) == job' = [job EXCEPT ![t] = [settled EXCEPT !.at = @ + 1]]

\* The next step of the handler, with what the step settled; the handler
\* returns after its last step.
Advance(t, settled) ==
    IF job[t].at = Len(Route[job[t].kind])
    THEN Finish(t)
    ELSE job' = [job EXCEPT ![t] = [settled EXCEPT !.at = @ + 1]]

\* The opt-in a handler asks for.
OptedIn(kind, target, settings) ==
    target \in (IF kind = "direct" THEN settings.userAllowed ELSE settings.repairAllowed)

\* A handler passes its first guards.  ref is the token or the request it acts
\* on.  sawControl and sawAllowed record (as history) whether the kill switch
\* and the target's opt-in were ever on while the handler ran.
Start(t, kind, target, act, ref) ==
    /\ job[t] = None
    /\ kind \in Kinds
    /\ Len(controls) < MaxControls
    /\ job' = [job EXCEPT ![t] =
                 [kind |-> kind, at |-> 1, target |-> target, act |-> act, ref |-> ref,
                  seen |-> None, attempt |-> 0, reviewed |-> FALSE, result |-> None,
                  sawControl |-> cfg.agentControlEnabled,
                  sawAllowed |-> OptedIn(kind, target, cfg)]]

-----------------------------------------------------------------------------
(* Handlers up to their first slow step.                                   *)

\* llmAgentPlanResponse and llmUserArrayStartPlanResponse sign a plan.
Propose(x) ==
    /\ issued[x] = None
    /\ \E target \in Apps \cup {Array} :
           /\ target = Array => array = "stopped"
           /\ issued' = [issued EXCEPT ![x] =
                           [target |-> target, expires |-> clock + TokenTTL]]
    /\ UNCHANGED <<budgetVars, worldVars, cfg, consumed, requests, job, controls, base, toggles>>

\* verifyAgentApprovalToken: signed by this process, and now is not after the
\* expiry.
TokenValid(x) == issued[x] # None /\ clock <= issued[x].expires

BeginPlan(t, x) ==
    /\ TokenValid(x)
    /\ issued[x].target \in Apps
    /\ cfg.agentControlEnabled
    /\ Start(t, "plan", issued[x].target, "restart", x)
    /\ OnlyJobs

BeginArray(t, x) ==
    /\ TokenValid(x)
    /\ issued[x].target = Array
    /\ Start(t, "array", Array, "start", x)
    /\ OnlyJobs

\* decideRepairRequest: the stored request is read, and must be pending.
BeginDecision(t, r, choice) ==
    /\ requests[r] # None
    /\ requests[r].status = "pending"
    /\ \/ choice = "deny" /\ Start(t, "deny", requests[r].app, None, r)
       \/ /\ choice = "approve"
          /\ cfg.agentControlEnabled
          /\ Start(t, "request", requests[r].app, "restart", r)
    /\ OnlyJobs

\* createRepairRequest looks for a pending request of the same user and app.
BeginCreate(t, a) ==
    /\ \A r \in Requests :
           requests[r] # None => ~(requests[r].status = "pending" /\ requests[r].app = a)
    /\ \E r \in Requests :
           /\ requests[r] = None
           /\ \A u \in Threads : job[u] # None => job[u].ref # r
           /\ Start(t, "create", a, None, r)
    /\ OnlyJobs

\* executeUserAppAction: the app is visible to the user and opted in.
BeginDirect(t, a, act) ==
    /\ a \in cfg.userAllowed
    /\ Start(t, "direct", a, act, None)
    /\ OnlyJobs

\* diagnose with auto_repair, unifiRestartDevice and controlApp need only an
\* admin session to begin.
BeginAuto(t, a) == Start(t, "auto", a, "restart", None) /\ OnlyJobs
BeginDevice(t) == Start(t, "unifi", Device, "restart", None) /\ OnlyJobs
BeginControl(t, a, act) == Start(t, "control", a, act, None) /\ OnlyJobs

-----------------------------------------------------------------------------
(* Steps.                                                                  *)

\* agentRepairActionForApp, preferredGeneralUserRepairAction: a stopped app is
\* started, any other restarted.
ResolveAction(a) == IF docker[a] = "exited" THEN "start" ELSE "restart"

\* validateGeneralUserAppActionState: a restart is never refused.
ActionFits(act, state) ==
    /\ act = "start" => state = "exited"
    /\ act = "stop" => state # "exited"

\* The snapshot a handler collects, and what it refuses on it.
CheckPasses(t, act) ==
    LET k == job[t].kind
        a == job[t].target
    IN  \/ k \in {"plan", "request"} /\ a \in cfg.repairAllowed /\ act = ResolveAction(a)
        \/ /\ k = "direct"
           /\ a \in cfg.userAllowed
           /\ act = IF job[t].act = "restart" THEN ResolveAction(a) ELSE job[t].act
           /\ ActionFits(act, docker[a])
        \/ k = "array" /\ array = "stopped" /\ act = "start"
        \/ k = "control" /\ act = job[t].act

Observed(target) == IF target = Array THEN array
                    ELSE IF target = Device THEN None ELSE docker[target]

Check(t) ==
    /\ At(t, "check")
    /\ \/ \E act \in Action :
              /\ CheckPasses(t, act)
              /\ Advance(t, [job[t] EXCEPT !.act = act, !.seen = Observed(job[t].target)])
       \/ (\A act \in Action : ~CheckPasses(t, act)) /\ Finish(t)
    /\ OnlyJobs

\* diagnose collects the snapshot that the automatic repair will be gated on,
\* then waits for the model.  seen is None when the app is not opted in.
Diagnose(t) ==
    /\ At(t, "diagnose")
    /\ LET a == job[t].target
       IN  Advance(t, [job[t] EXCEPT
             !.act = ResolveAction(a),
             !.seen = IF a \in cfg.repairAllowed THEN docker[a] ELSE None])
    /\ OnlyJobs

\* maybeExecuteAgentAutoRepair: both switches are on now, and the app of the
\* diagnosed snapshot was opted in and not online.
AutoGateOpen(t) ==
    /\ cfg.agentControlEnabled
    /\ cfg.actionAutoReviewEnabled
    /\ job[t].seen \notin {None, "online"}

Gate(t) ==
    /\ At(t, "gate")
    /\ \/ AutoGateOpen(t) /\ Advance(t, job[t])
       \/ ~AutoGateOpen(t) /\ Finish(t)
    /\ OnlyJobs

\* Mutation: a reviewer that cannot be reached counts as an approval.
ReviewFailsOpen(t, verdict) == Advance(t, [job[t] EXCEPT !.reviewed = verdict = "allow"])

\* reviewAgentAction: with the reviewer off it passes; with it on the model
\* allows, denies, or cannot be asked, and only an allow passes.
ReviewOutcome(t, verdict) ==
    IF verdict = "allow" THEN Advance(t, [job[t] EXCEPT !.reviewed = TRUE]) ELSE Finish(t)

Review(t) ==
    /\ At(t, "review")
    /\ \/ ~cfg.actionAutoReviewEnabled /\ Advance(t, [job[t] EXCEPT !.reviewed = TRUE])
       \/ /\ cfg.actionAutoReviewEnabled
          /\ \E verdict \in {"allow", "deny", "error"} : ReviewOutcome(t, verdict)
    /\ OnlyJobs

\* Mutation: the replay guard forgets every nonce it sees.
RememberedNone == {}

\* The sweep of consumeAgentApproval: nonces of expired tokens are dropped.
Remembered == {x \in consumed : issued[x].expires > clock}

Consume(t) ==
    /\ At(t, "consume")
    /\ \/ job[t].ref \in Remembered /\ consumed' = Remembered /\ Finish(t)
       \/ /\ job[t].ref \notin Remembered
          /\ consumed' = Remembered \cup {job[t].ref}
          /\ Advance(t, job[t])
    /\ UNCHANGED <<budgetVars, worldVars, cfg, issued, requests, controls, base, toggles>>

\* Mutation: a refused reservation is reported but the handler goes on.
RefusedGoesOn(t) == Advance(t, job[t]) /\ UNCHANGED grants

\* reserveAgentRepair said no: the handler answers 409 and returns.
Refused(t) == Finish(t) /\ UNCHANGED grants

Reserve(t) ==
    /\ At(t, "reserve")
    /\ \/ AllowRepair(job[t].target, clock) /\ Advance(t, job[t])
       \/ Refused(t) /\ UNCHANGED clock
    /\ UNCHANGED <<worldVars, cfg, issued, consumed, requests, controls, base, toggles>>

\* What a control call leaves behind.  A restart that falls back to stop and
\* start can fail half way.
Controlled(target, act, ok) ==
    \/ /\ target \in Apps
       /\ \E s \in AppState :
              /\ docker' = [docker EXCEPT ![target] = s]
              /\ (ok /\ act = "stop") => s = "exited"
              /\ (ok /\ act # "stop") => s # "exited"
              /\ ~ok => s \in {docker[target]}
                              \cup (IF act = "restart" THEN {"exited"} ELSE {})
       /\ UNCHANGED array
    \/ target = Array /\ array' = (IF ok THEN "started" ELSE array) /\ UNCHANGED docker
    \/ target = Device /\ UNCHANGED worldVars

\* ControlContainer, StartArray, RestartDevice.  An error ends the handler,
\* except that an approved request is still marked failed.
Execute(t) ==
    /\ At(t, "execute")
    /\ \E ok \in BOOLEAN :
           /\ Controlled(job[t].target, job[t].act, ok)
           /\ controls' = Append(controls, [job |-> job[t], ok |-> ok, time |-> clock])
           /\ \/ ok /\ Advance(t, [job[t] EXCEPT !.result = "executed"])
              \/ ~ok /\ job[t].kind # "request" /\ Finish(t)
              \/ /\ ~ok /\ job[t].kind = "request"
                 /\ job' = [job EXCEPT ![t] = [@ EXCEPT !.result = "failed",
                                                        !.at = Len(Route["request"])]]
    /\ UNCHANGED <<budgetVars, cfg, issued, consumed, requests, base, toggles>>

\* dockerActionReachedExpectedState, and its array and device counterparts.
Reached(t) ==
    LET k == job[t].target
    IN  CASE k \in Apps /\ job[t].act = "stop" -> docker[k] = "exited"
          [] k \in Apps /\ job[t].act # "stop" -> docker[k] = "online"
          [] k = Array -> array = "started"
          [] OTHER -> FALSE

\* Mutation: the count starts over where the loop should have ended.
NextAttemptRestarted(n) == (n + 1) % MaxAttempts

\* attempt++, then attempt < attempts at the end of an attempt.
NextAttempt(n) == n + 1
MoreAttempts(t) == NextAttempt(job[t].attempt) < MaxAttempts

\* verifyRepairOutcome and its siblings: settle on the expected state, on an
\* app missing from the collection or on a cancelled request, give up after
\* the last attempt, or wait and collect again.
Verify(t) ==
    /\ At(t, "verify")
    /\ \/ Advance(t, job[t])
       \/ /\ ~Reached(t)
          /\ MoreAttempts(t)
          /\ job' = [job EXCEPT ![t].attempt = NextAttempt(@)]
    /\ OnlyJobs

\* Mutation: an approved request always reads executed.
ResolvedAsExecuted(t) == IF job[t].kind = "deny" THEN "denied" ELSE "executed"

\* The status the caller of resolveRepairRequest passes.
ResolvedAs(t) == IF job[t].kind = "deny" THEN "denied" ELSE job[t].result

\* resolveRepairRequest upserts the copy of the request the handler read.
Resolve(t) ==
    /\ At(t, "resolve")
    /\ requests' = [requests EXCEPT ![job[t].ref] =
                      [app |-> job[t].target, status |-> ResolvedAs(t)]]
    /\ Finish(t)
    /\ UNCHANGED <<budgetVars, worldVars, cfg, issued, consumed, controls, base, toggles>>

\* UpsertRepairRequest of the new pending request, under its random id.
StoreRequest(t) ==
    /\ At(t, "store")
    /\ requests' = [requests EXCEPT ![job[t].ref] =
                      [app |-> job[t].target, status |-> "pending"]]
    /\ Finish(t)
    /\ UNCHANGED <<budgetVars, worldVars, cfg, issued, consumed, controls, base, toggles>>

-----------------------------------------------------------------------------
(* The surroundings.                                                       *)

\* An admin saves settings: the switches and opt-ins change under settingsMu.
SaveSettings ==
    /\ toggles < MaxToggles
    /\ \/ cfg' = [cfg EXCEPT !.agentControlEnabled = ~@]
       \/ cfg' = [cfg EXCEPT !.actionAutoReviewEnabled = ~@]
       \/ \E a \in Apps :
              cfg' = [cfg EXCEPT !.repairAllowed = IF a \in @ THEN @ \ {a} ELSE @ \cup {a}]
       \/ \E a \in Apps :
              cfg' = [cfg EXCEPT !.userAllowed = IF a \in @ THEN @ \ {a} ELSE @ \cup {a}]
    /\ toggles' = toggles + 1
    /\ job' = [t \in Threads |->
                 IF job[t] = None THEN None
                 ELSE [job[t] EXCEPT
                         !.sawControl = @ \/ cfg'.agentControlEnabled,
                         !.sawAllowed = @ \/ OptedIn(job[t].kind, job[t].target, cfg')]]
    /\ UNCHANGED <<budgetVars, worldVars, issued, consumed, requests, controls, base>>

\* A container or the array changes by itself.
WorldMoves ==
    /\ \/ \E a \in Apps, s \in AppState :
              docker[a] # s /\ docker' = [docker EXCEPT ![a] = s] /\ UNCHANGED array
       \/ array = "started" /\ array' = "stopped" /\ UNCHANGED docker
    /\ UNCHANGED <<budgetVars, cfg, issued, consumed, requests, job, controls, base, toggles>>

\* The process restarts: goroutines, limiter and remembered nonces are gone, a
\* new signing secret voids every token, the stored requests and settings stay.
Restart ==
    /\ toggles < MaxToggles
    /\ toggles' = toggles + 1
    /\ job' = [t \in Threads |-> None]
    /\ grants' = << >>
    /\ consumed' = {}
    /\ issued' = [x \in Tokens |-> IF issued[x] = None THEN None
                                   ELSE [issued[x] EXCEPT !.expires = -1]]
    /\ base' = Len(controls)
    /\ UNCHANGED <<clock, worldVars, cfg, requests, controls>>

Begin(t) ==
    \/ \E x \in Tokens : BeginPlan(t, x) \/ BeginArray(t, x)
    \/ \E r \in Requests, choice \in {"approve", "deny"} : BeginDecision(t, r, choice)
    \/ \E a \in Apps : BeginCreate(t, a) \/ BeginAuto(t, a)
    \/ \E a \in Apps, act \in Action : BeginDirect(t, a, act) \/ BeginControl(t, a, act)
    \/ BeginDevice(t)

Step(t) ==
    \/ Check(t) \/ Diagnose(t) \/ Gate(t) \/ Review(t) \/ Consume(t) \/ Reserve(t)
    \/ Execute(t) \/ Verify(t) \/ Resolve(t) \/ StoreRequest(t)

Next ==
    \/ \E t \in Threads : Begin(t) \/ Step(t)
    \/ \E x \in Tokens : Propose(x)
    \/ SaveSettings \/ WorldMoves \/ Restart
    \/ Tick /\ UNCHANGED flowVars

Spec == Init /\ [][Next]_vars

\* Go runs every runnable goroutine, and every slow step of a handler has a
\* timeout of its own: a started handler keeps taking steps.
FairSpec == Spec /\ \A t \in Threads : WF_vars(Step(t))

-----------------------------------------------------------------------------
(* Properties.                                                             *)

Job == [kind : Kinds, at : 1..7, target : Targets, act : Action \cup {None},
        ref : Tokens \cup Requests \cup {None}, seen : AppState \cup {"started", "stopped", None},
        attempt : 0..MaxAttempts, reviewed : BOOLEAN, result : {None, "executed", "failed"},
        sawControl : BOOLEAN, sawAllowed : BOOLEAN]

\* The shapes of the state: a handler's route position exists, and the nonces
\* remembered are of signed tokens.
TypeOK ==
    /\ grants \in Seq(Grant)
    /\ docker \in [Apps -> AppState]
    /\ array \in {"started", "stopped"}
    /\ cfg \in Settings
    /\ \A x \in Tokens : issued[x] # None => issued[x].target \in Apps \cup {Array}
    /\ \A x \in consumed : issued[x] # None
    /\ \A r \in Requests :
           requests[r] # None =>
               requests[r].status \in {"pending", "denied", "executed", "failed"}
    /\ \A t \in Threads :
           job[t] # None => job[t] \in Job /\ job[t].at \in DOMAIN Route[job[t].kind]

AdminKinds == {"plan", "auto", "request"}
ReviewedKinds == AdminKinds \cup {"direct"}
LimitedKinds == ReviewedKinds \cup {"array", "unifi"}

\* Every control sent on behalf of a plan, an automatic repair, a request or a
\* user was reviewed or needed no review, for an app whose opt-in was on while
\* the handler ran; the admin paths also found the kill switch on.  However
\* settings change between the steps, no handler acts on a gate that was
\* closed for its whole life.
ControlsGated ==
    \A i \in DOMAIN controls :
        LET j == controls[i].job
        IN  /\ j.kind \in ReviewedKinds => j.reviewed /\ j.sawAllowed
            /\ j.kind \in AdminKinds => j.sawControl

\* Every limited control call spent a reservation of its own: what this process
\* sent to a target, and what it is about to send, never exceeds what the
\* limiter granted for that target.
EveryControlReserved ==
    \A k \in Targets :
        Cardinality({i \in base + 1 .. Len(controls) :
                        /\ controls[i].job.target = k
                        /\ controls[i].job.kind \in LimitedKinds})
          + Cardinality({t \in Threads : /\ job[t] # None
                                         /\ job[t].target = k
                                         /\ job[t].kind \in LimitedKinds
                                         /\ At(t, "execute")})
        <= Cardinality({i \in DOMAIN grants : grants[i].key = k})

SameToken(i, j) ==
    /\ controls[i].job.kind \in {"plan", "array"}
    /\ controls[j].job.kind \in {"plan", "array"}
    /\ controls[i].job.ref = controls[j].job.ref

\* While a token lives it executes at most once: of two control calls under
\* the same token, the later comes no sooner than the token's expiry, when its
\* nonce has been forgotten.
TokenOncePerLifetime ==
    \A i, j \in DOMAIN controls :
        (i < j /\ SameToken(i, j)) =>
            controls[j].time >= issued[controls[j].job.ref].expires

\* A stored outcome tells what happened: a request reads executed or failed
\* only when a control call was sent for it and succeeded or failed, also when
\* several admins decide it at once and when the process restarts.
RequestOutcomeTrue ==
    \A r \in Requests :
        (requests[r] # None /\ requests[r].status \in {"executed", "failed"}) =>
            \E i \in DOMAIN controls :
                /\ controls[i].job.kind = "request"
                /\ controls[i].job.ref = r
                /\ controls[i].ok = (requests[r].status = "executed")

\* decideRepairRequest refuses a request that "is no longer pending": a
\* decision, once stored, is final.
RequestDecidedOnce ==
    [][\A r \in Requests :
          (requests[r] # None /\ requests[r].status # "pending")
              => requests'[r] = requests[r]]_vars

\* Every handler that started comes to an end: whatever it is refused, and
\* whether or not the target recovers, its goroutine is free again.
HandlersFinish == \A t \in Threads : (job[t] # None) ~> (job[t] = None)
=============================================================================
