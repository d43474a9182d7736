------------------------------ MODULE AgentLoop ------------------------------
(***************************************************************************)
(* One diagnosis by a model that may ask for tools: diagnose in            *)
(* internal/server/agent_plan.go, the tools of internal/llm/agent.go and   *)
(* the loop of internal/llm/openai.go, which runs once per model of the     *)
(* ChatGPT connector's chain until one is supported.                       *)
(*                                                                         *)
(* What the model answers is open: it may ask for any tool, any app and any *)
(* number of calls.  An app tool looks the app up in a snapshot collected    *)
(* for it; logs and history look it up again in the cached snapshot.        *)
(***************************************************************************)
EXTENDS Integers, Sequences, SequencesExt

CONSTANTS
    Tools,          \* read-only tools
    AppTools,       \* those that read the logs or history of an app
    AnyTool,        \* the rule "*"
    Actions,        \* allow, ask, deny
    Apps,           \* what a call may name
    MaxModels,      \* length of the chain of models
    MaxBudget,      \* bound on agent_max_tool_calls
    MaxRules,       \* bound on the rules of a policy
    MaxCalls        \* bound on the calls in one answer

\* What an instance must respect; the module that makes it assumes this.
AgentAssumption ==
    /\ AppTools \subseteq Tools /\ AnyTool \notin Tools /\ "allow" \in Actions
    /\ MaxModels \in Nat \ {0} /\ MaxBudget \in Nat /\ MaxRules \in Nat /\ MaxCalls \in Nat

VARIABLES
    policy,     \* of this request: role, agent_tools_enabled, budget, rules
    present,    \* apps there are
    cached,     \* apps in the cached snapshot
    at,         \* "post", "tool", "answered" or "failed"
    model,      \* which model of the chain is asked
    used,       \* toolCallsUsed
    todo,       \* calls of the last answer still to be made
    executed,   \* calls made for this model, in order, each with its outcome (history)
    audited     \* what the audit log says of them

vars == <<policy, present, cached, at, model, used, todo, executed, audited>>

Rules == [tool : Tools \cup {AnyTool}, action : Actions]
Calls == [tool : Tools, app : Apps]

Names(r) == IF r.tool = AnyTool THEN Tools ELSE {r.tool}
Ruled(tools, r) == IF r.action = "allow" THEN tools \cup Names(r) ELSE tools \ Names(r)

\* allowedAgentTools: each rule sets or clears its tool, or all of them.
Allowed(rules) ==
    LET after[n \in 0..Len(rules)] == IF n = 0 THEN {} ELSE Ruled(after[n - 1], rules[n])
    IN  after[Len(rules)]

\* agentToolsForRequest
Offered ==
    IF policy.enabled /\ policy.role = "admin" THEN Allowed(policy.rules) ELSE {}

\* A policy without a budget still gets one call.
Budget == IF policy.budget = 0 THEN 1 ELSE policy.budget

Init ==
    /\ policy \in [role : {"admin", "user"}, enabled : BOOLEAN, budget : 0..MaxBudget,
                   rules : BoundedSeq(Rules, MaxRules)]
    /\ present \in SUBSET Apps /\ cached \in SUBSET Apps
    /\ at = "post" /\ model = 1 /\ used = 0 /\ todo = <<>>
    /\ executed = <<>> /\ audited = <<>>

Fail == at' = "failed" /\ todo' = <<>> /\ UNCHANGED <<model, used, executed, audited>>

-----------------------------------------------------------------------------

\* The model answers without a call.
Diagnosis ==
    /\ at = "post"
    /\ at' = "answered"
    /\ UNCHANGED <<policy, present, cached, model, used, todo, executed, audited>>

\* Transport, status, stream or schema error; not one that asks for the next model.
PostFails ==
    /\ at = "post" /\ Fail
    /\ UNCHANGED <<policy, present, cached>>

\* Mutation: the fallback forgets its place in the chain of models.
NextModelFirst == 1

NextModel == model + 1

\* A 400 of the connector for an unsupported model: the whole loop starts again
\* with the next one, counters and conversation included.
Unsupported ==
    /\ at = "post"
    /\ IF model < MaxModels
       THEN /\ model' = NextModel /\ used' = 0 /\ executed' = <<>> /\ audited' = <<>>
            /\ UNCHANGED <<at, todo>>
       ELSE Fail
    /\ UNCHANGED <<policy, present, cached>>

\* Mutation: an answer that starts within the budget is carried out whole.
WithinUntilStart(calls) == used < Budget

Within(calls) == used + Len(calls) <= Budget

\* The model asks for tools: all of an answer's calls are within the budget or
\* none is made.
Asks(calls) ==
    /\ at = "post" /\ calls # <<>>
    /\ IF Offered = {} \/ ~Within(calls)
       THEN Fail
       ELSE /\ at' = "tool" /\ todo' = calls /\ used' = used + Len(calls)
            /\ UNCHANGED <<model, executed, audited>>
    /\ UNCHANGED <<policy, present, cached>>

Audit(call, ok) == <<[call |-> call, ok |-> ok]>>

\* executeAgentTool: an app that is not there is an answer; an app that is there
\* and not in the cached snapshot is an error, and any error ends the request.
MayWork(call) ==
    /\ call.tool \in Offered
    /\ call.tool \in AppTools /\ call.app \in present => call.app \in cached

Execute(ok) ==
    LET call == Head(todo) IN
    /\ at = "tool"
    /\ ok => MayWork(call)
    /\ executed' = Append(executed, [call |-> call, ok |-> ok])
    /\ audited' = audited \o Audit(call, ok)
    /\ todo' = IF ok THEN Tail(todo) ELSE <<>>
    /\ at' = CASE ~ok -> "failed" [] ok /\ Len(todo) > 1 -> "tool" [] OTHER -> "post"
    /\ UNCHANGED <<policy, present, cached, model, used>>

\* Apps come and go; the poller or a settings change renews the cached snapshot.
World ==
    /\ at \in {"post", "tool"}
    /\ \/ present' \in SUBSET Apps /\ UNCHANGED cached
       \/ cached' = present /\ UNCHANGED present
    /\ UNCHANGED <<policy, at, model, used, todo, executed, audited>>

Step ==
    \/ Diagnosis \/ PostFails \/ Unsupported
    \/ \E calls \in BoundedSeq(Calls, MaxCalls) : Asks(calls)
    \/ \E ok \in BOOLEAN : Execute(ok)

Next == Step \/ World

Spec == Init /\ [][Next]_vars

\* The provider's HTTP client has a timeout and a tool ends with its request, so
\* a step that can be taken is taken.
FairSpec == Spec /\ WF_vars(Step)

-----------------------------------------------------------------------------

\* The last of the rules that is about the tool allows it.
LastRuleAllows(rules, tool) ==
    LET about == {n \in DOMAIN rules : rules[n].tool \in {tool, AnyTool}} IN
    \E n \in about : rules[n].action = "allow" /\ \A m \in about : m <= n

\* However the calls are spread over answers, one model's run makes no more of
\* them than the policy gives, none of a tool whose last matching rule is not
\* "allow", and none for a user (docs/security.md, the agent tools).
CallsWithinPolicy ==
    /\ Len(executed) <= Budget
    /\ \A i \in DOMAIN executed : executed[i].ok =>
        /\ policy.enabled /\ policy.role = "admin"
        /\ LastRuleAllows(policy.rules, executed[i].call.tool)

\* Every call made, the refused and failed ones too, is in the audit log, in the
\* order they were made, and nothing follows one that failed.
CallsAudited ==
    /\ audited = executed
    /\ \A i \in DOMAIN executed : ~executed[i].ok => i = Len(executed) /\ at = "failed"

\* Whatever the model asks for, the request ends: the budget bounds the rounds
\* of a run and the chain bounds the runs.
RequestEnds == <>(at \in {"answered", "failed"})

\* What a diagnosis does for the model is what its policy allows, and an admin can
\* read it afterwards.
PolicyHeld == CallsWithinPolicy /\ CallsAudited
=============================================================================
