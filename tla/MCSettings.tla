----------------------------- MODULE MCSettings -----------------------------
(* The settings, where they come from, and a diagnosis under the policy they *)
(* hold.  A behaviour chooses one part; the others stay as they begin.       *)
EXTENDS RuntimeSettings

CONSTANTS
    Handlers, Keys, FileKeys, Blank, MaxLifeSaves, MaxStarts,   \* SettingsLife
    Tools, AppTools, AnyTool, Actions, Apps,                    \* AgentLoop
    MaxModels, MaxBudget, MaxRules, MaxCalls

VARIABLES
    part,
    configFile, environment, keyFile, stored, running, inForce, integrationsSet,
    collectors, pending, lastSaved, lifeSaves, starts,
    policy, present, cached, at, model, used, todo, executed, audited

Life == INSTANCE SettingsLife WITH
    client <- collectors, saves <- lifeSaves, MaxSaves <- MaxLifeSaves

Agent == INSTANCE AgentLoop

ASSUME PartsAssumption == Life!LifeAssumption /\ Agent!AgentAssumption

lifeVars == <<configFile, environment, keyFile, stored, running, inForce, integrationsSet,
              collectors, pending, lastSaved, lifeSaves, starts>>
agentVars == <<policy, present, cached, at, model, used, todo, executed, audited>>

MCInit ==
    /\ part \in {"saves", "life", "agent"}
    /\ Init
    /\ Life!Init
    /\ part # "life" => /\ configFile = [key |-> None, file |-> None]
                        /\ environment = configFile /\ stored = None
    /\ Agent!Init
    /\ part # "agent" => /\ policy = [role |-> "user", enabled |-> FALSE, budget |-> 0, rules |-> <<>>]
                         /\ present = {} /\ cached = {}

SavesStep == part = "saves" /\ Next /\ UNCHANGED <<part, lifeVars, agentVars>>
LifeStep == part = "life" /\ Life!Next /\ UNCHANGED <<part, vars, agentVars>>
AgentStep == part = "agent" /\ Agent!Next /\ UNCHANGED <<part, vars, lifeVars>>

MCVars == <<part, vars, lifeVars, agentVars>>

\* The fairness of RuntimeSettings and of AgentLoop, each while it is the part.
MCSpec ==
    /\ MCInit /\ [][SavesStep \/ LifeStep \/ AgentStep]_MCVars
    /\ WF_MCVars(part = "saves" /\ Poll /\ UNCHANGED <<part, lifeVars, agentVars>>)
    /\ WF_MCVars(part = "agent" /\ Agent!Step /\ UNCHANGED <<part, vars, lifeVars>>)

-----------------------------------------------------------------------------
(* The properties of the parts, as their modules state them.                 *)

\* What was saved stays in force, key files win, and tools stay with administrators.
SavedInForce == Life!SavedInForce
\* A model's calls stay within the budget and the rules, and all are in the audit.
PolicyHeld == Agent!PolicyHeld
\* The request of a diagnosis ends.
RequestEnds == part = "agent" => Agent!RequestEnds
=============================================================================
