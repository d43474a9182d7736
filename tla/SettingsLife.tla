---------------------------- MODULE SettingsLife ----------------------------
(***************************************************************************)
(* Where the settings in force come from: internal/config/config.go,       *)
(* internal/server/runtime.go and the decoding of internal/server/settings. *)
(*                                                                         *)
(* At start the defaults are overlaid by the config file, the environment   *)
(* and the key files, and the result is validated.  The stored runtime      *)
(* settings then replace whole sections: the LLM section whenever anything   *)
(* was ever saved, the integrations once they were saved themselves.  An     *)
(* update names some fields and is merged into the section in force.         *)
(*                                                                         *)
(* An integration is here an address, an API key and whether a key file is   *)
(* named for it; of the LLM section there is agent control and one policy.   *)
(***************************************************************************)
EXTENDS Integers, FiniteSets

CONSTANTS
    Handlers,       \* updateIntegrationSettings requests
    Keys,           \* API keys typed by an admin
    FileKeys,       \* what the key file may hold
    MaxSaves,       \* bound on saves
    MaxStarts,      \* bound on starts
    Blank, None

VARIABLES
    configFile, environment,    \* layers: fields they set, None where they do not
    keyFile,        \* what the key file holds, None when it cannot be read
    stored,         \* the runtime_settings record, None before the first save
    running,
    inForce,        \* deps.Config: integrations and LLM
    integrationsSet,    \* runtimeIntegrationsSet
    client,         \* the address and key the collectors were built with
    pending,        \* what each handler has merged and validated
    lastSaved,      \* the integrations of the last save of that section (history)
    saves, starts

vars == <<configFile, environment, keyFile, stored, running, inForce, integrationsSet,
          client, pending, lastSaved, saves, starts>>

Layers == [key : Keys \cup {Blank, None}, file : {TRUE, None}]
Roles == {"admin", "user"}
Policies == [role : Roles, tools : BOOLEAN, calls : 0..1]
LLMs == [control : BOOLEAN, policy : Policies]
Integrations == [valid : BOOLEAN, key : Keys \cup FileKeys \cup {Blank}, file : BOOLEAN]
Records == [integrations : Integrations \cup {None}, llm : LLMs]

\* What an instance must respect; the module that makes it assumes this.
LifeAssumption ==
    /\ MaxSaves \in Nat /\ MaxStarts \in Nat
    /\ Keys \cap FileKeys = {} /\ {Blank, None} \cap (Keys \cup FileKeys) = {}
    /\ None \notin Integrations \cup Records

Defaults == [integrations |-> [valid |-> TRUE, key |-> Blank, file |-> FALSE],
             llm |-> [control |-> FALSE,
                      policy |-> [role |-> "admin", tools |-> TRUE, calls |-> 1]]]

-----------------------------------------------------------------------------
(* Loading.                                                                *)

Overlay(i, layer) ==
    [i EXCEPT !.key = IF layer.key # None THEN layer.key ELSE @,
              !.file = IF layer.file # None THEN layer.file ELSE @]

\* applyEnv looks at values that are not blank only.
SetInEnvironment(layer) == [layer EXCEPT !.key = IF @ = Blank THEN None ELSE @]

Layered == Overlay(Overlay(Defaults.integrations, configFile), SetInEnvironment(environment))

Readable(i) == ~i.file \/ keyFile # None

\* applySecretFiles and hydrateIntegrationSecretFiles
Hydrated(i) == IF i.file THEN [i EXCEPT !.key = keyFile] ELSE i

-----------------------------------------------------------------------------
(* The LLM section.                                                        *)

\* normalizeLLMPolicy, then enableAdminReadOnlyTools; a budget of none is replaced
WithTools(llm) ==
    LET admin == llm.policy.role = "admin" IN
    [llm.policy EXCEPT !.tools = admin /\ (@ \/ llm.control),
                       !.calls = IF @ = 0 THEN Defaults.llm.policy.calls ELSE @]

Normalized(llm) == [llm EXCEPT !.policy = WithTools(llm)]

\* What Validate asks of a policy and of an integration
PolicyValid(p) == p.tools => p.role = "admin" /\ p.calls > 0
Valid(config) == PolicyValid(config.llm.policy) /\ config.integrations.valid

-----------------------------------------------------------------------------
(* Start and stop.                                                         *)

\* Mutation: a restart forgets that the integrations are runtime settings.
SetByStoreForgotten == FALSE

SetByStore == stored # None /\ stored.integrations # None

\* config.Load, Validate, and applyRuntimeSettings on what is stored.  The stored
\* sections are normalised and not validated.
Start ==
    /\ ~running /\ starts < MaxStarts /\ starts' = starts + 1
    /\ Readable(Layered)
    /\ LET base == [Defaults EXCEPT !.integrations = Hydrated(Layered)]
           own == stored # None /\ stored.integrations # None
       IN /\ Valid(base)
          /\ own => Readable(stored.integrations)
          /\ inForce' = IF stored = None THEN base
                        ELSE [integrations |-> IF own THEN Hydrated(stored.integrations)
                                                ELSE base.integrations,
                              llm |-> Normalized(stored.llm)]
    /\ integrationsSet' = SetByStore
    /\ client' = inForce'.integrations.key
    /\ running' = TRUE
    /\ UNCHANGED <<configFile, environment, keyFile, stored, pending, lastSaved, saves>>

Stop ==
    /\ running /\ running' = FALSE
    /\ pending' = [h \in Handlers |-> None]
    /\ integrationsSet' = FALSE
    /\ UNCHANGED <<configFile, environment, keyFile, stored, inForce, client, lastSaved, saves, starts>>

\* While the program is down its surroundings may change; the key file at any time.
Surroundings ==
    /\ \/ ~running /\ \E l \in Layers : environment' = l /\ UNCHANGED <<configFile, keyFile>>
       \/ \E k \in FileKeys \cup {None} : keyFile' = k /\ UNCHANGED <<configFile, environment>>
    /\ UNCHANGED <<stored, running, inForce, integrationsSet, client, pending, lastSaved, saves, starts>>

-----------------------------------------------------------------------------
(* Saving.                                                                 *)

\* runtimeIntegrationSettings: a key that a file gives is not stored.
Bare(i) == IF i.file THEN [i EXCEPT !.key = Blank] ELSE i

\* currentRuntimeSettingsLocked
Capture ==
    [integrations |-> IF integrationsSet' THEN Bare(inForce'.integrations) ELSE None,
     llm |-> inForce'.llm]

Updates == [valid : BOOLEAN, key : Keys \cup {Blank, None}, clear : BOOLEAN, file : BOOLEAN \cup {None}]

\* decodeIntegrationSettingsUpdate: a blank key leaves the key as it is, unless
\* the update clears it.
Merged(i, u) ==
    [valid |-> u.valid,
     key |-> CASE u.clear -> Blank [] u.key \in Keys -> u.key [] OTHER -> i.key,
     file |-> IF u.file # None THEN u.file ELSE i.file]

\* updateIntegrationSettings up to the lock: merge, normalise, read the key file,
\* validate the whole.
Prepare(h, u) ==
    /\ running /\ pending[h] = None /\ saves < MaxSaves
    /\ LET merged == Merged(inForce.integrations, u) IN
        /\ Readable(merged)
        /\ Valid([inForce EXCEPT !.integrations = Hydrated(merged)])
        /\ pending' = [pending EXCEPT ![h] = Hydrated(merged)]
    /\ UNCHANGED <<configFile, environment, keyFile, stored, running, inForce,
                   integrationsSet, client, lastSaved, saves, starts>>

Commit(h) ==
    /\ pending[h] # None
    /\ inForce' = [inForce EXCEPT !.integrations = pending[h]]
    /\ client' = pending[h].key
    /\ integrationsSet' = TRUE
    /\ stored' = Capture
    /\ lastSaved' = pending[h]
    /\ pending' = [pending EXCEPT ![h] = None]
    /\ saves' = saves + 1
    /\ UNCHANGED <<configFile, environment, keyFile, running, starts>>

\* updateLLMSettings; every other section is saved the same way.
SaveLLM(llm) ==
    /\ running /\ saves < MaxSaves /\ saves' = saves + 1
    /\ inForce' = [inForce EXCEPT !.llm = Normalized(llm)]
    /\ Valid(inForce')
    /\ UNCHANGED integrationsSet
    /\ stored' = Capture
    /\ UNCHANGED <<configFile, environment, keyFile, running, client, pending, lastSaved, starts>>

Init ==
    /\ configFile \in Layers /\ environment \in Layers
    /\ keyFile \in FileKeys
    \* a record of an earlier version holds no integrations and any policy
    /\ stored \in {None} \cup [integrations : {None}, llm : LLMs]
    /\ running = FALSE /\ inForce = Defaults
    /\ integrationsSet = FALSE /\ client = Blank
    /\ pending = [h \in Handlers |-> None]
    /\ lastSaved = None
    /\ saves = 0 /\ starts = 0

Next ==
    \/ Start \/ Stop \/ Surroundings
    \/ \E h \in Handlers : Commit(h) \/ \E u \in Updates : Prepare(h, u)
    \/ \E llm \in LLMs : SaveLLM(llm)

Spec == Init /\ [][Next]_vars

-----------------------------------------------------------------------------

\* A key that a key file gives is one that it held.
Sound(i) == i \in Integrations /\ (i.file => i.key \in FileKeys)

LifeTypes ==
    /\ configFile \in Layers /\ environment \in Layers
    /\ keyFile \in FileKeys \cup {None}
    /\ inForce \in [integrations : Integrations, llm : LLMs]
    /\ stored # None => stored \in Records
    /\ pending \in [Handlers -> Integrations \cup {None}]
    /\ lastSaved # None => lastSaved \in Integrations

\* The inductive invariant: what is stored is the last save without the keys of its
\* file, and a save of another section can only store that again.
LifeInv ==
    /\ LifeTypes
    /\ \A h \in Handlers : pending[h] # None => running /\ Sound(pending[h])
    /\ lastSaved # None => stored # None /\ stored.integrations = Bare(lastSaved)
    /\ running => /\ client = inForce.integrations.key
                  /\ Sound(inForce.integrations)
                  /\ PolicyValid(inForce.llm.policy)
    /\ running /\ lastSaved # None =>
           integrationsSet /\ Bare(inForce.integrations) = Bare(lastSaved)

\* Once the integrations were saved, they are what is in force, through saves of
\* other sections, restarts and changes of the environment; the key file alone
\* may give another key.
IntegrationsSurvive ==
    running /\ lastSaved # None =>
        /\ Bare(inForce.integrations) = Bare(lastSaved)
        /\ client = inForce.integrations.key

\* docs/api-config.md: when a key file is configured, it overrides the direct key.
KeyFileOverrides ==
    running /\ inForce.integrations.file => client \in FileKeys

\* Whatever a record of an earlier version says, the tools of a policy in force
\* are for administrators and within a budget (docs/security.md).
ToolsForAdmins == running => PolicyValid(inForce.llm.policy)

\* What an admin saved is what acts, with the keys of its key file, and within the
\* rules for tools: through saves, restarts and records of older versions.
SavedInForce == IntegrationsSurvive /\ KeyFileOverrides /\ ToolsForAdmins
==============================================================================
