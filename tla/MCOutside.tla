----------------------------- MODULE MCOutside -----------------------------
(* What the server asks of the world outside: the snapshot it collects, the  *)
(* containers and devices it restarts, the sign-in at OpenAI and the tokens  *)
(* it holds from there.  They meet only in the modules above them, so a      *)
(* behaviour chooses one, its part, and the others stay as they begin.       *)
EXTENDS ChatGPTTokens, TLC

CONSTANTS
    Apps, MaxTroubles,                              \* Snapshot
    Callers, MaxDoubts, MaxCalls,                   \* DockerControl
    Devices, Gateways, Admins, Attempts, MaxChanges,    \* DeviceRestart
    Browser, Headless, Workers, BrowserTTL, HeadlessTTL,    \* SignIn
    MaxNow, MaxCallbacks, MaxBroken

VARIABLES
    part,
    found,                                                      \* Snapshot
    running, site, late, control, dockerFailures, calls,        \* DockerControl
    state, answering, offered, work, changes,                   \* DeviceRestart
    now, browser, results, headless, server, port, worker,      \* SignIn
    started, callbacks, exchanged, saves, loginFailures

Collected == INSTANCE Snapshot WITH world <- found

Docker == INSTANCE DockerControl WITH
    call <- control, failures <- dockerFailures, MaxFailures <- MaxDoubts

Network == INSTANCE DeviceRestart

Login == INSTANCE SignIn WITH
    time <- now, failures <- loginFailures, Logins <- Browser \cup Headless,
    MaxTime <- MaxNow, MaxFailures <- MaxBroken

ASSUME PartsAssumption ==
    /\ Collected!SnapshotAssumption /\ Docker!DockerAssumption /\ Network!DeviceAssumption
    /\ Login!SignInAssumption /\ TokenAssumption

dockerVars == <<running, site, late, control, dockerFailures, calls>>
networkVars == <<state, answering, offered, work, changes>>
loginVars == <<now, browser, results, headless, server, port, worker, started,
               callbacks, exchanged, saves, loginFailures>>

MCInit ==
    /\ part \in {"collected", "docker", "network", "login", "held"}
    /\ Collected!Init
    /\ Docker!Init /\ (part # "docker" => running /\ site = [restart |-> TRUE, ssh |-> TRUE])
    /\ Network!Init /\ Login!Init
    /\ Init /\ (part # "held" => current = CHOOSE k \in Clients : TRUE)

CollectedStep ==
    /\ part = "collected" /\ Collected!Next
    /\ UNCHANGED <<part, dockerVars, networkVars, loginVars, vars>>
DockerStep ==
    /\ part = "docker" /\ Docker!Next
    /\ UNCHANGED <<part, found, networkVars, loginVars, vars>>
NetworkStep ==
    /\ part = "network" /\ Network!Next
    /\ UNCHANGED <<part, found, dockerVars, loginVars, vars>>
LoginStep ==
    /\ part = "login" /\ Login!Next
    /\ UNCHANGED <<part, found, dockerVars, networkVars, vars>>
HeldStep ==
    /\ part = "held" /\ Next
    /\ UNCHANGED <<part, found, dockerVars, networkVars, loginVars>>

MCNext == CollectedStep \/ DockerStep \/ NetworkStep \/ LoginStep \/ HeldStep
MCVars == <<part, found, dockerVars, networkVars, loginVars, vars>>
MCSpec == MCInit /\ [][MCNext]_MCVars

\* With Callers, Admins, Workers and Calls one set.
Symmetry == Permutations(Calls)

-----------------------------------------------------------------------------
(* The properties of the other parts, as their modules state them; those of  *)
(* ChatGPTTokens are checked under their own names.                          *)

\* Nothing a user is shown changes with the apps that are hidden from the user and
\* share no AppID with an app the user sees.
HiddenAppsSilent == Collected!HiddenAppsSilent
\* No all-clear by blindness, no outage without evidence, no rollup but the worst.
ReportsBacked == part = "collected" => Collected!ReportsBacked
\* A restart whose stop was confirmed asks for a start before it returns.
RestartStartsAgain == Docker!RestartStartsAgain
\* A control that reports success tells the truth about the container.
SuccessIsTrue == Docker!SuccessIsTrue
\* A device is restarted, and reported as recovered, only on an answer of UniFi.
RestartsBacked == Network!RestartsBacked
\* The tokens of one login are in one place, and saved once at most.
SingleUse == Login!SingleUse
=============================================================================
