------------------------------ MODULE MCAccess ------------------------------
(* Who gets in, and how often: the repair budget, the login throttle, the    *)
(* sessions (two sizes) and the accounts.  They share no state, so a         *)
(* behaviour chooses one of them, its part, and the others stay as they      *)
(* begin.                                                                    *)
EXTENDS RepairLimiter, TLC

CONSTANTS
    Users, Tokens, LoneToken, Requests, Admins,                 \* Sessions
    SessionTimeout, RememberTimeout, ArmDuration, MaxSessions, MaxStored, MaxRestarts,
    BusyKinds, BusyClock, BusySaves, AgingKinds, AgingClock, AgingSaves,
    LoginKeys, Attempts, MaxLoginFailures, FailureWindow,       \* LoginThrottle
    Lockout, MaxFailureKeys, MaxHour, MaxGuesses,
    Savers, Names, AdminNames, MaxAccountSaves, MaxStarts       \* Accounts

VARIABLES
    part,
    sessionClock, account, entries, stored, req, admin, saves, restarts,
    granted, cookies, loggedOut,
    hour, record, attempt, guesses, failed, evicted,
    users, saver, accountSaves, starts

\* Two tokens, a password change and a restart, on a clock that stands still.
Busy == INSTANCE Sessions WITH
    clock <- sessionClock, Kinds <- BusyKinds, MaxClock <- BusyClock, MaxSaves <- BusySaves

\* One token on a clock that passes every end there is.
Aging == INSTANCE Sessions WITH
    clock <- sessionClock, Kinds <- AgingKinds, Tokens <- {LoneToken}, Admins <- {},
    MaxClock <- AgingClock, MaxSaves <- AgingSaves

Throttle == INSTANCE LoginThrottle

Registry == INSTANCE Accounts

ASSUME AccessAssumption ==
    /\ Busy!SessionsAssumption /\ Aging!SessionsAssumption
    /\ Throttle!LoginThrottleAssumption /\ Registry!AccountsAssumption

sessionVars == <<sessionClock, account, entries, stored, req, admin, saves, restarts,
                 granted, cookies, loggedOut>>
throttleVars == <<hour, record, attempt, guesses, failed, evicted>>
accountVars == <<users, saver, accountSaves, starts>>

MCInit ==
    /\ part \in {"budget", "busy", "aging", "throttle", "registry"}
    /\ Init
    /\ IF part = "aging" THEN Aging!Init ELSE Busy!Init
    /\ Throttle!Init /\ Registry!Init
    /\ part # "registry" => users[1].name = CHOOSE name \in AdminNames : TRUE

MCNext ==
    /\ UNCHANGED part
    /\ \/ /\ part = "budget" /\ Next
          /\ UNCHANGED <<sessionVars, throttleVars, accountVars>>
       \/ /\ \/ part = "busy" /\ Busy!Next
             \/ part = "aging" /\ Aging!Next
          /\ UNCHANGED <<vars, throttleVars, accountVars>>
       \/ /\ part = "throttle" /\ Throttle!Next
          /\ UNCHANGED <<vars, sessionVars, accountVars>>
       \/ /\ part = "registry" /\ Registry!Next
          /\ UNCHANGED <<vars, sessionVars, throttleVars>>

MCVars == <<part, vars, sessionVars, throttleVars, accountVars>>
MCSpec == MCInit /\ [][MCNext]_MCVars

\* With Callers, Requests, Attempts and Savers one set, and Targets and Tokens another.
Symmetry == Permutations(Requests) \cup Permutations(Tokens)

-----------------------------------------------------------------------------
(* The properties of the parts, as their modules state them.                 *)

\* A request is admitted only while a password that was valid during it is.
AdmittedWhileValid == part = "busy" => Busy!AdmittedWhileValid
\* The map of sessions does not outgrow its bound, whatever requests put back.
SessionCapHeld == part = "busy" => Busy!SessionCapHeld
\* No request is admitted after the session's end.
NoSessionAfterExpiry == part = "aging" => Aging!NoSessionAfterExpiry
\* An admin is armed no longer than the arming and the session last.
ArmedWithinSession == part = "aging" => Aging!ArmedWithinSession
\* Guesses in vain are bounded, by two windows and the parallel ones, and so is the map.
ThrottleHolds == Throttle!ThrottleHolds
\* However saves overlap, no two accounts share an id or a name.
UniqueAccounts == Registry!UniqueAccounts
=============================================================================
