------------------------------ MODULE Sessions ------------------------------
(***************************************************************************)
(* Login sessions: internal/server/auth.go with the accounts of            *)
(* internal/users and the remembered sessions of internal/db.              *)
(*                                                                         *)
(* Every request passes requireAuth, whose look-up, restoring and          *)
(* validation each take a lock of their own: the session map, the store,   *)
(* the store again.  Requests of one browser, and admins saving accounts,  *)
(* interleave between any two of them.  A password is its version: a new   *)
(* one for every password saved, as the fingerprint of salt and hash is.   *)
(***************************************************************************)
EXTENDS Integers, FiniteSets

CONSTANTS
    Users,
    Tokens,             \* session tokens, each drawn once by a login
    Requests,           \* request goroutines
    Admins,             \* goroutines of POST /api/admin/users
    Kinds,              \* the requests an instance makes: read, me, logout, arm
    SessionTimeout,     \* Auth.SessionTimeout
    RememberTimeout,    \* Auth.RememberSessionTimeout
    ArmDuration,        \* AgentArmDuration
    MaxSessions,        \* maxSessionEntries
    MaxStored,          \* maxPersistentSessionEntries
    MaxClock,           \* bound on the clock
    MaxSaves,           \* bound on account saves
    MaxRestarts,        \* bound on restarts of the process
    None

\* What an instance must respect; the module that makes it assumes this.
SessionsAssumption ==
    /\ Kinds \subseteq {"read", "me", "logout", "arm"}
    /\ SessionTimeout \in Nat \ {0} /\ RememberTimeout \in Nat \ {0}
    /\ ArmDuration \in Nat \ {0}
    /\ MaxSessions \in Nat \ {0} /\ MaxStored \in Nat \ {0}
    /\ MaxClock \in Nat /\ MaxSaves \in Nat /\ MaxRestarts \in Nat
    /\ IsFiniteSet(Tokens) /\ None \notin Nat

VARIABLES
    clock,
    account,    \* per user, the stored record: password version, disabled
    entries,    \* sessionStore.entries; armed is 0 where AgentArmedUntil is zero
    stored,     \* the store's persistent sessions, by token
    req,        \* what each request goroutine is doing
    admin,      \* what each account save is doing
    saves,      \* account saves so far; also the source of fresh versions
    restarts,
    granted,    \* per token, until when its last login or renewal lasts (history)
    cookies,    \* the tokens that a login has sent to a browser
    loggedOut   \* tokens whose logout has returned (history)

vars == <<clock, account, entries, stored, req, admin, saves, restarts,
          granted, cookies, loggedOut>>

Init ==
    /\ clock = 0
    /\ account = [u \in Users |-> [version |-> 0, disabled |-> FALSE]]
    /\ entries = [x \in Tokens |-> None]
    /\ stored = [x \in Tokens |-> None]
    /\ req = [r \in Requests |-> None]
    /\ admin = [a \in Admins |-> None]
    /\ saves = 0
    /\ restarts = 0
    /\ granted = [x \in Tokens |-> None]
    /\ cookies = {}
    /\ loggedOut = {}

-----------------------------------------------------------------------------
(* The locked operations of the session map and of the store.              *)

At(r, step) == req[r] # None /\ req[r].at = step

Goto(r, step) == req' = [req EXCEPT ![r].at = step]
Return(r) == req' = [req EXCEPT ![r] = None]

\* now.After(expires)
Expired(expires) == clock > expires

\* pruneExpiredLocked: the sessions that a write to the map leaves.
Unexpired == {x \in Tokens : entries[x] # None /\ ~Expired(entries[x].expires)}

\* Mutation: the map is brought down to its cap before one more is added.
RoomLate == MaxSessions

\* enforceLimitLocked(maxSessionEntries - 1), before a session is added
Room == MaxSessions - 1

\* The earliest expiring sessions go until there is room.
Survivors(kept) ==
    /\ kept \subseteq Unexpired
    /\ Cardinality(kept) = IF Cardinality(Unexpired) > Room THEN Room
                           ELSE Cardinality(Unexpired)
    /\ \A x \in Unexpired \ kept, y \in kept : entries[x].expires <= entries[y].expires

\* createWithOptions and put: sweep, make room, insert.
Put(token, session) ==
    \E kept \in SUBSET Tokens :
        /\ Survivors(kept)
        /\ entries' = [x \in Tokens |-> IF x = token THEN session
                                        ELSE IF x \in kept THEN entries[x] ELSE None]

Drop(table, token) == [table EXCEPT ![token] = None]

\* PrunePersistentSessions: expired records go, then those seen longest ago.
Prune(kept) ==
    LET alive == {x \in Tokens : stored[x] # None /\ ~Expired(stored[x].expires)}
    IN  /\ kept \subseteq alive
        /\ Cardinality(kept) = IF Cardinality(alive) > MaxStored THEN MaxStored
                               ELSE Cardinality(alive)
        /\ \A x \in alive \ kept, y \in kept : stored[x].seen <= stored[y].seen

\* Mutation: a session is validated by its user alone.
ValidForUser(u, version) == ~account[u].disabled

\* users.ValidateSession: the user is enabled and the fingerprint current.
Valid(u, version) == ~account[u].disabled /\ account[u].version = version

-----------------------------------------------------------------------------
(* login                                                                   *)

\* Authenticate: an enabled user's current password.
BeginLogin(r, u, remember) ==
    /\ req[r] = None
    /\ ~account[u].disabled
    /\ req' = [req EXCEPT ![r] =
                 [kind |-> "login", at |-> "create", token |-> None, record |-> None,
                  sess |-> [user |-> u, version |-> 0, expires |-> 0,
                            persistent |-> remember, armed |-> 0],
                  valid |-> {}, began |-> clock, revoked |-> FALSE]]
    /\ UNCHANGED <<clock, account, entries, stored, admin, saves, restarts, granted, cookies, loggedOut>>

\* UserByID, a fresh token, createWithOptions.
Create(r) ==
    /\ At(r, "create")
    /\ LET u    == req[r].sess.user
           ttl  == IF req[r].sess.persistent THEN RememberTimeout ELSE SessionTimeout
           sess == [req[r].sess EXCEPT !.version = account[u].version,
                                       !.expires = clock + ttl]
       IN  \E x \in Tokens :
              /\ granted[x] = None
              /\ Put(x, sess)
              /\ granted' = [granted EXCEPT ![x] = clock + ttl]
              /\ IF sess.persistent
                 THEN /\ req' = [req EXCEPT ![r].at = "save", ![r].token = x, ![r].sess = sess]
                      /\ UNCHANGED cookies
                 ELSE Return(r) /\ cookies' = cookies \cup {x}
    /\ UNCHANGED <<clock, account, stored, admin, saves, restarts, loggedOut>>

Record(sess) == [user |-> sess.user, version |-> sess.version, seen |-> clock,
                 expires |-> sess.expires]

\* savePersistentSession, its upsert.  When writing the file fails, the store
\* has the record in memory all the same; login then takes its session back.
Save(r) ==
    /\ At(r, "save")
    /\ stored' = [stored EXCEPT ![req[r].token] = Record(req[r].sess)]
    /\ \/ Goto(r, "prune") /\ UNCHANGED entries
       \/ /\ Return(r)
          /\ entries' = IF req[r].kind = "login" THEN Drop(entries, req[r].token) ELSE entries
    /\ UNCHANGED <<clock, account, admin, saves, restarts, granted, cookies, loggedOut>>

\* Its prune, whose write may fail as well: the records are gone from memory then,
\* no cookie is set, and login takes its session back.
SavePrune(r) ==
    /\ At(r, "prune")
    /\ \E kept \in SUBSET Tokens :
           /\ Prune(kept)
           /\ stored' = [x \in Tokens |-> IF x \in kept THEN stored[x] ELSE None]
    /\ \/ cookies' = cookies \cup {req[r].token} /\ UNCHANGED entries
       \/ /\ entries' = IF req[r].kind = "login" THEN Drop(entries, req[r].token) ELSE entries
          /\ UNCHANGED cookies
    /\ Return(r)
    /\ UNCHANGED <<clock, account, admin, saves, restarts, granted, loggedOut>>

-----------------------------------------------------------------------------
(* requireAuth                                                             *)

\* A request carries the cookie of an earlier login.  valid collects (as
\* history) the password versions that were good while the request ran.
BeginRequest(r, kind, x) ==
    /\ req[r] = None
    /\ x \in cookies
    /\ req' = [req EXCEPT ![r] =
                 [kind |-> kind, at |-> "get", token |-> x, record |-> None, sess |-> None,
                  valid |-> {<<u, account[u].version>> : u \in {v \in Users : ~account[v].disabled}},
                  began |-> clock, revoked |-> x \in loggedOut]]
    /\ UNCHANGED <<clock, account, entries, stored, admin, saves, restarts, granted, cookies, loggedOut>>

\* sessions.get: an expired session goes, an expired arming is cleared.
Get(r) ==
    /\ At(r, "get")
    /\ LET x == req[r].token
       IN  \/ /\ entries[x] # None
              /\ ~Expired(entries[x].expires)
              /\ entries' = [entries EXCEPT ![x].armed = IF @ <= clock THEN 0 ELSE @]
              /\ req' = [req EXCEPT ![r].sess = entries'[x], ![r].at = "validate"]
           \/ /\ entries[x] # None => Expired(entries[x].expires)
              /\ entries' = Drop(entries, x)
              /\ Goto(r, "lookup")
    /\ UNCHANGED <<clock, account, stored, admin, saves, restarts, granted, cookies, loggedOut>>

\* Mutation: a restored record is not checked for its expiry.
RecordExpiredNever(record) == FALSE

\* record.ExpiresAt.IsZero() || now.After(record.ExpiresAt)
RecordExpired(record) == Expired(record.expires)

\* restorePersistentSession: the stored record, if any, and its expiry.
Lookup(r) ==
    /\ At(r, "lookup")
    /\ LET record == stored[req[r].token]
       IN  \/ record = None /\ Return(r)
           \/ record # None /\ RecordExpired(record) /\ Goto(r, "drop")
           \/ /\ record # None
              /\ ~RecordExpired(record)
              /\ req' = [req EXCEPT ![r].record = record, ![r].at = "restore"]
    /\ UNCHANGED <<clock, account, entries, stored, admin, saves, restarts, granted, cookies, loggedOut>>

Restore(r) ==
    /\ At(r, "restore")
    /\ IF Valid(req[r].record.user, req[r].record.version)
       THEN Goto(r, "touch") ELSE Goto(r, "drop")
    /\ UNCHANGED <<clock, account, entries, stored, admin, saves, restarts, granted, cookies, loggedOut>>

\* The record read before is written back with a new LastSeenAt.
Touch(r) ==
    /\ At(r, "touch")
    /\ stored' = [stored EXCEPT ![req[r].token] = [req[r].record EXCEPT !.seen = clock]]
    /\ Goto(r, "put")
    /\ UNCHANGED <<clock, account, entries, admin, saves, restarts, granted, cookies, loggedOut>>

PutRestored(r) ==
    /\ At(r, "put")
    /\ LET record == req[r].record
           sess   == [user |-> record.user, version |-> record.version,
                      expires |-> record.expires, persistent |-> TRUE, armed |-> 0]
       IN  /\ Put(req[r].token, sess)
           /\ req' = [req EXCEPT ![r].sess = sess, ![r].at = "validate"]
    /\ UNCHANGED <<clock, account, stored, admin, saves, restarts, granted, cookies, loggedOut>>

\* validateSession; "serve" is the handler of an admitted request.
Validate(r) ==
    /\ At(r, "validate")
    /\ LET sess == req[r].sess
       IN  \/ /\ Valid(sess.user, sess.version)
              /\ Goto(r, "serve")
              /\ UNCHANGED entries
           \/ /\ ~Valid(sess.user, sess.version)
              /\ entries' = Drop(entries, req[r].token)
              /\ IF sess.persistent THEN Goto(r, "drop") ELSE Return(r)
    /\ UNCHANGED <<clock, account, stored, admin, saves, restarts, granted, cookies, loggedOut>>

\* DeletePersistentSession, on each of the refusals above.
DropStored(r) ==
    /\ At(r, "drop")
    /\ stored' = Drop(stored, req[r].token)
    /\ Return(r)
    /\ UNCHANGED <<clock, account, entries, admin, saves, restarts, granted, cookies, loggedOut>>

-----------------------------------------------------------------------------
(* The handlers that touch sessions.                                       *)

Read(r) ==
    /\ At(r, "serve")
    /\ req[r].kind = "read" \/ (req[r].kind = "me" /\ ~req[r].sess.persistent)
    /\ Return(r)
    /\ UNCHANGED <<clock, account, entries, stored, admin, saves, restarts, granted, cookies, loggedOut>>

\* renewPersistentSession puts the copy that requireAuth read back, then saves.
Renew(r) ==
    /\ At(r, "serve")
    /\ req[r].kind = "me"
    /\ req[r].sess.persistent
    /\ LET sess == [req[r].sess EXCEPT !.expires = clock + RememberTimeout]
       IN  /\ Put(req[r].token, sess)
           /\ req' = [req EXCEPT ![r].sess = sess, ![r].at = "save"]
    /\ granted' = [granted EXCEPT ![req[r].token] = clock + RememberTimeout]
    /\ UNCHANGED <<clock, account, stored, admin, saves, restarts, cookies, loggedOut>>

Logout(r) ==
    /\ At(r, "serve")
    /\ req[r].kind = "logout"
    /\ entries' = Drop(entries, req[r].token)
    /\ Goto(r, "forget")
    /\ UNCHANGED <<clock, account, stored, admin, saves, restarts, granted, cookies, loggedOut>>

LogoutStored(r) ==
    /\ At(r, "forget")
    /\ stored' = Drop(stored, req[r].token)
    /\ loggedOut' = loggedOut \cup {req[r].token}
    /\ Return(r)
    /\ UNCHANGED <<clock, account, entries, admin, saves, restarts, granted, cookies>>

\* Mutation: the arming is not cut at the end of the session.
ArmedUntilUncut(expires) == clock + ArmDuration

\* if until.After(entry.ExpiresAt) { until = entry.ExpiresAt }
ArmedUntil(expires) == IF clock + ArmDuration > expires THEN expires ELSE clock + ArmDuration

\* setAgentArmed: armed until a time, or disarmed; a session that expired or
\* went meanwhile answers 401.
Arm(r) ==
    /\ At(r, "serve")
    /\ req[r].kind = "arm"
    /\ LET x == req[r].token
       IN  \/ /\ entries[x] # None
              /\ ~Expired(entries[x].expires)
              /\ \E until \in {0, ArmedUntil(entries[x].expires)} :
                     entries' = [entries EXCEPT ![x].armed = until]
           \/ /\ entries[x] # None => Expired(entries[x].expires)
              /\ entries' = Drop(entries, x)
    /\ Return(r)
    /\ UNCHANGED <<clock, account, stored, admin, saves, restarts, granted, cookies, loggedOut>>

-----------------------------------------------------------------------------
(* Registry.Save reads the record and upserts a changed copy.  A request   *)
(* always carries the disabled flag, and a password only sometimes.        *)

SaveRead(a, u) ==
    /\ admin[a] = None
    /\ saves + Cardinality({b \in Admins : admin[b] # None}) < MaxSaves
    /\ admin' = [admin EXCEPT ![a] = [user |-> u, version |-> account[u].version]]
    /\ UNCHANGED <<clock, account, entries, stored, req, saves, restarts, granted, cookies, loggedOut>>

SaveWrite(a, password, disabled) ==
    /\ admin[a] # None
    /\ LET u == admin[a].user
           record == [version |-> IF password THEN saves + 1 ELSE admin[a].version,
                      disabled |-> disabled]
       IN  /\ account' = [account EXCEPT ![u] = record]
           /\ req' = [r \in Requests |->
                        IF req[r] = None \/ disabled THEN req[r]
                        ELSE [req[r] EXCEPT !.valid = @ \cup {<<u, record.version>>}]]
    /\ admin' = [admin EXCEPT ![a] = None]
    /\ saves' = saves + 1
    /\ UNCHANGED <<clock, entries, stored, restarts, granted, cookies, loggedOut>>

Tick ==
    /\ clock < MaxClock
    /\ clock' = clock + 1
    /\ UNCHANGED <<account, entries, stored, req, admin, saves, restarts, granted, cookies, loggedOut>>

\* The process restarts: the session map and the requests are gone.
Restart ==
    /\ restarts < MaxRestarts
    /\ restarts' = restarts + 1
    /\ entries' = [x \in Tokens |-> None]
    /\ req' = [r \in Requests |-> None]
    /\ admin' = [a \in Admins |-> None]
    /\ UNCHANGED <<clock, account, stored, saves, granted, cookies, loggedOut>>

Login(r) ==
    \/ \E u \in Users, remember \in BOOLEAN : BeginLogin(r, u, remember)
    \/ Create(r) \/ Save(r) \/ SavePrune(r)

Authenticate(r) ==
    \/ \E kind \in Kinds, x \in Tokens : BeginRequest(r, kind, x)
    \/ Get(r) \/ Lookup(r) \/ Restore(r) \/ Touch(r) \/ PutRestored(r)
    \/ Validate(r) \/ DropStored(r)

Serve(r) == Read(r) \/ Renew(r) \/ Logout(r) \/ LogoutStored(r) \/ Arm(r)

Next ==
    \/ \E r \in Requests : Login(r) \/ Authenticate(r) \/ Serve(r)
    \/ \E a \in Admins, u \in Users : SaveRead(a, u)
    \/ \E a \in Admins, password, disabled \in BOOLEAN : SaveWrite(a, password, disabled)
    \/ Tick \/ Restart

Spec == Init /\ [][Next]_vars

-----------------------------------------------------------------------------
(* Properties.                                                             *)

Session == [user : Users, version : 0..MaxSaves, expires : Nat,
            persistent : BOOLEAN, armed : Nat]
Stored == [user : Users, version : 0..MaxSaves, seen : Nat, expires : Nat]

\* The accounts are well formed, and the map and the store hold sessions of
\* tokens that some login drew.
TypeOK ==
    /\ account \in [Users -> [version : 0..MaxSaves, disabled : BOOLEAN]]
    /\ \A x \in Tokens :
           /\ entries[x] # None => entries[x] \in Session /\ granted[x] # None
           /\ stored[x] # None => stored[x] \in Stored /\ granted[x] # None

\* An arming ends with its session at the latest, also when a renewal puts a
\* copy back that was read before the session was armed or disarmed.
ArmedWithinSession ==
    \A x \in Tokens : entries[x] # None => entries[x].armed <= entries[x].expires

\* auth.go: "a request is authenticated exactly when a live session token
\* resolves to a user whose credential version still matches".  A request is
\* admitted only on a password that was current, of a user that was enabled, at
\* some moment while it ran: nothing that other requests put back into the map
\* or the store revives an old password.
AdmittedWhileValid ==
    \A r \in Requests :
        At(r, "serve") => <<req[r].sess.user, req[r].sess.version>> \in req[r].valid

\* A token is admitted only to requests that began before the end of its last
\* login or renewal, however the map and the store were put back and pruned.
NoSessionAfterExpiry ==
    \A r \in Requests : At(r, "serve") => req[r].began <= granted[req[r].token]

\* docs/security.md: "a hard active-session cap", which is that of the map.  The
\* store may hold more than maxPersistentSessionEntries until a save prunes it:
\* a restore writes its record back (Touch) even when a prune has just evicted it,
\* and a save whose write fails, or that a restart cuts off, leaves its record
\* without a prune.
SessionCapHeld == Cardinality({x \in Tokens : entries[x] # None}) <= MaxSessions

\* docs/security.md: "logout deletes the current persistent session": once a
\* logout has returned, its token opens no further request.
LogoutFinal == \A r \in Requests : At(r, "serve") => ~req[r].revoked

=============================================================================
