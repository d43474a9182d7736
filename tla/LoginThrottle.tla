---------------------------- MODULE LoginThrottle ----------------------------
(***************************************************************************)
(* The login throttle: loginLimiter in internal/server/auth.go, and the    *)
(* part of login that uses it.  A login asks the limiter, checks the       *)
(* password (which takes long, by design of the hash), and tells the       *)
(* limiter the outcome: two locks, with any number of other logins between *)
(* them.  A key is an address and a user name.                             *)
(***************************************************************************)
EXTENDS Integers, FiniteSets, Sequences

CONSTANTS
    LoginKeys,
    Attempts,           \* goroutines of POST /api/auth/login
    MaxLoginFailures,
    FailureWindow,      \* loginFailureWindow
    Lockout,            \* loginLockoutTimeout
    MaxFailureKeys,     \* maxLoginFailureKeys
    MaxHour,            \* bound on the clock
    MaxGuesses,         \* bound on logins
    None

\* loginAttempt
Entry == [failures : Nat, first : Nat, until : Nat]

\* What an instance must respect; the module that makes it assumes this.
LoginThrottleAssumption ==
    /\ MaxLoginFailures \in Nat \ {0, 1} /\ MaxFailureKeys \in Nat \ {0}
    /\ FailureWindow \in Nat /\ Lockout \in Nat
    /\ Lockout > FailureWindow     \* ten minutes against five
    /\ MaxHour \in Nat /\ MaxGuesses \in Nat
    /\ IsFiniteSet(Attempts) /\ Attempts # {}
    /\ None \notin LoginKeys \cup Entry

VARIABLES
    hour,       \* the clock
    record,     \* l.failures: failures, first failure, locked until (0 for never)
    attempt,    \* the key of each login between its two locks, with when it asked
    guesses,    \* logins begun
    failed,     \* per key, the times of its failures since the entry was lost or
                \* reset: by a success, by an eviction (history)
    evicted     \* an entry was evicted to make room (history)

vars == <<hour, record, attempt, guesses, failed, evicted>>

Init ==
    /\ hour = 0
    /\ record = [k \in LoginKeys |-> None]
    /\ attempt = [a \in Attempts |-> None]
    /\ guesses = 0
    /\ failed = [k \in LoginKeys |-> <<>>]
    /\ evicted = FALSE

\* !LockedUntil.IsZero() && now.Before(LockedUntil)
Locked(entry) == hour < entry.until

WindowOver(entry) == hour - entry.first > FailureWindow

\* pruneExpiredLocked
Kept == [k \in LoginKeys |->
            IF record[k] # None /\ ~Locked(record[k]) /\ WindowOver(record[k]) THEN None
            ELSE record[k]]

Entries(map) == {k \in LoginKeys : map[k] # None}

\* enforceLimitLocked(maxLoginFailureKeys - 1): the entries with the earliest
\* first failure go.  The key itself is not spared, and a lock is not either.
Roomy(map, spared) ==
    LET room == MaxFailureKeys - 1
        here == Entries(map)
    IN  /\ spared \subseteq here
        /\ Cardinality(spared) = IF Cardinality(here) > room THEN room ELSE Cardinality(here)
        /\ \A k \in here \ spared, j \in spared : map[k].first <= map[j].first

\* retryAfter.  A login that is refused ends here.
Ask(a, k) ==
    /\ attempt[a] = None
    /\ guesses < MaxGuesses
    /\ guesses' = guesses + 1
    /\ record' = Kept
    /\ attempt' = [attempt EXCEPT ![a] =
                     IF Kept[k] # None /\ Locked(Kept[k]) THEN None ELSE k]
    /\ UNCHANGED <<hour, failed, evicted>>

\* Mutation: the window starts anew with every failure.
CountedSliding(entry) ==
    IF entry = None \/ WindowOver(entry) THEN [failures |-> 1, first |-> hour, until |-> 0]
    ELSE [failures |-> entry.failures, first |-> hour, until |-> 0]

\* One failure more, from a fresh window when the last one is over.
Counted(entry) ==
    IF entry = None \/ WindowOver(entry)
    THEN [failures |-> 1, first |-> hour, until |-> 0]
    ELSE [entry EXCEPT !.failures = @ + 1]

\* A lock is set, or set again, by every failure from the limit on.
LockedAtLimit(entry) ==
    IF entry.failures >= MaxLoginFailures THEN [entry EXCEPT !.until = hour + Lockout] ELSE entry

RecordFailure(a) ==
    /\ attempt[a] # None
    /\ LET k == attempt[a]
       IN  \E spared \in SUBSET LoginKeys :
              /\ Roomy(Kept, spared)
              /\ LET old == IF k \in spared THEN Kept[k] ELSE None
                 IN  record' = [j \in LoginKeys |->
                                  IF j = k THEN LockedAtLimit(Counted(old))
                                  ELSE IF j \in spared THEN Kept[j] ELSE None]
              /\ failed' = [j \in LoginKeys |->
                              IF j = k THEN Append(IF k \in Entries(Kept) \ spared THEN <<>> ELSE failed[k], hour)
                              ELSE IF j \in Entries(Kept) \ spared THEN <<>> ELSE failed[j]]
              /\ evicted' = (evicted \/ spared # Entries(Kept))
    /\ attempt' = [attempt EXCEPT ![a] = None]
    /\ UNCHANGED <<hour, guesses>>

RecordSuccess(a) ==
    /\ attempt[a] # None
    /\ record' = [record EXCEPT ![attempt[a]] = None]
    /\ failed' = [failed EXCEPT ![attempt[a]] = <<>>]
    /\ attempt' = [attempt EXCEPT ![a] = None]
    /\ UNCHANGED <<hour, guesses, evicted>>

Tick ==
    /\ hour < MaxHour
    /\ hour' = hour + 1
    /\ UNCHANGED <<record, attempt, guesses, failed, evicted>>

Next ==
    \/ \E a \in Attempts, k \in LoginKeys : Ask(a, k)
    \/ \E a \in Attempts : RecordFailure(a) \/ RecordSuccess(a)
    \/ Tick

Spec == Init /\ [][Next]_vars

-----------------------------------------------------------------------------
\* The failures of a key no more than a window before time t.
Recent(k, t) == {i \in DOMAIN failed[k] : t - FailureWindow <= failed[k][i] /\ failed[k][i] <= t}

\* As long as no success and no eviction clears a key, the passwords tried in
\* vain within any stretch of a failure window are bounded.  Windows are laid end
\* to end, they do not slide, so a stretch sees two: the end of one, without its
\* first failure, and another up to its limit, with the logins that asked before
\* the lock and failed after it on top.  The first may be locked too: a login
\* that asked before that lock and fails after the window begins the next one,
\* which is not locked.
GuessesBounded ==
    \A k \in LoginKeys : \A t \in 0..hour :
        Cardinality(Recent(k, t)) <= 2 * (MaxLoginFailures + Cardinality(Attempts) - 2)

\* docs/security.md: "Repeated login failures are rate-limited in memory and
\* return 429 with Retry-After": a locked key stays locked until the time that
\* was announced, unless its entry is dropped by a success or to make room.
LockoutHeld ==
    [][\A k \in LoginKeys :
          record[k] # None /\ Locked(record[k]) /\ Len(failed'[k]) >= Len(failed[k])
            => record'[k] # None /\ record'[k].until >= record[k].until]_vars

\* The limiter remembers a bounded number of keys however many names are tried.
KeysBounded == Cardinality(Entries(record)) <= MaxFailureKeys

\* What remains of "rate-limited in memory" (docs/security.md): guesses are bounded
\* in time, and what is remembered of them in size.
ThrottleHolds == GuessesBounded /\ KeysBounded
=============================================================================
