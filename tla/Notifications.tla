---------------------------- MODULE Notifications ----------------------------
(***************************************************************************)
(* The notices a refresh sends (Manager.ProcessSnapshot): the poller and   *)
(* every user who asks for a refresh walk the subscriptions as they were   *)
(* when the walk began, send what is due, and write each subscription back *)
(* with what was sent.  No lock is held from the read to the write.        *)
(*                                                                         *)
(* A subscription is one user's for one app; each stands for an app of its *)
(* own.  Statuses are "online", "offline" (degraded too) and "unknown".    *)
(***************************************************************************)
EXTENDS Integers, Sequences, FiniteSets

CONSTANTS
    Subscriptions,      \* 1..n, in the order of the store
    Refreshes,          \* goroutines that refresh: the poller and the handlers
    RateLimitWindow,
    MaxMinute,          \* bound on the clock
    MaxNotices,         \* bound on notices
    MaxEdits,           \* bound on edits of a subscription
    MaxLost,            \* bound on failing sends and on crashes, each
    None

AppStatuses == {"online", "offline", "unknown"}

\* A subscription as it is stored, and what a refresh holds.
Preferences == [down : BOOLEAN, recovery : BOOLEAN, key : AppStatuses \cup {None},
                sentAt : Nat, seen : AppStatuses \cup {None}]
Walks ==
    [seen : [Subscriptions -> AppStatuses], nas : BOOLEAN,
     copy : {<<>>} \cup [Subscriptions -> Preferences], next : Nat, sent : BOOLEAN]

\* What an instance must respect; the module that makes it assumes this.
NotificationsAssumption ==
    /\ IsFiniteSet(Subscriptions) /\ Subscriptions = 1..Cardinality(Subscriptions)
    /\ IsFiniteSet(Refreshes)
    /\ RateLimitWindow \in Nat /\ MaxMinute \in Nat /\ MaxNotices \in Nat
    /\ MaxEdits \in Nat /\ MaxLost \in Nat
    /\ None \notin AppStatuses /\ None \notin Walks

VARIABLES
    minute,     \* the clock
    world,      \* the status of each app
    nas,        \* the NAS is reachable and its Docker service is up
    prefs,      \* the store: what is wanted, and key, time and status last sent
    walk,       \* each refresh: the snapshot, the copy of prefs, where it is
    notices,    \* what was sent, per subscription (history)
    edits, lost

vars == <<minute, world, nas, prefs, walk, notices, edits, lost>>

Subscription(down, recovery) ==
    [down |-> down, recovery |-> recovery, key |-> None, sentAt |-> 0, seen |-> None]

Init ==
    /\ minute = 0
    /\ world = [p \in Subscriptions |-> "online"]
    /\ nas = TRUE
    /\ prefs = [p \in Subscriptions |-> Subscription(TRUE, TRUE)]
    /\ walk = [r \in Refreshes |-> None]
    /\ notices = [p \in Subscriptions |-> <<>>]
    /\ edits = 0 /\ lost = 0

ShouldNotify(pref, status) ==
    \/ pref.down /\ status = "offline"
    \/ pref.recovery /\ pref.seen \notin {None, "online"} /\ status = "online"

\* Mutation: the window is not looked at.
DueAlways(pref, status) == ShouldNotify(pref, status)

Due(pref, status) ==
    /\ ShouldNotify(pref, status)
    /\ ~(pref.key = status /\ minute - pref.sentAt < RateLimitWindow)

\* A refresh collects its snapshot.
Collect(r) ==
    /\ walk[r] = None
    /\ walk' = [walk EXCEPT ![r] =
                  [seen |-> world, nas |-> nas, copy |-> <<>>, next |-> 0, sent |-> FALSE]]
    /\ UNCHANGED <<minute, world, nas, prefs, notices, edits, lost>>

\* It reads the subscriptions it will walk; during a whole outage it sends one
\* notice for all instead, every time, which no subscription remembers.
Begin(r) ==
    /\ walk[r] # None /\ walk[r].next = 0
    /\ IF walk[r].nas
       THEN walk' = [walk EXCEPT ![r].copy = prefs, ![r].next = 1]
       ELSE walk' = [walk EXCEPT ![r] = None]
    /\ UNCHANGED <<minute, world, nas, prefs, notices, edits, lost>>

Here(r) == walk[r].copy[walk[r].next]
Status(r) == walk[r].seen[walk[r].next]
Walking(r) == walk[r] # None /\ walk[r].next > 0

Send(r) ==
    /\ Walking(r) /\ walk[r].next \in Subscriptions /\ ~walk[r].sent
    /\ Due(Here(r), Status(r))
    /\ Len(notices[walk[r].next]) < MaxNotices
    /\ notices' = [notices EXCEPT ![walk[r].next] = Append(@, [status |-> Status(r), at |-> minute])]
    /\ walk' = [walk EXCEPT ![r].sent = TRUE]
    /\ UNCHANGED <<minute, world, nas, prefs, edits, lost>>

\* An error of the backend ends the walk.
SendFails(r) ==
    /\ Walking(r) /\ walk[r].next \in Subscriptions /\ ~walk[r].sent
    /\ Due(Here(r), Status(r))
    /\ lost < MaxLost
    /\ lost' = lost + 1
    /\ walk' = [walk EXCEPT ![r] = None]
    /\ UNCHANGED <<minute, world, nas, prefs, notices, edits>>

Remembered(pref, status) == [pref EXCEPT !.key = status, !.sentAt = minute, !.seen = status]

\* The copy goes back to the store with what was sent.
WriteBack(r) ==
    /\ Walking(r) /\ walk[r].sent
    /\ prefs' = [prefs EXCEPT ![walk[r].next] = Remembered(Here(r), Status(r))]
    /\ walk' = [walk EXCEPT ![r].next = @ + 1, ![r].sent = FALSE]
    /\ UNCHANGED <<minute, world, nas, notices, edits, lost>>

Skip(r) ==
    /\ Walking(r) /\ walk[r].next \in Subscriptions /\ ~walk[r].sent
    /\ ~Due(Here(r), Status(r))
    /\ walk' = [walk EXCEPT ![r].next = @ + 1]
    /\ UNCHANGED <<minute, world, nas, prefs, notices, edits, lost>>

EndWalk(r) ==
    /\ Walking(r) /\ walk[r].next \notin Subscriptions
    /\ walk' = [walk EXCEPT ![r] = None]
    /\ UNCHANGED <<minute, world, nas, prefs, notices, edits, lost>>

\* saveNotificationPreferences stores what was posted, and with it forgets what
\* was sent.
SavePreference(p, down, recovery) ==
    /\ edits < MaxEdits
    /\ edits' = edits + 1
    /\ prefs' = [prefs EXCEPT ![p] = Subscription(down, recovery)]
    /\ UNCHANGED <<minute, world, nas, walk, notices, lost>>

\* The process ends and the next begins; the store is on disk.
Crash ==
    /\ lost < MaxLost
    /\ lost' = lost + 1
    /\ walk' = [r \in Refreshes |-> None]
    /\ UNCHANGED <<minute, world, nas, prefs, notices, edits>>

WorldChanges ==
    /\ \/ \E p \in Subscriptions, s \in AppStatuses : world' = [world EXCEPT ![p] = s] /\ UNCHANGED nas
       \/ nas' = ~nas /\ UNCHANGED world
    /\ UNCHANGED <<minute, prefs, walk, notices, edits, lost>>

Tick ==
    /\ minute < MaxMinute
    /\ minute' = minute + 1
    /\ UNCHANGED <<world, nas, prefs, walk, notices, edits, lost>>

Next ==
    \/ \E r \in Refreshes :
           Collect(r) \/ Begin(r) \/ Send(r) \/ SendFails(r)
             \/ WriteBack(r) \/ Skip(r) \/ EndWalk(r)
    \/ \E p \in Subscriptions, down, recovery \in BOOLEAN : SavePreference(p, down, recovery)
    \/ Crash \/ WorldChanges \/ Tick

Spec == Init /\ [][Next]_vars

-----------------------------------------------------------------------------
(* Properties.                                                             *)

\* Notices i to j of a subscription say the same and lie within one window.
Repeated(p, i, j) ==
    /\ \A k \in i..j : notices[p][k].status = notices[p][i].status
    /\ notices[p][j].at - notices[p][i].at < RateLimitWindow

\* The rate limit, as far as it holds: within its window a notice is repeated by
\* each refresh that holds a copy from before, and again by all that are free
\* whenever a refresh writes back what it sent before the first of them: N refreshes
\* can send it N + (N - 1) + ... + 1 times, unless an edit or a crash makes the store
\* forget more.
RepeatsBounded ==
    edits = 0 /\ lost = 0 =>
        \A p \in Subscriptions : \A i, j \in DOMAIN notices[p] :
            i <= j /\ Repeated(p, i, j) =>
                2 * (j - i + 1) <= Cardinality(Refreshes) * (Cardinality(Refreshes) + 1)

\* docs/feature-app-detail-history.md: "Prevents double notifications."
NoDoubleNotice ==
    edits = 0 /\ lost = 0 =>
        \A p \in Subscriptions : \A i, j \in DOMAIN notices[p] : i < j => ~Repeated(p, i, j)

\* A notice of recovery follows one of trouble: nobody is told that an app is
\* back who was not told that it was gone.
RecoveryAfterTrouble ==
    \A p \in Subscriptions : \A i \in DOMAIN notices[p] :
        notices[p][i].status = "online" => \E j \in 1..(i - 1) : notices[p][j].status = "offline"

\* The notices of a subscription, as a user gets them: few repeats, and no recovery
\* out of nothing (ProcessSnapshot).
NoticesHold == RepeatsBounded /\ RecoveryAfterTrouble
=============================================================================
