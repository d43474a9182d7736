----------------------------- MODULE RecordStore -----------------------------
(***************************************************************************)
(* FileStore: all records in memory, and the whole of them in one file     *)
(* after every change.  A change is made in memory first, then the file is *)
(* written beside the old one and renamed over it; when that fails the     *)
(* caller is told, and memory keeps the change.  One lock covers both.     *)
(***************************************************************************)
EXTENDS RecordOps, FiniteSets

CONSTANTS
    SessionTokens, NoteCap,
    MaxWrites,      \* bound on changes, and the largest version of a record
    MaxFails,       \* bound on writes of the file that fail
    MaxCrashes,     \* bound on crashes
    Missing

\* What the store may hold; a record carries the version it was written with.
Versions == 1..MaxWrites
Contents ==
    [sessions : Seq([token : SessionTokens, version : Versions, ends : Nat]),
     prefs    : Seq([user : {1}, app : {1}, version : Versions]),
     requests : Seq([id : {1}, version : Versions]),
     notes    : Seq(Versions),
     settings : {0} \cup Versions]

\* What an instance must respect; the module that makes it assumes this.
RecordStoreAssumption ==
    /\ NoteCap \in Nat \ {0}
    /\ MaxWrites \in Nat /\ MaxFails \in Nat /\ MaxCrashes \in Nat
    /\ Missing \notin Contents

VARIABLES
    up,         \* a process has opened the store
    state,      \* s.state
    disk,       \* the file, or Missing
    busy,       \* an operation has changed memory and writes the file
    writes,     \* changes so far; the version of the next record
    fails, crashes,
    may         \* what a reader may find under each key (history)

vars == <<up, state, disk, busy, writes, fails, crashes, may>>

Empty == [sessions |-> <<>>, prefs |-> <<>>, requests |-> <<>>, notes |-> <<>>, settings |-> 0]

Keys == ({"session"} \X SessionTokens) \cup {<<"pref">>, <<"request">>, <<"settings">>}
            \cup ({"note"} \X (1..MaxWrites))

\* The version that a reader of a key finds, 0 for none.
Version(list) == IF list = <<>> THEN 0 ELSE list[1].version

Found(s, k) ==
    CASE k[1] = "session"  -> Version(Find(s.sessions, LAMBDA x : x.token = k[2]))
      [] k[1] = "pref"     -> Version(s.prefs)
      [] k[1] = "request"  -> Version(s.requests)
      [] k[1] = "settings" -> s.settings
      [] k[1] = "note"     -> IF \E i \in DOMAIN s.notes : s.notes[i] = k[2] THEN k[2] ELSE 0

View(s) == [k \in Keys |-> Found(s, k)]

Init ==
    /\ up = FALSE
    /\ state = Empty /\ disk = Missing
    /\ busy = FALSE
    /\ writes = 0 /\ fails = 0 /\ crashes = 0
    /\ may = [k \in Keys |-> {0}]

\* The contents s are set in memory; the file is yet to be written.
Change(s) ==
    /\ up /\ ~busy
    /\ writes < MaxWrites
    /\ writes' = writes + 1
    /\ state' = s
    /\ busy' = TRUE
    /\ may' = [k \in Keys |-> may[k] \cup {View(s)[k]}]
    /\ UNCHANGED <<up, disk, fails, crashes>>

New == writes + 1

SaveSession(x) ==
    Change([state EXCEPT !.sessions =
        UpsertPersistentSession(@, [token |-> x, version |-> New, ends |-> New])])

\* A session that is not there is not deleted, and nothing is written.
DropSession(x) ==
    /\ Find(state.sessions, LAMBDA y : y.token = x) # <<>>
    /\ Change([state EXCEPT !.sessions = DeletePersistentSession(@, x)])

\* PrunePersistentSessions: some have ended, and of the others the ones not seen
\* for longest go (Sessions has the whole of it); the file is written even when
\* nothing went.
PruneSessions(ended) ==
    Change([state EXCEPT !.sessions = Unended(@, ended)])

SavePreference ==
    Change([state EXCEPT !.prefs =
        UpsertNotificationPreference(@, [user |-> 1, app |-> 1, version |-> New])])

SaveRequest ==
    Change([state EXCEPT !.requests = UpsertRepairRequest(@, [id |-> 1, version |-> New])])

AppendNote == Change([state EXCEPT !.notes = AppendCapped(@, New, NoteCap)])

SaveRuntimeSettings == Change([state EXCEPT !.settings = New])

\* Flush at the end of the process writes what memory holds.
Flush == Change(state)

\* Mutation: the file is written in place, and may be found half written.
WrittenInPlace(s) == {s, Empty}

\* persistLocked renames a complete file over the old one.
Written(s) == {s}

Persist ==
    /\ busy
    /\ disk' \in Written(state)
    /\ busy' = FALSE
    /\ up' = TRUE
    /\ may' = [k \in Keys |-> {View(state)[k]}]
    /\ UNCHANGED <<state, writes, fails, crashes>>

\* Nothing is rolled back.  A process that cannot write its first, empty file
\* does not start.
PersistFails ==
    /\ busy
    /\ fails < MaxFails
    /\ fails' = fails + 1
    /\ busy' = FALSE
    /\ UNCHANGED <<up, state, disk, writes, crashes, may>>

Load ==
    /\ ~up /\ ~busy
    /\ \/ /\ disk = Missing
          /\ state' = Empty /\ busy' = TRUE
          /\ UNCHANGED up
       \/ /\ disk # Missing
          /\ state' = disk /\ up' = TRUE
          /\ UNCHANGED busy
    /\ UNCHANGED <<disk, writes, fails, crashes, may>>

\* The process ends, before or after the rename of a write under way.
Crash ==
    /\ up \/ busy
    /\ crashes < MaxCrashes
    /\ crashes' = crashes + 1
    /\ up' = FALSE /\ busy' = FALSE
    /\ disk' \in {disk} \cup (IF busy THEN Written(state) ELSE {})
    /\ UNCHANGED <<state, writes, fails, may>>

Next ==
    \/ \E x \in SessionTokens : SaveSession(x) \/ DropSession(x)
    \/ \E n \in 0..New : PruneSessions(n)
    \/ SavePreference \/ SaveRequest \/ AppendNote \/ SaveRuntimeSettings \/ Flush
    \/ Persist \/ PersistFails \/ Load \/ Crash

Spec == Init /\ [][Next]_vars

-----------------------------------------------------------------------------
(* Properties.                                                             *)

\* Whatever fails and wherever the process ends, a reader of the store finds
\* under every key a value that was written there and not replaced by an
\* acknowledged one since: FileStore is a DurableMap.
Durable == INSTANCE DurableMap WITH
    Keys <- Keys,
    Values <- 0..MaxWrites,
    open <- up,
    kept <- View(state)

StoreDurable == Durable!Spec

=============================================================================
