------------------------------ MODULE RecordOps ------------------------------
(***************************************************************************)
(* The operations of FileStore (internal/db/store.go) on its lists.  A     *)
(* list keeps its order; an upsert replaces the first record that is the   *)
(* same, or goes to the end.                                               *)
(***************************************************************************)
EXTENDS Integers, Sequences, SequencesExt

Upsert(list, record, Same(_)) ==
    LET hits == {i \in DOMAIN list : Same(list[i])}
    IN  IF hits = {} THEN Append(list, record)
        ELSE [list EXCEPT ![CHOOSE i \in hits : \A j \in hits : i <= j] = record]

\* Mutation: a user is recognised by the id alone.
UpsertUserById(list, u) == Upsert(list, u, LAMBDA x : x.id = u.id)

UpsertUser(list, u) == Upsert(list, u, LAMBDA x : x.id = u.id \/ x.name = u.name)

UpsertPersistentSession(list, s) == Upsert(list, s, LAMBDA x : x.token = s.token)

UpsertNotificationPreference(list, p) ==
    Upsert(list, p, LAMBDA x : x.user = p.user /\ x.app = p.app)

UpsertRepairRequest(list, q) == Upsert(list, q, LAMBDA x : x.id = q.id)

\* The first hit goes; a list without one is not written at all.
DeletePersistentSession(list, token) ==
    LET hits == {i \in DOMAIN list : list[i].token = token}
    IN  IF hits = {} THEN list
        ELSE RemoveAt(list, CHOOSE i \in hits : \A j \in hits : i <= j)

\* PrunePersistentSessions walks the list and keeps, in order, what has not ended.
Unended(list, time) ==
    LET kept[n \in 0..Len(list)] ==
            IF n = 0 THEN <<>>
            ELSE IF list[n].ends >= time THEN Append(kept[n - 1], list[n]) ELSE kept[n - 1]
    IN  kept[Len(list)]

\* AppendAudit and AppendNotification keep the newest of a list.
AppendCapped(list, record, cap) ==
    LET longer == Append(list, record)
    IN  IF Len(longer) <= cap THEN longer
        ELSE SubSeq(longer, Len(longer) - cap + 1, Len(longer))

\* UserByUsername, UserByID, PersistentSessionByTokenHash: the first that fits.
Find(list, Fits(_)) ==
    LET hits == {i \in DOMAIN list : Fits(list[i])}
    IN  IF hits = {} THEN <<>> ELSE <<list[CHOOSE i \in hits : \A j \in hits : i <= j]>>

=============================================================================
