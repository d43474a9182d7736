--------------------------- MODULE Sessions_proofs ---------------------------
(***************************************************************************)
(* Sessions for any number of users, tokens, requests and admins: however   *)
(* the copies of a session travel between the map, the store and the        *)
(* requests, none outlasts what its token was granted, and a request is     *)
(* served only on a password that was good while it ran.                    *)
(***************************************************************************)
EXTENDS Sessions, FiniteSetTheorems, TLAPS

Copy == [user : Users, version : Nat, expires : Nat, persistent : BOOLEAN, armed : Nat]
Kept == [user : Users, version : Nat, seen : Nat, expires : Nat]
Account == [version : Nat, disabled : BOOLEAN]
Saving == [user : Users, version : Nat]

LoginSteps == {"create", "save", "prune"}
Steps == LoginSteps \cup {"get", "lookup", "restore", "touch", "put", "validate", "drop",
                          "serve", "forget"}

Request == [kind : Kinds \cup {"login"}, at : Steps, token : Tokens \cup {None},
            record : Kept \cup {None}, sess : Copy \cup {None},
            valid : SUBSET (Users \X Nat), began : Nat, revoked : BOOLEAN]

Shapes ==
    /\ clock \in Nat /\ saves \in Nat
    /\ account \in [Users -> Account]
    /\ granted \in [Tokens -> Nat \cup {None}]
    /\ entries \in [Tokens -> Copy \cup {None}]
    /\ stored \in [Tokens -> Kept \cup {None}]
    /\ req \in [Requests -> Request \cup {None}]
    /\ admin \in [Admins -> Saving \cup {None}]

\* What a renewal could give now: no token with a persistent copy has more.
Renewable(x) == granted[x] <= clock + RememberTimeout

\* A copy of the session of token x, wherever it is.
CopyOK(x, s) ==
    /\ s \in Copy
    /\ granted[x] \in Nat
    /\ s.expires <= granted[x]
    /\ s.armed <= s.expires
    /\ s.persistent => Renewable(x)

\* A stored record of token x, or the copy that a request read.
KeptOK(x, k) ==
    /\ k \in Kept
    /\ granted[x] \in Nat
    /\ k.expires <= granted[x]
    /\ Renewable(x)

\* What a request has passed at each of its steps.
Passed(q) ==
    /\ q.kind = "login" => q.at \in LoginSteps
    /\ q.at = "create" => /\ q.kind = "login" /\ q.sess \in Copy
                          /\ q.sess.armed = 0
    /\ q.at # "create" => q.token \in Tokens
    /\ q.began <= clock
    /\ q.at \in {"save", "validate", "serve"} => CopyOK(q.token, q.sess)
    /\ q.at = "save" => q.sess.persistent
    /\ q.at \in {"restore", "touch", "put"} => KeptOK(q.token, q.record)
    /\ q.at \in {"restore", "touch", "put", "validate", "serve"} => q.began <= granted[q.token]

\* The passwords that are good now were good while the request ran.
KnowsGood(q) ==
    q.kind # "login" =>
        \A u \in Users : ~account[u].disabled => <<u, account[u].version>> \in q.valid

ServedOK(q) == q.at = "serve" => <<q.sess.user, q.sess.version>> \in q.valid

RequestOK(q) == q \in Request /\ Passed(q) /\ KnowsGood(q) /\ ServedOK(q)

Tables ==
    /\ \A x \in Tokens : entries[x] # None => CopyOK(x, entries[x])
    /\ \A x \in Tokens : stored[x] # None => KeptOK(x, stored[x])

SessionsInv ==
    /\ Shapes
    /\ Tables
    /\ \A r \in Requests : req[r] # None => RequestOK(req[r])
    /\ SessionCapHeld

-----------------------------------------------------------------------------
(* Time and grants only move forward.                                       *)

Onward ==
    /\ clock' \in Nat /\ clock' >= clock
    /\ granted' \in [Tokens -> Nat \cup {None}]
    /\ \A x \in Tokens : granted[x] \in Nat =>
           /\ granted'[x] \in Nat /\ granted'[x] >= granted[x]
           /\ Renewable(x) => Renewable(x)'

LEMMA CopyStays ==
    ASSUME SessionsInv, SessionsAssumption, Onward, NEW x \in Tokens, NEW s, CopyOK(x, s)
    PROVE  CopyOK(x, s)'
  <1>1. s.expires \in Nat /\ granted[x] \in Nat /\ granted'[x] \in Nat
    BY DEF CopyOK, Copy, Onward
  <1> QED
    BY <1>1 DEF CopyOK, Onward

LEMMA KeptStays ==
    ASSUME SessionsInv, SessionsAssumption, Onward, NEW x \in Tokens, NEW k, KeptOK(x, k)
    PROVE  KeptOK(x, k)'
  <1>1. k.expires \in Nat /\ granted[x] \in Nat /\ granted'[x] \in Nat
    BY DEF KeptOK, Kept, Onward
  <1> QED
    BY <1>1 DEF KeptOK, Onward

LEMMA RequestStays ==
    ASSUME SessionsInv, SessionsAssumption, Onward, UNCHANGED account, NEW q, RequestOK(q)
    PROVE  RequestOK(q)'
  <1>1. q \in Request /\ q.began \in Nat /\ clock \in Nat /\ clock' \in Nat
    BY DEF RequestOK, Request, SessionsInv, Shapes, Onward
  <1>2. q.at \in {"save", "validate", "serve"} => CopyOK(q.token, q.sess)'
    BY <1>1, CopyStays DEF RequestOK, Passed
  <1>3. q.at \in {"restore", "touch", "put"} => KeptOK(q.token, q.record)'
    BY <1>1, KeptStays DEF RequestOK, Passed
  <1>4. q.at \in {"restore", "touch", "put", "validate", "serve"} => q.began <= granted'[q.token]
    <2>1. q.at \in {"restore", "touch", "put", "validate", "serve"} =>
             q.token \in Tokens /\ q.began <= granted[q.token] /\ granted[q.token] \in Nat
      BY DEF RequestOK, Passed, CopyOK, KeptOK
    <2> QED
      BY <1>1, <2>1 DEF Onward
  <1>5. q.began <= clock'
    BY <1>1 DEF RequestOK, Passed, Onward
  <1>6. Passed(q)'
    BY <1>2, <1>3, <1>4, <1>5 DEF RequestOK, Passed
  <1>7. KnowsGood(q)' /\ ServedOK(q)'
    BY DEF RequestOK, KnowsGood, ServedOK
  <1> QED
    BY <1>1, <1>6, <1>7 DEF RequestOK

-----------------------------------------------------------------------------
(* A step of one request: it moves on, the tables change, no account does.   *)

Moves(r, q) ==
    /\ req' = [req EXCEPT ![r] = q]
    /\ q # None => RequestOK(q)'
    /\ q \in Request \cup {None}
    /\ Onward
    /\ UNCHANGED <<account, admin, saves>>

EntriesOK ==
    /\ entries' \in [Tokens -> Copy \cup {None}]
    /\ \A x \in Tokens : entries'[x] # None => CopyOK(x, entries[x])'
    /\ SessionCapHeld'

StoredOK ==
    /\ stored' \in [Tokens -> Kept \cup {None}]
    /\ \A x \in Tokens : stored'[x] # None => KeptOK(x, stored[x])'

LEMMA MovesInv ==
    ASSUME SessionsInv, SessionsAssumption, NEW r \in Requests, NEW q,
           Moves(r, q), EntriesOK, StoredOK
    PROVE  SessionsInv'
  <1>1. req' \in [Requests -> Request \cup {None}]
    BY DEF SessionsInv, Shapes, Moves
  <1>2. Shapes'
    BY <1>1 DEF SessionsInv, Shapes, Moves, Onward, EntriesOK, StoredOK
  <1>3. ASSUME NEW p \in Requests, req'[p] # None PROVE RequestOK(req[p])'
    <2>1. CASE p = r
      <3>1. req'[p] = q
        BY <2>1 DEF SessionsInv, Shapes, Moves
      <3> QED
        BY <1>3, <3>1 DEF Moves, RequestOK, Passed, KnowsGood, ServedOK, CopyOK, KeptOK, Renewable
    <2>2. CASE p # r
      <3>1. req'[p] = req[p]
        BY <2>2 DEF SessionsInv, Shapes, Moves
      <3>2. RequestOK(req[p])
        BY <1>3, <3>1 DEF SessionsInv
      <3>3. PICK old : old = req[p]
        OBVIOUS
      <3>4. RequestOK(old)'
        BY <3>2, <3>3, RequestStays DEF Moves
      <3> QED
        BY <3>1, <3>3, <3>4 DEF RequestOK, Passed, KnowsGood, ServedOK, CopyOK, KeptOK, Renewable
    <2> QED
      BY <2>1, <2>2
  <1>4. Tables'
    BY DEF Tables, EntriesOK, StoredOK, CopyOK, KeptOK, Renewable
  <1> QED
    BY <1>2, <1>3, <1>4 DEF SessionsInv, EntriesOK

LEMMA EntriesStay ==
    ASSUME SessionsInv, SessionsAssumption, Onward, UNCHANGED entries
    PROVE  EntriesOK
  <1>1. ASSUME NEW x \in Tokens, entries'[x] # None PROVE CopyOK(x, entries[x])'
    <2>1. PICK s : s = entries[x]
      OBVIOUS
    <2>2. CopyOK(x, s)'
      BY <1>1, <2>1, CopyStays DEF SessionsInv, Tables
    <2> QED
      BY <2>1, <2>2 DEF CopyOK
  <1> QED
    BY <1>1 DEF SessionsInv, Shapes, EntriesOK, SessionCapHeld

LEMMA EntriesFewer ==
    ASSUME SessionsInv, SessionsAssumption, Onward,
           entries' \in [Tokens -> Copy \cup {None}],
           \A x \in Tokens : entries'[x] \in {entries[x], None}
    PROVE  EntriesOK
  <1>1. ASSUME NEW x \in Tokens, entries'[x] # None PROVE CopyOK(x, entries[x])'
    <2>1. PICK s : s = entries[x] /\ s = entries'[x] /\ s # None
      BY <1>1
    <2>2. CopyOK(x, s)'
      BY <2>1, CopyStays DEF SessionsInv, Tables
    <2> QED
      BY <2>1, <2>2 DEF CopyOK, Renewable
  <1>2. SessionCapHeld'
    <2> DEFINE old == {x \in Tokens : entries[x] # None}
               new == {x \in Tokens : entries'[x] # None}
    <2>1. new \subseteq old /\ old \subseteq Tokens
      OBVIOUS
    <2>2. Cardinality(old) <= MaxSessions /\ MaxSessions \in Nat
      BY DEF SessionsInv, SessionCapHeld, SessionsAssumption
    <2> HIDE DEF old, new
    <2>3. IsFiniteSet(old) /\ Cardinality(old) \in Nat /\ Cardinality(new) \in Nat
          /\ Cardinality(new) <= Cardinality(old)
      <3>1. IsFiniteSet(old) /\ IsFiniteSet(new)
        BY <2>1, FS_Subset DEF SessionsAssumption
      <3> QED
        BY <2>1, <3>1, FS_Subset, FS_CardinalityType
    <2>4. Cardinality(new) <= MaxSessions
      BY <2>2, <2>3
    <2> QED
      BY <2>4 DEF SessionCapHeld, new
  <1> QED
    BY <1>1, <1>2 DEF EntriesOK

LEMMA EntryDropped ==
    ASSUME SessionsInv, SessionsAssumption, Onward, NEW x \in Tokens, entries' = Drop(entries, x)
    PROVE  EntriesOK
  <1>1. /\ entries' \in [Tokens -> Copy \cup {None}]
        /\ \A y \in Tokens : entries'[y] \in {entries[y], None}
    BY DEF Drop, SessionsInv, Shapes
  <1> QED
    BY <1>1, EntriesFewer

\* A session of the map is replaced by another of the same token.
LEMMA EntryReplaced ==
    ASSUME SessionsInv, SessionsAssumption, Onward, NEW x \in Tokens, entries[x] # None,
           NEW s \in Copy, entries' = [entries EXCEPT ![x] = s], CopyOK(x, s)'
    PROVE  EntriesOK
  <1>1. /\ entries' \in [Tokens -> Copy \cup {None}] /\ entries'[x] = s
        /\ \A y \in Tokens : y # x => entries'[y] = entries[y]
    BY DEF SessionsInv, Shapes
  <1>2. ASSUME NEW y \in Tokens, entries'[y] # None PROVE CopyOK(y, entries[y])'
    <2>1. CASE y = x
      BY <1>1, <2>1 DEF CopyOK, Renewable
    <2>2. CASE y # x
      <3>1. PICK c : c = entries[y] /\ c = entries'[y] /\ c # None
        BY <1>1, <1>2, <2>2
      <3>2. CopyOK(y, c)'
        BY <3>1, CopyStays DEF SessionsInv, Tables
      <3> QED
        BY <3>1, <3>2 DEF CopyOK, Renewable
    <2> QED
      BY <2>1, <2>2
  <1>3. SessionCapHeld'
    <2> DEFINE old == {y \in Tokens : entries[y] # None}
               new == {y \in Tokens : entries'[y] # None}
    <2>1. new \subseteq old /\ old \subseteq Tokens
      BY <1>1
    <2>2. Cardinality(old) <= MaxSessions /\ MaxSessions \in Nat
      BY DEF SessionsInv, SessionCapHeld, SessionsAssumption
    <2> HIDE DEF old, new
    <2>3. IsFiniteSet(old) /\ IsFiniteSet(new)
      BY <2>1, FS_Subset DEF SessionsAssumption
    <2>4. Cardinality(new) <= MaxSessions
      BY <2>1, <2>2, <2>3, FS_Subset, FS_CardinalityType
    <2> QED
      BY <2>4 DEF SessionCapHeld, new
  <1> QED
    BY <1>1, <1>2, <1>3 DEF EntriesOK

(* What createWithOptions and put leave is within the cap.                  *)
LEMMA EntryPut ==
    ASSUME SessionsInv, SessionsAssumption, Onward, NEW x \in Tokens,
           NEW s \in Copy, Put(x, s), CopyOK(x, s)'
    PROVE  EntriesOK
  <1>1. PICK kept \in SUBSET Tokens :
            /\ Survivors(kept)
            /\ entries' = [y \in Tokens |-> IF y = x THEN s
                                            ELSE IF y \in kept THEN entries[y] ELSE None]
    BY DEF Put
  <1>2. /\ entries' \in [Tokens -> Copy \cup {None}] /\ entries'[x] = s
        /\ \A y \in Tokens : y # x => entries'[y] \in {entries[y], None}
        /\ \A y \in Tokens : entries'[y] # None => y = x \/ y \in kept
    BY <1>1 DEF SessionsInv, Shapes
  <1>3. ASSUME NEW y \in Tokens, entries'[y] # None PROVE CopyOK(y, entries[y])'
    <2>1. CASE y = x
      BY <1>2, <2>1 DEF CopyOK, Renewable
    <2>2. CASE y # x
      <3>1. PICK c : c = entries[y] /\ c = entries'[y] /\ c # None
        BY <1>2, <1>3, <2>2
      <3>2. CopyOK(y, c)'
        BY <3>1, CopyStays DEF SessionsInv, Tables
      <3> QED
        BY <3>1, <3>2 DEF CopyOK, Renewable
    <2> QED
      BY <2>1, <2>2
  <1>4. SessionCapHeld'
    <2> DEFINE new == {y \in Tokens : entries'[y] # None}
    <2>1. new \subseteq kept \cup {x}
      BY <1>2
    <2>2. IsFiniteSet(kept) /\ IsFiniteSet(Unexpired)
          /\ Cardinality(kept) \in Nat /\ Cardinality(Unexpired) \in Nat
      <3>1. Unexpired \subseteq Tokens /\ kept \subseteq Tokens
        BY DEF Unexpired
      <3>2. IsFiniteSet(kept) /\ IsFiniteSet(Unexpired)
        BY <3>1, FS_Subset DEF SessionsAssumption
      <3> QED
        BY <3>2, FS_CardinalityType
    <2>3. Cardinality(kept) <= MaxSessions - 1 /\ MaxSessions \in Nat
      BY <1>1, <2>2 DEF Survivors, Room, SessionsAssumption
    <2>4. /\ IsFiniteSet(kept \cup {x})
          /\ Cardinality(kept \cup {x}) =
               IF x \in kept THEN Cardinality(kept) ELSE Cardinality(kept) + 1
      BY <2>2, FS_AddElement
    <2> HIDE DEF new
    <2>5. IsFiniteSet(new) /\ Cardinality(new) <= Cardinality(kept \cup {x})
          /\ Cardinality(new) \in Nat
      <3>1. IsFiniteSet(new) /\ Cardinality(new) <= Cardinality(kept \cup {x})
        BY <2>1, <2>4, FS_Subset
      <3> QED
        BY <3>1, FS_CardinalityType
    <2>6. Cardinality(new) <= MaxSessions
      BY <2>2, <2>3, <2>4, <2>5
    <2> QED
      BY <2>6 DEF SessionCapHeld, new
  <1> QED
    BY <1>2, <1>3, <1>4 DEF EntriesOK

LEMMA StoredFewer ==
    ASSUME SessionsInv, SessionsAssumption, Onward,
           stored' \in [Tokens -> Kept \cup {None}],
           \A x \in Tokens : stored'[x] \in {stored[x], None}
    PROVE  StoredOK
  <1>1. ASSUME NEW x \in Tokens, stored'[x] # None PROVE KeptOK(x, stored[x])'
    <2>1. PICK k : k = stored[x] /\ k = stored'[x] /\ k # None
      BY <1>1
    <2>2. KeptOK(x, k)'
      BY <2>1, KeptStays DEF SessionsInv, Tables
    <2> QED
      BY <2>1, <2>2 DEF KeptOK, Renewable
  <1> QED
    BY <1>1 DEF StoredOK

LEMMA StoredStay ==
    ASSUME SessionsInv, SessionsAssumption, Onward, UNCHANGED stored
    PROVE  StoredOK
  <1>1. stored' \in [Tokens -> Kept \cup {None}] /\ \A x \in Tokens : stored'[x] \in {stored[x], None}
    BY DEF SessionsInv, Shapes
  <1> QED
    BY <1>1, StoredFewer

LEMMA StoredDropped ==
    ASSUME SessionsInv, SessionsAssumption, Onward, NEW x \in Tokens, stored' = Drop(stored, x)
    PROVE  StoredOK
  <1>1. stored' \in [Tokens -> Kept \cup {None}] /\ \A y \in Tokens : stored'[y] \in {stored[y], None}
    BY DEF Drop, SessionsInv, Shapes
  <1> QED
    BY <1>1, StoredFewer

LEMMA StoredPut ==
    ASSUME SessionsInv, SessionsAssumption, Onward, NEW x \in Tokens,
           NEW k \in Kept, stored' = [stored EXCEPT ![x] = k], KeptOK(x, k)'
    PROVE  StoredOK
  <1>1. /\ stored' \in [Tokens -> Kept \cup {None}] /\ stored'[x] = k
        /\ \A y \in Tokens : y # x => stored'[y] = stored[y]
    BY DEF SessionsInv, Shapes
  <1>2. ASSUME NEW y \in Tokens, stored'[y] # None PROVE KeptOK(y, stored[y])'
    <2>1. CASE y = x
      BY <1>1, <2>1 DEF KeptOK, Renewable
    <2>2. CASE y # x
      <3>1. PICK c : c = stored[y] /\ c = stored'[y] /\ c # None
        BY <1>1, <1>2, <2>2
      <3>2. KeptOK(y, c)'
        BY <3>1, KeptStays DEF SessionsInv, Tables
      <3> QED
        BY <3>1, <3>2 DEF KeptOK, Renewable
    <2> QED
      BY <2>1, <2>2
  <1> QED
    BY <1>1, <1>2 DEF StoredOK

LEMMA StandStill ==
    ASSUME SessionsInv, UNCHANGED <<clock, granted>>
    PROVE  Onward
  BY DEF SessionsInv, Shapes, Onward, Renewable

-----------------------------------------------------------------------------
(* How a request gets to its next step.                                     *)

(* The request of r, which still runs.                                      *)
LEMMA Running ==
    ASSUME SessionsInv, NEW r \in Requests, req[r] # None
    PROVE  /\ RequestOK(req[r]) /\ req[r] \in Request /\ req[r].began \in Nat
           /\ req[r].at # "create" => req[r].token \in Tokens
  <1>1. RequestOK(req[r]) /\ req[r] \in Request
    BY DEF SessionsInv, RequestOK
  <1> QED
    BY <1>1 DEF RequestOK, Passed, Request

LEMMA Onto ==
    ASSUME SessionsInv, SessionsAssumption, NEW r \in Requests, req[r] # None, NEW q \in Request,
           req' = [req EXCEPT ![r] = q], Onward, UNCHANGED <<account, admin, saves>>,
           q.kind = req[r].kind, q.valid = req[r].valid, q.began = req[r].began,
           q.token \in Tokens, q.at # "create",
           q.kind = "login" => q.at \in LoginSteps,
           q.at \in {"save", "validate", "serve"} => CopyOK(q.token, q.sess)',
           q.at = "save" => q.sess.persistent,
           q.at \in {"restore", "touch", "put"} => KeptOK(q.token, q.record)',
           q.at \in {"restore", "touch", "put", "validate", "serve"} => q.began <= granted'[q.token],
           ServedOK(q)
    PROVE  Moves(r, q)
  <1>1. RequestOK(req[r]) /\ req[r].began \in Nat
    BY Running
  <1>2. req[r].began <= clock' /\ clock' \in Nat
    BY <1>1 DEF RequestOK, Passed, Onward, SessionsInv, Shapes
  <1>3. Passed(q)'
    BY <1>2 DEF Passed
  <1>4. KnowsGood(q)' /\ ServedOK(q)'
    BY <1>1 DEF RequestOK, KnowsGood, ServedOK
  <1> QED
    BY <1>3, <1>4 DEF Moves, RequestOK

LEMMA Returns ==
    ASSUME SessionsInv, NEW r \in Requests, Return(r), Onward, UNCHANGED <<account, admin, saves>>
    PROVE  Moves(r, None)
  BY DEF Return, Moves

(* A request p that changes only its step.                                  *)
LEMMA Goes ==
    ASSUME SessionsInv, SessionsAssumption, NEW r \in Requests, NEW p, req[r] = p, p # None,
           p.at # "create",
           NEW at \in Steps \ {"create"}, Goto(r, at), Onward, UNCHANGED <<account, admin, saves>>,
           p.kind = "login" => at \in LoginSteps,
           at \in {"save", "validate", "serve"} => CopyOK(p.token, p.sess)',
           at = "save" => p.sess.persistent,
           at \in {"restore", "touch", "put"} => KeptOK(p.token, p.record)',
           at \in {"restore", "touch", "put", "validate", "serve"} => p.began <= granted'[p.token],
           at = "serve" => <<p.sess.user, p.sess.version>> \in p.valid
    PROVE  \E q : Moves(r, q)
  <1>1. p \in Request /\ p.token \in Tokens
    BY Running
  <1> DEFINE q == [p EXCEPT !.at = at]
  <1>2. /\ q \in Request /\ q.at = at /\ q.kind = p.kind /\ q.token = p.token /\ q.record = p.record
        /\ q.sess = p.sess /\ q.valid = p.valid /\ q.began = p.began
    BY <1>1 DEF Request
  <1>3. req' = [req EXCEPT ![r] = q]
    BY <1>1 DEF Goto
  <1> HIDE DEF q
  <1>4. q.at \in {"save", "validate", "serve"} => CopyOK(q.token, q.sess)'
    BY <1>1, <1>2 DEF CopyOK, Renewable
  <1>5. q.at \in {"restore", "touch", "put"} => KeptOK(q.token, q.record)'
    BY <1>1, <1>2 DEF KeptOK, Renewable
  <1>6. ServedOK(q)
    BY <1>1, <1>2 DEF ServedOK
  <1> QED
    BY <1>1, <1>2, <1>3, <1>4, <1>5, <1>6, Onto

(* A request p that goes to a step at which nothing more is known of it.     *)
LEMMA GoesOn ==
    ASSUME SessionsInv, SessionsAssumption, NEW r \in Requests, req[r] # None,
           req[r].at \notin LoginSteps,
           NEW at \in {"lookup", "drop", "forget"}, Goto(r, at), Onward,
           UNCHANGED <<account, admin, saves>>
    PROVE  \E q : Moves(r, q)
  <1>1. PICK p : p = req[r]
    OBVIOUS
  <1>2. p.kind # "login" /\ p.at # "create"
    BY <1>1, Running DEF RequestOK, Passed, LoginSteps
  <1>3. at \in Steps \ {"create"}
    BY DEF Steps
  <1> QED
    BY <1>1, <1>2, <1>3, Goes

-----------------------------------------------------------------------------
(* The login.                                                               *)

LEMMA BeginLoginInv ==
    ASSUME SessionsInv, SessionsAssumption, NEW r \in Requests,
           NEW u \in Users, NEW remember \in BOOLEAN, BeginLogin(r, u, remember)
    PROVE  SessionsInv'
  <1> DEFINE q == [kind |-> "login", at |-> "create", token |-> None, record |-> None,
                   sess |-> [user |-> u, version |-> 0, expires |-> 0,
                             persistent |-> remember, armed |-> 0],
                   valid |-> {}, began |-> clock, revoked |-> FALSE]
  <1>1. /\ req' = [req EXCEPT ![r] = q] /\ Onward /\ clock \in Nat
        /\ UNCHANGED <<clock, account, entries, stored, admin, saves>>
    BY StandStill DEF BeginLogin, SessionsInv, Shapes
  <1>2. q.sess \in Copy /\ q.sess.armed = 0
    BY DEF Copy
  <1>3. q \in Request /\ q.kind = "login" /\ q.at = "create" /\ q.began = clock
    BY <1>1, <1>2 DEF Request, Steps, LoginSteps
  <1> HIDE DEF q
  <1>4. RequestOK(q)
    BY <1>1, <1>2, <1>3 DEF RequestOK, Passed, KnowsGood, ServedOK, LoginSteps
  <1>5. PICK w : w = q
    OBVIOUS
  <1>6. RequestOK(w)'
    BY <1>1, <1>4, <1>5, RequestStays
  <1>7. Moves(r, w)
    BY <1>1, <1>3, <1>5, <1>6 DEF Moves
  <1> QED
    BY <1>1, <1>7, EntriesStay, StoredStay, MovesInv

LEMMA CreateInv ==
    ASSUME SessionsInv, SessionsAssumption, NEW r \in Requests, Create(r)
    PROVE  SessionsInv'
  <1>1. PICK p : p = req[r] /\ p # None /\ p.at = "create"
    BY DEF Create, At
  <1>2. p \in Request /\ RequestOK(p) /\ p.kind = "login" /\ p.sess \in Copy /\ p.sess.armed = 0
    BY <1>1, Running DEF RequestOK, Passed
  <1> DEFINE ttl == IF p.sess.persistent THEN RememberTimeout ELSE SessionTimeout
             s == [p.sess EXCEPT !.version = account[p.sess.user].version, !.expires = clock + ttl]
  <1>3. PICK x \in Tokens :
            /\ granted[x] = None
            /\ Put(x, s)
            /\ granted' = [granted EXCEPT ![x] = clock + ttl]
            /\ IF s.persistent
               THEN req' = [req EXCEPT ![r].at = "save", ![r].token = x, ![r].sess = s]
               ELSE Return(r)
    BY <1>1 DEF Create
  <1>4. UNCHANGED <<clock, account, stored, admin, saves>>
    BY DEF Create
  <1>5. ttl \in Nat /\ clock \in Nat /\ account[p.sess.user].version \in Nat
    BY <1>2 DEF SessionsAssumption, SessionsInv, Shapes, Copy, Account
  <1>6. PICK ends : ends = clock + ttl /\ ends \in Nat
    BY <1>5
  <1>7. /\ s \in Copy /\ s.expires = ends /\ s.armed = 0 /\ s.persistent = p.sess.persistent
        /\ s.persistent => ends = clock + RememberTimeout
    BY <1>2, <1>5, <1>6 DEF Copy
  <1>8. granted' = [granted EXCEPT ![x] = ends] /\ granted'[x] = ends
    BY <1>3, <1>6 DEF SessionsInv, Shapes
  <1> HIDE DEF ttl, s
  <1>9. Onward
    <2>1. granted' \in [Tokens -> Nat \cup {None}]
      BY <1>6, <1>8 DEF SessionsInv, Shapes
    <2>2. ASSUME NEW y \in Tokens, granted[y] \in Nat PROVE granted'[y] = granted[y]
      <3>1. y # x
        BY <1>3, <2>2 DEF SessionsAssumption
      <3> QED
        BY <1>8, <3>1 DEF SessionsInv, Shapes
    <2> QED
      BY <1>4, <1>5, <2>1, <2>2 DEF Onward, Renewable
  <1>10. PICK c : c = s
    OBVIOUS
  <1>11. CopyOK(x, c)'
    BY <1>4, <1>5, <1>6, <1>7, <1>8, <1>10 DEF CopyOK, Renewable
  <1>12. EntriesOK
    BY <1>3, <1>7, <1>9, <1>10, <1>11, EntryPut
  <1>13. StoredOK
    BY <1>4, <1>9, StoredStay
  <1>14. CASE s.persistent
    <2> DEFINE q == [p EXCEPT !.at = "save", !.token = x, !.sess = c]
    <2>1. req' = [req EXCEPT ![r] = q]
      BY <1>1, <1>3, <1>10, <1>14
    <2>2. /\ q \in Request /\ q.at = "save" /\ q.token = x /\ q.sess = c /\ q.kind = "login"
          /\ q.valid = p.valid /\ q.began = p.began
      BY <1>2, <1>7, <1>10 DEF Request, Steps, LoginSteps
    <2> HIDE DEF q
    <2>3. PICK w : w = q
      OBVIOUS
    <2>4. Passed(w)'
      <3>1. p.began <= clock' /\ c.persistent
        BY <1>2, <1>4, <1>10, <1>14 DEF RequestOK, Passed
      <3> QED
        BY <1>11, <2>2, <2>3, <3>1 DEF Passed, LoginSteps, CopyOK, Renewable
    <2>5. RequestOK(w)'
      BY <2>2, <2>3, <2>4 DEF RequestOK, KnowsGood, ServedOK
    <2>6. Moves(r, w)
      BY <1>4, <1>9, <2>1, <2>2, <2>3, <2>5 DEF Moves
    <2> QED
      BY <1>12, <1>13, <2>6, MovesInv
  <1>15. CASE ~s.persistent
    BY <1>3, <1>4, <1>9, <1>12, <1>13, <1>15, Returns, MovesInv
  <1> QED
    BY <1>14, <1>15

LEMMA SaveInv ==
    ASSUME SessionsInv, SessionsAssumption, NEW r \in Requests, Save(r)
    PROVE  SessionsInv'
  <1>1. PICK p : p = req[r] /\ p # None /\ p.at = "save"
    BY DEF Save, At
  <1>2. p \in Request /\ p.token \in Tokens /\ CopyOK(p.token, p.sess) /\ p.sess.persistent
    BY <1>1, Running DEF RequestOK, Passed
  <1>3. Onward /\ UNCHANGED <<clock, account, admin, saves, granted>>
    BY StandStill DEF Save
  <1>4. PICK k : k = Record(p.sess)
    OBVIOUS
  <1>5. k \in Kept /\ KeptOK(p.token, k)
    BY <1>2, <1>4 DEF Record, CopyOK, KeptOK, Copy, Kept, SessionsInv, Shapes
  <1>6. StoredOK
    <2>1. KeptOK(p.token, k)'
      BY <1>2, <1>3, <1>5, KeptStays
    <2>2. stored' = [stored EXCEPT ![p.token] = k]
      BY <1>1, <1>4 DEF Save
    <2> QED
      BY <1>2, <1>3, <1>5, <2>1, <2>2, StoredPut
  <1>7. CASE Goto(r, "prune") /\ UNCHANGED entries
    <2>1. PICK at : at = "prune"
      OBVIOUS
    <2>2. at \in Steps \ {"create"} /\ at \in LoginSteps /\ Goto(r, at)
      BY <1>7, <2>1 DEF Steps, LoginSteps
    <2>3. at \notin {"save", "validate", "serve", "restore", "touch", "put"}
      BY <2>1
    <2>4. p.at # "create"
      BY <1>1
    <2>5. \E q : Moves(r, q)
      BY <1>1, <1>3, <2>2, <2>3, <2>4, Goes
    <2> QED
      BY <1>3, <1>6, <1>7, <2>5, EntriesStay, MovesInv
  <1>8. CASE /\ Return(r)
             /\ entries' = IF req[r].kind = "login" THEN Drop(entries, req[r].token) ELSE entries
    <2>1. EntriesOK
      BY <1>1, <1>2, <1>3, <1>8, EntriesStay, EntryDropped
    <2> QED
      BY <1>3, <1>6, <1>8, <2>1, Returns, MovesInv
  <1> QED
    BY <1>7, <1>8 DEF Save

LEMMA SavePruneInv ==
    ASSUME SessionsInv, SessionsAssumption, NEW r \in Requests, SavePrune(r)
    PROVE  SessionsInv'
  <1>1. Onward /\ Return(r) /\ UNCHANGED <<clock, account, admin, saves, granted>>
    BY StandStill DEF SavePrune
  <1>3. EntriesOK
    <2>1. CASE UNCHANGED entries
      BY <1>1, <2>1, EntriesStay
    <2>2. CASE entries' = Drop(entries, req[r].token)
      <3>1. req[r].token \in Tokens
        BY Running DEF SavePrune, At, RequestOK, Passed
      <3> QED
        BY <1>1, <2>2, <3>1, EntryDropped
    <2> QED
      BY <2>1, <2>2 DEF SavePrune
  <1>2. StoredOK
    <2>1. PICK kept \in SUBSET Tokens :
              stored' = [x \in Tokens |-> IF x \in kept THEN stored[x] ELSE None]
      BY DEF SavePrune
    <2>2. stored' \in [Tokens -> Kept \cup {None}]
          /\ \A x \in Tokens : stored'[x] \in {stored[x], None}
      BY <2>1 DEF SessionsInv, Shapes
    <2> QED
      BY <1>1, <2>2, StoredFewer
  <1> QED
    BY <1>1, <1>2, <1>3, Returns, MovesInv

-----------------------------------------------------------------------------
(* requireAuth.                                                             *)

LEMMA BeginRequestInv ==
    ASSUME SessionsInv, SessionsAssumption, NEW r \in Requests,
           NEW kind \in Kinds, NEW x \in Tokens, BeginRequest(r, kind, x)
    PROVE  SessionsInv'
  <1> DEFINE good == {<<u, account[u].version>> : u \in {v \in Users : ~account[v].disabled}}
             q == [kind |-> kind, at |-> "get", token |-> x, record |-> None, sess |-> None,
                   valid |-> good, began |-> clock, revoked |-> x \in loggedOut]
  <1>1. /\ req' = [req EXCEPT ![r] = q] /\ Onward /\ clock \in Nat
        /\ UNCHANGED <<clock, account, entries, stored, admin, saves>>
    BY StandStill DEF BeginRequest, SessionsInv, Shapes
  <1>2. good \in SUBSET (Users \X Nat)
    BY DEF SessionsInv, Shapes, Account
  <1>3. \A u \in Users : ~account[u].disabled => <<u, account[u].version>> \in good
    OBVIOUS
  <1>4. (x \in loggedOut) \in BOOLEAN /\ kind # "login"
    BY DEF SessionsAssumption
  <1> HIDE DEF good
  <1>5. q \in Request /\ q.kind = kind /\ q.at = "get" /\ q.began = clock /\ q.token = x /\ q.valid = good
    BY <1>1, <1>2, <1>4 DEF Request, Steps, LoginSteps
  <1> HIDE DEF q
  <1>6. RequestOK(q)
    BY <1>1, <1>3, <1>4, <1>5 DEF RequestOK, Passed, KnowsGood, ServedOK, LoginSteps
  <1>7. PICK w : w = q
    OBVIOUS
  <1>8. RequestOK(w)'
    BY <1>1, <1>6, <1>7, RequestStays
  <1>9. Moves(r, w)
    BY <1>1, <1>5, <1>7, <1>8 DEF Moves
  <1> QED
    BY <1>1, <1>9, EntriesStay, StoredStay, MovesInv

LEMMA GetInv ==
    ASSUME SessionsInv, SessionsAssumption, NEW r \in Requests, Get(r)
    PROVE  SessionsInv'
  <1>1. PICK p : p = req[r] /\ p # None /\ p.at = "get"
    BY DEF Get, At
  <1>2. p \in Request /\ RequestOK(p) /\ p.token \in Tokens /\ p.kind # "login"
        /\ p.began \in Nat /\ p.began <= clock /\ clock \in Nat
    BY <1>1, Running DEF RequestOK, Passed, LoginSteps, SessionsInv, Shapes
  <1>3. Onward /\ UNCHANGED <<clock, account, admin, saves, granted, stored>>
    BY StandStill DEF Get
  <1> DEFINE x == p.token
  <1>4. StoredOK
    BY <1>3, StoredStay
  <1>5. CASE /\ entries[x] # None
             /\ ~Expired(entries[x].expires)
             /\ entries' = [entries EXCEPT ![x].armed = IF @ <= clock THEN 0 ELSE @]
             /\ req' = [req EXCEPT ![r].sess = entries'[x], ![r].at = "validate"]
    <2>1. PICK e : e = entries[x] /\ e \in Copy /\ CopyOK(x, e)
      BY <1>2, <1>5 DEF SessionsInv, Tables, CopyOK
    <2> DEFINE armed == IF e.armed <= clock THEN 0 ELSE e.armed
    <2>2. PICK s : s = [e EXCEPT !.armed = armed]
      OBVIOUS
    <2>3. /\ s \in Copy /\ s.user = e.user /\ s.version = e.version /\ s.expires = e.expires
          /\ s.persistent = e.persistent /\ s.armed \in {0, e.armed}
      BY <2>1, <2>2 DEF Copy
    <2>4. entries' = [entries EXCEPT ![x] = s] /\ entries'[x] = s
      BY <1>2, <1>5, <2>1, <2>2 DEF SessionsInv, Shapes
    <2> HIDE DEF armed
    <2>5. CopyOK(x, s)
      BY <2>1, <2>3 DEF CopyOK, Copy
    <2>6. CopyOK(x, s)'
      BY <1>2, <1>3, <2>5, CopyStays
    <2>7. EntriesOK
      BY <1>2, <1>3, <1>5, <2>3, <2>4, <2>6, EntryReplaced
    <2> DEFINE q == [p EXCEPT !.sess = s, !.at = "validate"]
    <2>8. req' = [req EXCEPT ![r] = q]
      BY <1>1, <1>5, <2>4
    <2>9. /\ q \in Request /\ q.kind = p.kind /\ q.at = "validate" /\ q.token = x /\ q.sess = s
          /\ q.valid = p.valid /\ q.began = p.began
      BY <1>2, <2>3 DEF Request, Steps
    <2> HIDE DEF q
    <2>10. p.began <= granted'[x]
      <3>1. clock <= e.expires /\ e.expires <= granted[x] /\ e.expires \in Nat /\ granted[x] \in Nat
        BY <1>2, <1>5, <2>1 DEF Expired, CopyOK, Copy
      <3> QED
        BY <1>2, <1>3, <3>1
    <2>11. CopyOK(q.token, q.sess)'
      BY <2>6, <2>9 DEF CopyOK, Renewable
    <2>12. Moves(r, q)
      BY <1>1, <1>2, <1>3, <2>8, <2>9, <2>10, <2>11, Onto DEF ServedOK
    <2> QED
      BY <1>4, <2>7, <2>12, MovesInv
  <1>6. CASE entries' = Drop(entries, x) /\ Goto(r, "lookup")
    <2>1. EntriesOK
      BY <1>2, <1>3, <1>6, EntryDropped
    <2>2. \E q : Moves(r, q)
      BY <1>1, <1>3, <1>6, GoesOn DEF LoginSteps
    <2> QED
      BY <1>4, <2>1, <2>2, MovesInv
  <1> QED
    BY <1>1, <1>5, <1>6 DEF Get

LEMMA LookupInv ==
    ASSUME SessionsInv, SessionsAssumption, NEW r \in Requests, Lookup(r)
    PROVE  SessionsInv'
  <1>1. PICK p : p = req[r] /\ p # None /\ p.at = "lookup"
    BY DEF Lookup, At
  <1>2. p \in Request /\ RequestOK(p) /\ p.token \in Tokens /\ p.kind # "login"
        /\ p.began \in Nat /\ p.began <= clock /\ clock \in Nat
    BY <1>1, Running DEF RequestOK, Passed, LoginSteps, SessionsInv, Shapes
  <1>3. Onward /\ UNCHANGED <<clock, account, admin, saves, granted, stored, entries>>
    BY StandStill DEF Lookup
  <1>4. EntriesOK /\ StoredOK
    BY <1>3, EntriesStay, StoredStay
  <1>5. PICK k : k = stored[p.token]
    OBVIOUS
  <1>6. CASE Return(r)
    BY <1>3, <1>4, <1>6, Returns, MovesInv
  <1>7. CASE Goto(r, "drop")
    <2>1. \E q : Moves(r, q)
      BY <1>1, <1>3, <1>7, GoesOn DEF LoginSteps
    <2> QED
      BY <1>4, <2>1, MovesInv
  <1>8. CASE /\ k # None /\ ~RecordExpired(k)
             /\ req' = [req EXCEPT ![r].record = k, ![r].at = "restore"]
    <2>1. k \in Kept /\ KeptOK(p.token, k)
      BY <1>2, <1>5, <1>8 DEF SessionsInv, Tables, KeptOK
    <2>2. KeptOK(p.token, k)'
      BY <1>2, <1>3, <2>1, KeptStays
    <2> DEFINE q == [p EXCEPT !.record = k, !.at = "restore"]
    <2>3. req' = [req EXCEPT ![r] = q]
      BY <1>1, <1>8
    <2>4. /\ q \in Request /\ q.kind = p.kind /\ q.at = "restore" /\ q.token = p.token /\ q.record = k
          /\ q.valid = p.valid /\ q.began = p.began
      BY <1>2, <2>1 DEF Request, Steps
    <2> HIDE DEF q
    <2>5. p.began <= granted'[p.token]
      <3>1. clock <= k.expires /\ k.expires <= granted[p.token] /\ k.expires \in Nat
            /\ granted[p.token] \in Nat
        BY <1>2, <1>8, <2>1 DEF RecordExpired, Expired, KeptOK, Kept
      <3> QED
        BY <1>2, <1>3, <3>1
    <2>6. KeptOK(q.token, q.record)'
      BY <2>2, <2>4 DEF KeptOK, Renewable
    <2>7. Moves(r, q)
      BY <1>1, <1>2, <1>3, <2>3, <2>4, <2>5, <2>6, Onto DEF ServedOK
    <2> QED
      BY <1>4, <2>7, MovesInv
  <1> QED
    BY <1>1, <1>5, <1>6, <1>7, <1>8 DEF Lookup

LEMMA RestoreInv ==
    ASSUME SessionsInv, SessionsAssumption, NEW r \in Requests, Restore(r)
    PROVE  SessionsInv'
  <1>1. PICK p : p = req[r] /\ p # None /\ p.at = "restore"
    BY DEF Restore, At
  <1>2. p \in Request /\ RequestOK(p) /\ p.token \in Tokens /\ p.kind # "login"
        /\ KeptOK(p.token, p.record) /\ p.began <= granted[p.token]
    BY <1>1, Running DEF RequestOK, Passed, LoginSteps
  <1>3. Onward /\ UNCHANGED <<clock, account, admin, saves, granted, stored, entries>>
    BY StandStill DEF Restore
  <1>4. EntriesOK /\ StoredOK
    BY <1>3, EntriesStay, StoredStay
  <1>5. CASE Goto(r, "drop")
    <2>1. \E q : Moves(r, q)
      BY <1>1, <1>3, <1>5, GoesOn DEF LoginSteps
    <2> QED
      BY <1>4, <2>1, MovesInv
  <1>6. CASE Goto(r, "touch")
    <2>1. KeptOK(p.token, p.record)'
      BY <1>2, <1>3, KeptStays
    <2>2. PICK at : at = "touch"
      OBVIOUS
    <2>3. at \in Steps \ {"create"} /\ Goto(r, at) /\ at \notin {"save", "validate", "serve"}
      BY <1>6, <2>2 DEF Steps
    <2>4. p.began <= granted'[p.token] /\ p.at # "create"
      BY <1>1, <1>2, <1>3
    <2>5. \E q : Moves(r, q)
      BY <1>1, <1>2, <1>3, <2>1, <2>3, <2>4, Goes
    <2> QED
      BY <1>4, <2>5, MovesInv
  <1> QED
    BY <1>5, <1>6 DEF Restore

LEMMA TouchInv ==
    ASSUME SessionsInv, SessionsAssumption, NEW r \in Requests, Touch(r)
    PROVE  SessionsInv'
  <1>1. PICK p : p = req[r] /\ p # None /\ p.at = "touch"
    BY DEF Touch, At
  <1>2. p \in Request /\ RequestOK(p) /\ p.token \in Tokens /\ p.kind # "login"
        /\ KeptOK(p.token, p.record) /\ p.began <= granted[p.token] /\ clock \in Nat
    BY <1>1, Running DEF RequestOK, Passed, LoginSteps, SessionsInv, Shapes
  <1>3. Onward /\ UNCHANGED <<clock, account, admin, saves, granted, entries>> /\ Goto(r, "put")
    BY StandStill DEF Touch
  <1>4. EntriesOK
    BY <1>3, EntriesStay
  <1>5. PICK k : k = [p.record EXCEPT !.seen = clock]
    OBVIOUS
  <1>6. k \in Kept /\ KeptOK(p.token, k)
    <2>1. p.record \in Kept
      BY <1>2 DEF KeptOK
    <2>2. k \in Kept /\ k.expires = p.record.expires
      BY <1>2, <1>5, <2>1 DEF Kept
    <2> QED
      BY <1>2, <2>2 DEF KeptOK
  <1>7. StoredOK
    <2>1. KeptOK(p.token, k)'
      BY <1>2, <1>3, <1>6, KeptStays
    <2>2. stored' = [stored EXCEPT ![p.token] = k]
      BY <1>1, <1>5 DEF Touch
    <2> QED
      BY <1>2, <1>3, <1>6, <2>1, <2>2, StoredPut
  <1>8. \E q : Moves(r, q)
    <2>1. KeptOK(p.token, p.record)'
      BY <1>2, <1>3, KeptStays
    <2>2. PICK at : at = "put"
      OBVIOUS
    <2>3. at \in Steps \ {"create"} /\ Goto(r, at) /\ at \notin {"save", "validate", "serve"}
      BY <1>3, <2>2 DEF Steps
    <2>4. p.began <= granted'[p.token] /\ p.at # "create"
      BY <1>1, <1>2, <1>3
    <2> QED
      BY <1>1, <1>2, <1>3, <2>1, <2>3, <2>4, Goes
  <1> QED
    BY <1>4, <1>7, <1>8, MovesInv

LEMMA PutRestoredInv ==
    ASSUME SessionsInv, SessionsAssumption, NEW r \in Requests, PutRestored(r)
    PROVE  SessionsInv'
  <1>1. PICK p : p = req[r] /\ p # None /\ p.at = "put"
    BY DEF PutRestored, At
  <1>2. p \in Request /\ RequestOK(p) /\ p.token \in Tokens /\ p.kind # "login"
        /\ KeptOK(p.token, p.record) /\ p.began <= granted[p.token]
    BY <1>1, Running DEF RequestOK, Passed, LoginSteps
  <1>3. Onward /\ UNCHANGED <<clock, account, admin, saves, granted, stored>>
    BY StandStill DEF PutRestored
  <1>4. StoredOK
    BY <1>3, StoredStay
  <1>5. PICK s : s = [user |-> p.record.user, version |-> p.record.version,
                      expires |-> p.record.expires, persistent |-> TRUE, armed |-> 0]
    OBVIOUS
  <1>6. s \in Copy /\ CopyOK(p.token, s)
    <2>1. p.record \in Kept
      BY <1>2 DEF KeptOK
    <2>2. s \in Copy /\ s.expires = p.record.expires /\ s.armed = 0
      BY <1>5, <2>1 DEF Copy, Kept
    <2>3. s.expires \in Nat
      BY <2>2 DEF Copy
    <2> QED
      BY <1>2, <2>2, <2>3 DEF KeptOK, CopyOK
  <1>7. CopyOK(p.token, s)'
    BY <1>2, <1>3, <1>6, CopyStays
  <1>8. /\ Put(p.token, s)
        /\ req' = [req EXCEPT ![r].sess = s, ![r].at = "validate"]
    BY <1>1, <1>5 DEF PutRestored
  <1>9. EntriesOK
    BY <1>2, <1>3, <1>6, <1>7, <1>8, EntryPut
  <1> DEFINE q == [p EXCEPT !.sess = s, !.at = "validate"]
  <1>10. req' = [req EXCEPT ![r] = q]
    BY <1>1, <1>8
  <1>11. /\ q \in Request /\ q.kind = p.kind /\ q.at = "validate" /\ q.token = p.token /\ q.sess = s
         /\ q.valid = p.valid /\ q.began = p.began
    BY <1>2, <1>6 DEF Request, Steps
  <1> HIDE DEF q
  <1>12. CopyOK(q.token, q.sess)'
    BY <1>7, <1>11 DEF CopyOK, Renewable
  <1>13. Moves(r, q)
    BY <1>1, <1>2, <1>3, <1>10, <1>11, <1>12, Onto DEF ServedOK
  <1> QED
    BY <1>4, <1>9, <1>13, MovesInv

LEMMA ValidateInv ==
    ASSUME SessionsInv, SessionsAssumption, NEW r \in Requests, Validate(r)
    PROVE  SessionsInv'
  <1>1. PICK p : p = req[r] /\ p # None /\ p.at = "validate"
    BY DEF Validate, At
  <1>2. p \in Request /\ RequestOK(p) /\ p.token \in Tokens /\ p.kind # "login"
        /\ CopyOK(p.token, p.sess) /\ p.began <= granted[p.token]
    BY <1>1, Running DEF RequestOK, Passed, LoginSteps
  <1>3. Onward /\ UNCHANGED <<clock, account, admin, saves, granted, stored>>
    BY StandStill DEF Validate
  <1>4. StoredOK
    BY <1>3, StoredStay
  <1>5. CASE Valid(p.sess.user, p.sess.version) /\ Goto(r, "serve") /\ UNCHANGED entries
    <2>1. CopyOK(p.token, p.sess)'
      BY <1>2, <1>3, CopyStays
    <2>2. <<p.sess.user, p.sess.version>> \in p.valid
      BY <1>2, <1>5 DEF RequestOK, KnowsGood, Valid, CopyOK, Copy
    <2>3. PICK at : at = "serve"
      OBVIOUS
    <2>4. at \in Steps \ {"create"} /\ Goto(r, at) /\ at # "save" /\ at \notin {"restore", "touch", "put"}
      BY <1>5, <2>3 DEF Steps
    <2>5. p.began <= granted'[p.token] /\ p.at # "create"
      BY <1>1, <1>2, <1>3
    <2>6. \E q : Moves(r, q)
      BY <1>1, <1>2, <1>3, <2>1, <2>2, <2>4, <2>5, Goes
    <2> QED
      BY <1>3, <1>4, <1>5, <2>6, EntriesStay, MovesInv
  <1>6. CASE /\ entries' = Drop(entries, p.token)
             /\ Goto(r, "drop") \/ Return(r)
    <2>1. EntriesOK
      BY <1>2, <1>3, <1>6, EntryDropped
    <2>2. \E q : Moves(r, q)
      BY <1>1, <1>3, <1>6, GoesOn, Returns DEF LoginSteps
    <2> QED
      BY <1>4, <2>1, <2>2, MovesInv
  <1> QED
    BY <1>1, <1>5, <1>6 DEF Validate

LEMMA DropStoredInv ==
    ASSUME SessionsInv, SessionsAssumption, NEW r \in Requests, DropStored(r)
    PROVE  SessionsInv'
  <1>1. PICK p : p = req[r] /\ p # None /\ p.at = "drop"
    BY DEF DropStored, At
  <1>2. p.token \in Tokens
    BY <1>1, Running
  <1>3. Onward /\ UNCHANGED <<clock, account, admin, saves, granted, entries>> /\ Return(r)
    BY StandStill DEF DropStored
  <1>4. StoredOK
    BY <1>1, <1>2, <1>3, StoredDropped DEF DropStored
  <1> QED
    BY <1>3, <1>4, EntriesStay, Returns, MovesInv

-----------------------------------------------------------------------------
(* The handlers.                                                            *)

LEMMA ReadInv ==
    ASSUME SessionsInv, SessionsAssumption, NEW r \in Requests, Read(r)
    PROVE  SessionsInv'
  <1>1. Onward /\ UNCHANGED <<account, admin, saves, entries, stored>> /\ Return(r)
    BY StandStill DEF Read
  <1> QED
    BY <1>1, EntriesStay, StoredStay, Returns, MovesInv

LEMMA RenewInv ==
    ASSUME SessionsInv, SessionsAssumption, NEW r \in Requests, Renew(r)
    PROVE  SessionsInv'
  <1>1. PICK p : p = req[r] /\ p # None /\ p.at = "serve" /\ p.kind = "me" /\ p.sess.persistent
    BY DEF Renew, At
  <1>2. p \in Request /\ RequestOK(p) /\ p.token \in Tokens /\ CopyOK(p.token, p.sess)
        /\ clock \in Nat /\ RememberTimeout \in Nat
    BY <1>1, Running DEF RequestOK, Passed, SessionsInv, Shapes, SessionsAssumption
  <1> DEFINE x == p.token
  <1>3. PICK ends : ends = clock + RememberTimeout /\ ends \in Nat
    BY <1>2
  <1>4. PICK s : s = [p.sess EXCEPT !.expires = ends]
    OBVIOUS
  <1>5. /\ s \in Copy /\ s.expires = ends /\ s.armed = p.sess.armed /\ s.persistent
        /\ s.armed <= ends /\ granted[x] \in Nat /\ granted[x] <= ends
    BY <1>1, <1>2, <1>3, <1>4 DEF CopyOK, Copy, Renewable
  <1>6. /\ Put(x, s)
        /\ req' = [req EXCEPT ![r].sess = s, ![r].at = "save"]
        /\ granted' = [granted EXCEPT ![x] = ends]
        /\ UNCHANGED <<clock, account, stored, admin, saves>>
    BY <1>1, <1>3, <1>4 DEF Renew
  <1>7. granted'[x] = ends /\ granted' \in [Tokens -> Nat \cup {None}]
        /\ \A y \in Tokens : y # x => granted'[y] = granted[y]
    BY <1>2, <1>3, <1>6 DEF SessionsInv, Shapes
  <1>8. Onward
    BY <1>2, <1>3, <1>5, <1>6, <1>7 DEF Onward, Renewable
  <1>9. CopyOK(x, s)'
    BY <1>3, <1>5, <1>6, <1>7 DEF CopyOK, Renewable
  <1>10. EntriesOK /\ StoredOK
    BY <1>2, <1>5, <1>6, <1>8, <1>9, EntryPut, StoredStay
  <1> DEFINE q == [p EXCEPT !.sess = s, !.at = "save"]
  <1>11. req' = [req EXCEPT ![r] = q]
    BY <1>1, <1>6
  <1>12. /\ q \in Request /\ q.kind = p.kind /\ q.at = "save" /\ q.token = x /\ q.sess = s
         /\ q.valid = p.valid /\ q.began = p.began
    BY <1>2, <1>5 DEF Request, Steps, LoginSteps
  <1> HIDE DEF q
  <1>13. CopyOK(q.token, q.sess)'
    BY <1>9, <1>12 DEF CopyOK, Renewable
  <1>14. Moves(r, q)
    BY <1>1, <1>2, <1>5, <1>6, <1>8, <1>11, <1>12, <1>13, Onto DEF ServedOK, LoginSteps
  <1> QED
    BY <1>10, <1>14, MovesInv

LEMMA LogoutInv ==
    ASSUME SessionsInv, SessionsAssumption, NEW r \in Requests, Logout(r)
    PROVE  SessionsInv'
  <1>1. PICK p : p = req[r] /\ p # None /\ p.at = "serve"
    BY DEF Logout, At
  <1>2. p.token \in Tokens /\ p.at \notin LoginSteps
    BY <1>1, Running DEF LoginSteps
  <1>3. Onward /\ UNCHANGED <<account, admin, saves, stored>> /\ Goto(r, "forget")
    BY StandStill DEF Logout
  <1>4. EntriesOK /\ StoredOK
    BY <1>1, <1>2, <1>3, EntryDropped, StoredStay DEF Logout
  <1>5. \E q : Moves(r, q)
    BY <1>1, <1>2, <1>3, GoesOn
  <1> QED
    BY <1>4, <1>5, MovesInv

LEMMA LogoutStoredInv ==
    ASSUME SessionsInv, SessionsAssumption, NEW r \in Requests, LogoutStored(r)
    PROVE  SessionsInv'
  <1>1. PICK p : p = req[r] /\ p # None /\ p.at = "forget"
    BY DEF LogoutStored, At
  <1>2. p.token \in Tokens
    BY <1>1, Running
  <1>3. Onward /\ UNCHANGED <<account, admin, saves, entries>> /\ Return(r)
    BY StandStill DEF LogoutStored
  <1>4. EntriesOK /\ StoredOK
    BY <1>1, <1>2, <1>3, EntriesStay, StoredDropped DEF LogoutStored
  <1> QED
    BY <1>3, <1>4, Returns, MovesInv

LEMMA ArmInv ==
    ASSUME SessionsInv, SessionsAssumption, NEW r \in Requests, Arm(r)
    PROVE  SessionsInv'
  <1>1. PICK p : p = req[r] /\ p # None /\ p.at = "serve"
    BY DEF Arm, At
  <1>2. p.token \in Tokens /\ clock \in Nat /\ ArmDuration \in Nat
    BY <1>1, Running DEF SessionsInv, Shapes, SessionsAssumption
  <1>3. Onward /\ UNCHANGED <<clock, account, admin, saves, stored, granted>> /\ Return(r)
    BY StandStill DEF Arm
  <1> DEFINE x == p.token
  <1>4. CASE /\ entries[x] # None
             /\ \E until \in {0, ArmedUntil(entries[x].expires)} :
                    entries' = [entries EXCEPT ![x].armed = until]
    <2>1. PICK e : e = entries[x] /\ e \in Copy /\ CopyOK(x, e)
      BY <1>2, <1>4 DEF SessionsInv, Tables, CopyOK
    <2>2. PICK until \in {0, ArmedUntil(e.expires)} :
              entries' = [entries EXCEPT ![x].armed = until]
      BY <1>4, <2>1
    <2>3. e.expires \in Nat
      BY <2>1 DEF Copy
    <2>4. until \in Nat /\ until <= e.expires
      BY <1>2, <2>2, <2>3 DEF ArmedUntil
    <2>5. PICK s : s = [e EXCEPT !.armed = until]
      OBVIOUS
    <2>6. s \in Copy /\ s.expires = e.expires /\ s.armed = until /\ s.persistent = e.persistent
      BY <2>1, <2>4, <2>5 DEF Copy
    <2>7. entries' = [entries EXCEPT ![x] = s]
      BY <2>1, <2>2, <2>5
    <2>8. CopyOK(x, s)
      BY <2>1, <2>4, <2>6 DEF CopyOK
    <2>9. CopyOK(x, s)'
      BY <1>2, <1>3, <2>8, CopyStays
    <2>10. EntriesOK
      BY <1>2, <1>3, <1>4, <2>6, <2>7, <2>9, EntryReplaced
    <2> QED
      BY <1>3, <2>10, StoredStay, Returns, MovesInv
  <1>5. CASE entries' = Drop(entries, x)
    BY <1>2, <1>3, <1>5, EntryDropped, StoredStay, Returns, MovesInv
  <1> QED
    BY <1>1, <1>4, <1>5 DEF Arm

-----------------------------------------------------------------------------
(* The accounts, the clock and the process.                                 *)

LEMMA SaveReadInv ==
    ASSUME SessionsInv, SessionsAssumption, NEW a \in Admins, NEW u \in Users, SaveRead(a, u)
    PROVE  SessionsInv'
  <1>1. UNCHANGED <<clock, account, entries, stored, req, saves, granted>>
        /\ admin' = [admin EXCEPT ![a] = [user |-> u, version |-> account[u].version]]
    BY DEF SaveRead
  <1>2. admin' \in [Admins -> Saving \cup {None}]
    BY <1>1 DEF SessionsInv, Shapes, Account, Saving
  <1>3. Shapes'
    BY <1>1, <1>2 DEF SessionsInv, Shapes
  <1>4. Tables' /\ SessionCapHeld'
    BY <1>1 DEF SessionsInv, Tables, SessionCapHeld, CopyOK, KeptOK, Renewable
  <1>5. \A r \in Requests : req'[r] # None => RequestOK(req[r])'
    BY <1>1 DEF SessionsInv, RequestOK, Passed, KnowsGood, ServedOK, CopyOK, KeptOK, Renewable
  <1> QED
    BY <1>3, <1>4, <1>5 DEF SessionsInv

LEMMA SaveWriteInv ==
    ASSUME SessionsInv, SessionsAssumption, NEW a \in Admins,
           NEW password \in BOOLEAN, NEW disabled \in BOOLEAN, SaveWrite(a, password, disabled)
    PROVE  SessionsInv'
  <1>1. PICK u : u = admin[a].user /\ u \in Users /\ admin[a].version \in Nat
    BY DEF SaveWrite, SessionsInv, Shapes, Saving
  <1>2. PICK version : version = IF password THEN saves + 1 ELSE admin[a].version
    OBVIOUS
  <1>3. version \in Nat /\ saves \in Nat
    BY <1>1, <1>2 DEF SessionsInv, Shapes
  <1> DEFINE record == [version |-> version, disabled |-> disabled]
             told(q) == [q EXCEPT !.valid = @ \cup {<<u, version>>}]
  <1>4. /\ account' = [account EXCEPT ![u] = record]
        /\ req' = [r \in Requests |-> IF req[r] = None \/ disabled THEN req[r] ELSE told(req[r])]
        /\ admin' = [admin EXCEPT ![a] = None] /\ saves' = saves + 1
        /\ UNCHANGED <<clock, entries, stored, granted>>
    BY <1>1, <1>2 DEF SaveWrite
  <1>5. account' \in [Users -> Account] /\ account'[u] = record
        /\ \A v \in Users : v # u => account'[v] = account[v]
    BY <1>1, <1>3, <1>4 DEF SessionsInv, Shapes, Account
  <1>6. ASSUME NEW r \in Requests, req'[r] # None PROVE RequestOK(req[r])' /\ req'[r] \in Request
    <2>1. PICK p : p = req[r] /\ p # None
      BY <1>4, <1>6
    <2>2. p \in Request /\ RequestOK(p)
      BY <2>1, Running
    <2>3. PICK q : q = req'[r]
      OBVIOUS
    <2>4. /\ q \in Request /\ q.kind = p.kind /\ q.at = p.at /\ q.token = p.token
          /\ q.record = p.record /\ q.sess = p.sess /\ q.began = p.began
          /\ p.valid \subseteq q.valid
          /\ ~disabled => <<u, version>> \in q.valid
      <3>1. CASE disabled
        BY <1>4, <2>1, <2>2, <2>3, <3>1
      <3>2. CASE ~disabled
        <4>1. q = told(p)
          BY <1>4, <2>1, <2>3, <3>2
        <4>2. p.valid \cup {<<u, version>>} \in SUBSET (Users \X Nat)
          BY <1>1, <1>3, <2>2 DEF Request
        <4> QED
          BY <2>2, <4>1, <4>2 DEF Request
      <3> QED
        BY <3>1, <3>2
    <2>5. Passed(q)'
      BY <1>4, <2>2, <2>4 DEF RequestOK, Passed, CopyOK, KeptOK, Renewable
    <2>6. KnowsGood(q)'
      <3>1. ASSUME q.kind # "login", NEW v \in Users, ~account'[v].disabled
            PROVE  <<v, account'[v].version>> \in q.valid
        <4>1. CASE v = u
          BY <1>5, <2>4, <3>1, <4>1
        <4>2. CASE v # u
          BY <1>5, <2>2, <2>4, <3>1, <4>2 DEF RequestOK, KnowsGood
        <4> QED
          BY <4>1, <4>2
      <3> QED
        BY <3>1 DEF KnowsGood
    <2>7. ServedOK(q)'
      BY <2>2, <2>4 DEF RequestOK, ServedOK
    <2> QED
      BY <2>3, <2>4, <2>5, <2>6, <2>7
         DEF RequestOK, Passed, KnowsGood, ServedOK, CopyOK, KeptOK, Renewable
  <1> HIDE DEF record, told
  <1>7. req' \in [Requests -> Request \cup {None}]
    BY <1>4, <1>6
  <1>8. admin' \in [Admins -> Saving \cup {None}]
    BY <1>4 DEF SessionsInv, Shapes
  <1>9. Shapes'
    BY <1>3, <1>4, <1>5, <1>7, <1>8 DEF SessionsInv, Shapes
  <1>10. Tables' /\ SessionCapHeld'
    BY <1>4 DEF SessionsInv, Tables, SessionCapHeld, CopyOK, KeptOK, Renewable
  <1> QED
    BY <1>6, <1>9, <1>10 DEF SessionsInv

LEMMA TickInv ==
    ASSUME SessionsInv, SessionsAssumption, Tick
    PROVE  SessionsInv'
  <1>1. /\ clock \in Nat /\ clock' = clock + 1 /\ RememberTimeout \in Nat
        /\ UNCHANGED <<account, entries, stored, req, admin, saves, granted>>
    BY DEF Tick, SessionsInv, Shapes, SessionsAssumption
  <1>2. Onward
    BY <1>1 DEF Onward, Renewable, SessionsInv, Shapes
  <1>3. EntriesOK /\ StoredOK
    BY <1>1, <1>2, EntriesStay, StoredStay
  <1>4. ASSUME NEW r \in Requests, req'[r] # None PROVE RequestOK(req[r])'
    <2>1. PICK p : p = req[r] /\ p = req'[r] /\ p # None
      BY <1>1, <1>4
    <2>2. RequestOK(p)'
      BY <1>1, <1>2, <2>1, Running, RequestStays
    <2> QED
      BY <2>1, <2>2 DEF RequestOK, Passed, KnowsGood, ServedOK, CopyOK, KeptOK, Renewable
  <1>5. Shapes'
    BY <1>1 DEF SessionsInv, Shapes
  <1> QED
    BY <1>3, <1>4, <1>5 DEF SessionsInv, Tables, EntriesOK, StoredOK

LEMMA RestartInv ==
    ASSUME SessionsInv, SessionsAssumption, Restart
    PROVE  SessionsInv'
  <1>1. /\ entries' = [x \in Tokens |-> None] /\ req' = [r \in Requests |-> None]
        /\ admin' = [a \in Admins |-> None]
        /\ UNCHANGED <<clock, account, stored, saves, granted>>
    BY DEF Restart
  <1>2. Onward
    BY <1>1, StandStill
  <1>3. EntriesOK
    BY <1>1, <1>2, EntriesFewer
  <1>4. StoredOK
    BY <1>1, <1>2, StoredStay
  <1>5. Shapes'
    BY <1>1 DEF SessionsInv, Shapes
  <1> QED
    BY <1>1, <1>3, <1>4, <1>5 DEF SessionsInv, Tables, EntriesOK, StoredOK

-----------------------------------------------------------------------------
(* The theorems.                                                            *)

LEMMA InitInv ==
    ASSUME SessionsAssumption, Init
    PROVE  SessionsInv
  <1>1. Shapes
    BY DEF Init, Shapes, Account
  <1>2. Tables
    BY DEF Init, Tables
  <1>3. SessionCapHeld
    <2>1. {x \in Tokens : entries[x] # None} = {}
      BY DEF Init
    <2> QED
      BY <2>1, FS_EmptySet DEF SessionCapHeld, SessionsAssumption
  <1>4. \A r \in Requests : req[r] = None
    BY DEF Init
  <1> QED
    BY <1>1, <1>2, <1>3, <1>4 DEF SessionsInv

LEMMA StepInv ==
    ASSUME SessionsInv, SessionsAssumption, [Next]_vars
    PROVE  SessionsInv'
  <1>1. ASSUME NEW r \in Requests, Login(r) PROVE SessionsInv'
    BY <1>1, BeginLoginInv, CreateInv, SaveInv, SavePruneInv DEF Login
  <1>2. ASSUME NEW r \in Requests, Authenticate(r) PROVE SessionsInv'
    BY <1>2, BeginRequestInv, GetInv, LookupInv, RestoreInv, TouchInv, PutRestoredInv,
       ValidateInv, DropStoredInv DEF Authenticate
  <1>3. ASSUME NEW r \in Requests, Serve(r) PROVE SessionsInv'
    BY <1>3, ReadInv, RenewInv, LogoutInv, LogoutStoredInv, ArmInv DEF Serve
  <1>4. CASE UNCHANGED vars
    BY <1>4 DEF vars, SessionsInv, Shapes, Tables, SessionCapHeld, RequestOK, Passed, KnowsGood,
       ServedOK, CopyOK, KeptOK, Renewable
  <1> QED
    BY <1>1, <1>2, <1>3, <1>4, SaveReadInv, SaveWriteInv, TickInv, RestartInv DEF Next

(* The copies of a session in the map, in the store and with the requests    *)
(* never outlast what their token was granted, at any moment of any run.     *)
THEOREM SessionsInvariant ==
    ASSUME SessionsAssumption
    PROVE  Spec => []SessionsInv
  <1>1. Init => SessionsInv
    BY InitInv
  <1>2. SessionsInv /\ [Next]_vars => SessionsInv'
    BY StepInv
  <1> QED
    BY <1>1, <1>2, PTL DEF Spec

(* requireAuth serves a request only on a password that was current, of a     *)
(* user that was enabled, at some moment while the request ran.               *)
THEOREM Admitted ==
    ASSUME SessionsAssumption
    PROVE  Spec => []AdmittedWhileValid
  <1>1. SessionsInv => AdmittedWhileValid
    BY DEF SessionsInv, RequestOK, ServedOK, AdmittedWhileValid, At
  <1> QED
    BY <1>1, SessionsInvariant, PTL

(* The session map never holds more than maxSessionEntries sessions.          *)
THEOREM CapHeld ==
    ASSUME SessionsAssumption
    PROVE  Spec => []SessionCapHeld
  <1>1. SessionsInv => SessionCapHeld
    BY DEF SessionsInv
  <1> QED
    BY <1>1, SessionsInvariant, PTL

(* A token is served only to requests that began before the end of its last   *)
(* login or renewal, however the map and the store were put back and pruned.  *)
THEOREM NotAfterExpiry ==
    ASSUME SessionsAssumption
    PROVE  Spec => []NoSessionAfterExpiry
  <1>1. SessionsInv => NoSessionAfterExpiry
    BY DEF SessionsInv, RequestOK, Passed, NoSessionAfterExpiry, At
  <1> QED
    BY <1>1, SessionsInvariant, PTL

(* An arming of the agent in the session map ends with its session at the     *)
(* latest, also after a renewal has put back a copy read before.              *)
THEOREM ArmedWithin ==
    ASSUME SessionsAssumption
    PROVE  Spec => []ArmedWithinSession
  <1>1. SessionsInv => ArmedWithinSession
    BY DEF SessionsInv, Tables, CopyOK, ArmedWithinSession
  <1> QED
    BY <1>1, SessionsInvariant, PTL

=============================================================================
