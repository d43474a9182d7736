---------------------------- MODULE Outside_proofs ----------------------------
(***************************************************************************)
(* The tokens of the ChatGPT connector, for any number of calls and        *)
(* clients, any lifetime that outlasts the margin, and however often OpenAI *)
(* replaces a refresh token: the mutex of a client is what keeps a call     *)
(* from presenting a token that was replaced while it waited.  Then the     *)
(* parts that MCOutside puts next to it: the snapshot, the containers, the  *)
(* devices and the sign-in.                                                *)
(***************************************************************************)
EXTENDS MCOutside, Sequences, FiniteSetTheorems, NaturalsInduction, WellFoundedInduction, TLAPS

Tokens == [refresh : Nat, ends : Int]

CallRecords ==
         [at : {"lock", "refresh"}, client : Clients, refresh : Nat]
    \cup [at : {"use"}, client : Clients, ends : Int, since : Int]

Shapes ==
    /\ time \in Int
    /\ issued \in Nat
    /\ stored \in Tokens
    /\ client \in [Clients -> Tokens \cup {None}]
    /\ current \in Clients /\ client[current] # None
    /\ holder \in [Clients -> Calls \cup {None}]
    /\ call \in [Calls -> CallRecords \cup {None}]
    /\ spent \in [Clients -> SUBSET Nat]

\* Of what was handed out, a client has spent only tokens before its own.
Behind(k) ==
    /\ \A token \in spent[k] : token <= issued
    /\ client[k] = None => spent[k] = {}
    /\ client[k] # None => client[k].refresh <= issued /\ client[k].refresh \notin spent[k]

\* A call that refreshes has the mutex of its client and presents its token.
Exclusive(c) ==
    At(c, "refresh") =>
        /\ client[Client(c)] # None
        /\ holder[Client(c)] = c
        /\ call[c].refresh = client[Client(c)].refresh

\* Every call has a client that was built, and an access token with the margin
\* in hand.
HasClient(c) == call[c] # None => client[Client(c)] # None

InHand(c) == At(c, "use") => call[c].since + Margin < call[c].ends

TokenInv ==
    /\ Shapes
    /\ stored.refresh <= issued
    /\ \A k \in Clients : Behind(k)
    /\ \A c \in Calls : Exclusive(c) /\ HasClient(c) /\ InHand(c)

-----------------------------------------------------------------------------

LEMMA InitInv == ASSUME TokenAssumption, Init PROVE TokenInv
  <1>1. Lifetime \in Nat /\ stored \in Tokens /\ stored.refresh = 1
    BY DEF TokenAssumption, Init, Tokens
  <1>2. PICK k \in Clients : current = k /\ client = [j \in Clients |-> IF j = k THEN stored ELSE None]
    BY DEF Init
  <1>3. stored # None
    BY <1>1 DEF TokenAssumption, Tokens
  <1>4. Shapes
    BY <1>1, <1>2, <1>3 DEF Init, Shapes
  <1>5. \A j \in Clients : Behind(j)
    BY <1>1, <1>2 DEF Init, Behind
  <1>6. \A c \in Calls : Exclusive(c) /\ HasClient(c) /\ InHand(c)
    BY DEF Init, Exclusive, HasClient, InHand, At
  <1>7. stored.refresh <= issued
    BY <1>1 DEF Init
  <1> QED
    BY <1>4, <1>5, <1>6, <1>7 DEF TokenInv

(* A call that waits, uses its token or returns takes no part in a refresh. *)
LEMMA NoPart ==
    ASSUME TokenInv, NEW c \in Calls, NEW r \in CallRecords \cup {None},
           call' = [call EXCEPT ![c] = r],
           r # None => client[r.client] # None,
           r # None /\ r.at = "refresh" => holder[r.client] = c /\ r.refresh = client[r.client].refresh,
           r # None /\ r.at = "use" => r.since + Margin < r.ends,
           UNCHANGED <<time, issued, stored, client, current, holder, spent>>
    PROVE  TokenInv'
  <1>1. Shapes'
    BY DEF TokenInv, Shapes
  <1>2. \A k \in Clients : Behind(k)'
    BY DEF TokenInv, Behind
  <1>3. ASSUME NEW d \in Calls PROVE Exclusive(d)' /\ HasClient(d)' /\ InHand(d)'
    <2>1. CASE d = c
      <3>1. call'[d] = r
        BY <2>1 DEF TokenInv, Shapes
      <3> QED
        BY <2>1, <3>1 DEF Exclusive, HasClient, InHand, At, Client
    <2>2. CASE d # c
      <3>1. call'[d] = call[d]
        BY <2>2 DEF TokenInv, Shapes
      <3> QED
        BY <3>1 DEF TokenInv, Exclusive, HasClient, InHand, At, Client
    <2> QED
      BY <2>1, <2>2
  <1> QED
    BY <1>1, <1>2, <1>3 DEF TokenInv

LEMMA BeginInv == ASSUME TokenInv, NEW c \in Calls, Begin(c) PROVE TokenInv'
  <1> DEFINE r == [at |-> "lock", client |-> current, refresh |-> client[current].refresh]
  <1>1. client[current] \in Tokens /\ client[current] # None /\ current \in Clients
    BY DEF TokenInv, Shapes
  <1>2. r \in CallRecords
    BY <1>1 DEF Tokens, CallRecords
  <1>3. call' = [call EXCEPT ![c] = r]
    BY DEF Begin, Waiting
  <1>4. UNCHANGED <<time, issued, stored, client, current, holder, spent>>
    BY DEF Begin
  <1> HIDE DEF r
  <1>5. r.client = current /\ r.at = "lock"
    BY DEF r
  <1> QED
    BY <1>1, <1>2, <1>3, <1>4, <1>5, NoPart

LEMMA UseInv == ASSUME TokenInv, NEW c \in Calls, Use(c) PROVE TokenInv'
  BY NoPart DEF Use, Return

(* A client built from the settings starts with the token they hold.        *)
LEMMA BuildInv ==
    ASSUME TokenAssumption, TokenInv, NEW k \in Clients, client[k] = None,
           issued' \in Nat, issued <= issued',
           stored' \in Tokens, stored'.refresh <= issued',
           client' = [client EXCEPT ![k] = stored'],
           current' \in {current, k},
           UNCHANGED <<time, holder, spent, call>>
    PROVE  TokenInv'
  <1>1. stored' # None
    BY DEF TokenAssumption, Tokens
  <1>2. Shapes'
    BY <1>1 DEF TokenInv, Shapes
  <1>3. ASSUME NEW j \in Clients PROVE Behind(j)'
    <2>1. \A token \in spent[j] : token \in Nat /\ token <= issued
      BY DEF TokenInv, Behind, Shapes
    <2>2. \A token \in spent[j] : token <= issued'
      BY <2>1 DEF TokenInv, Shapes
    <2>3. CASE j = k
      <3>1. spent[j] = {} /\ client'[j] = stored'
        BY <2>3 DEF TokenInv, Behind, Shapes
      <3> QED
        BY <1>1, <3>1 DEF Behind
    <2>4. CASE j # k
      <3>1. client'[j] = client[j]
        BY <2>4 DEF TokenInv, Shapes
      <3>2. client[j] # None => client[j].refresh \in Nat
        BY DEF TokenInv, Shapes, Tokens
      <3>3. client[j] # None => client[j].refresh <= issued'
        BY <3>2 DEF TokenInv, Behind, Shapes
      <3> QED
        BY <2>2, <3>1, <3>3 DEF TokenInv, Behind
    <2> QED
      BY <2>3, <2>4
  <1>4. ASSUME NEW d \in Calls PROVE Exclusive(d)' /\ HasClient(d)' /\ InHand(d)'
    <2>1. call[d] # None => client[Client(d)] # None /\ Client(d) \in Clients
      BY DEF TokenInv, HasClient, Shapes, CallRecords, Client
    <2>2. call[d] # None => client'[Client(d)] = client[Client(d)]
      BY <2>1 DEF TokenInv, Shapes
    <2> QED
      BY <2>1, <2>2 DEF TokenInv, Exclusive, HasClient, InHand, At, Client
  <1> QED
    BY <1>2, <1>3, <1>4 DEF TokenInv

LEMMA RebuildInv ==
    ASSUME TokenAssumption, TokenInv, NEW k \in Clients, Rebuild(k)
    PROVE  TokenInv'
  <1>1. issued' \in Nat /\ issued <= issued' /\ stored' \in Tokens /\ stored'.refresh <= issued'
    BY DEF Rebuild, TokenInv, Shapes
  <1> QED
    BY <1>1, BuildInv DEF Rebuild, Built

LEMMA ConnectInv ==
    ASSUME TokenAssumption, TokenInv, NEW k \in Clients, Connect(k)
    PROVE  TokenInv'
  <1>1. issued' \in Nat /\ issued <= issued'
    BY DEF Connect, TokenInv, Shapes
  <1>2. time + Lifetime \in Int
    BY DEF TokenInv, Shapes, TokenAssumption
  <1>3. stored' \in Tokens /\ stored'.refresh <= issued'
    BY <1>1, <1>2 DEF Connect, Tokens
  <1> QED
    BY <1>1, <1>3, BuildInv DEF Connect

(* A review's client is built and waited for at once.                       *)
LEMMA BeginReviewInv ==
    ASSUME TokenAssumption, TokenInv, NEW c \in Calls, NEW k \in Clients, BeginReview(c, k)
    PROVE  TokenInv'
  <1> DEFINE r == [at |-> "lock", client |-> k, refresh |-> stored.refresh]
  <1>1. client' = [client EXCEPT ![k] = stored] /\ client[k] = None /\ call[c] = None
    BY DEF BeginReview, Built
  <1>2. client'[k] = stored
    BY <1>1 DEF TokenInv, Shapes
  <1>3. call' = [call EXCEPT ![c] = r]
    BY <1>2 DEF BeginReview, Waiting
  <1>4. stored # None /\ stored \in Tokens
    BY DEF TokenInv, Shapes, TokenAssumption, Tokens
  <1>5. r \in CallRecords /\ r.at = "lock" /\ r.client = k
    BY <1>4 DEF Tokens, CallRecords
  <1>6. UNCHANGED <<time, issued, stored, current, holder, spent>>
    BY DEF BeginReview
  <1>7. Shapes'
    BY <1>1, <1>3, <1>4, <1>5, <1>6 DEF TokenInv, Shapes
  <1>8. ASSUME NEW j \in Clients PROVE Behind(j)'
    BY <1>1, <1>4, <1>6 DEF TokenInv, Behind, Shapes
  <1> HIDE DEF r
  <1>9. ASSUME NEW d \in Calls PROVE Exclusive(d)' /\ HasClient(d)' /\ InHand(d)'
    <2>1. CASE d = c
      <3>1. call'[d] = r
        BY <1>3, <2>1 DEF TokenInv, Shapes
      <3> QED
        BY <1>2, <1>4, <1>5, <3>1 DEF Exclusive, HasClient, InHand, At, Client
    <2>2. CASE d # c
      <3>1. call'[d] = call[d]
        BY <1>3, <2>2 DEF TokenInv, Shapes
      <3>2. call[d] # None => client[Client(d)] # None /\ Client(d) \in Clients
        BY DEF TokenInv, HasClient, Shapes, CallRecords, Client
      <3>3. call[d] # None => client'[Client(d)] = client[Client(d)]
        BY <1>1, <3>2 DEF TokenInv, Shapes
      <3> QED
        BY <1>6, <3>1, <3>2, <3>3 DEF TokenInv, Exclusive, HasClient, InHand, At, Client
    <2> QED
      BY <2>1, <2>2
  <1> QED
    BY <1>6, <1>7, <1>8, <1>9 DEF TokenInv

LEMMA EnsureInv ==
    ASSUME TokenAssumption, TokenInv, NEW c \in Calls, Ensure(c)
    PROVE  TokenInv'
  <1> DEFINE k == Client(c)
  <1>1. /\ call[c] # None /\ k \in Clients
        /\ client[k] # None /\ client[k] \in Tokens
        /\ holder[k] = None /\ time \in Int
    BY DEF Ensure, At, TokenInv, HasClient, Shapes, CallRecords, Client
  <1>2. CASE Fresh(client[k])
    <2> DEFINE r == [at |-> "use", client |-> k, ends |-> client[k].ends, since |-> time]
    <2>1. call' = [call EXCEPT ![c] = r] /\ UNCHANGED <<time, issued, stored, client, current, holder, spent>>
      BY <1>2 DEF Ensure
    <2>2. r \in CallRecords
      BY <1>1 DEF Tokens, CallRecords
    <2>3. r.since + Margin < r.ends
      BY <1>2 DEF Fresh
    <2>4. r.at = "use" /\ r.client = k
      OBVIOUS
    <2> HIDE DEF r
    <2> QED
      BY <1>1, <2>1, <2>2, <2>3, <2>4, NoPart
  <1>3. CASE ~Fresh(client[k])
    <2> DEFINE r == [at |-> "refresh", client |-> k, refresh |-> client[k].refresh]
    <2>1. /\ call' = [call EXCEPT ![c] = r]
          /\ holder' = [holder EXCEPT ![k] = c]
          /\ UNCHANGED <<time, issued, stored, client, current, spent>>
      BY <1>3 DEF Ensure, Presented
    <2>2. r \in CallRecords /\ r.at = "refresh" /\ r.client = k /\ r.refresh = client[k].refresh
      BY <1>1 DEF Tokens, CallRecords
    <2> HIDE DEF r
    <2>3. Shapes'
      BY <1>1, <2>1, <2>2 DEF TokenInv, Shapes
    <2>4. \A j \in Clients : Behind(j)'
      BY <2>1 DEF TokenInv, Behind
    <2>5. ASSUME NEW d \in Calls PROVE Exclusive(d)' /\ HasClient(d)' /\ InHand(d)'
      <3>1. CASE d = c
        <4>1. call'[d] = r /\ holder'[k] = c
          BY <1>1, <2>1, <3>1 DEF TokenInv, Shapes
        <4> QED
          BY <1>1, <2>1, <2>2, <3>1, <4>1 DEF Exclusive, HasClient, InHand, At, Client
      <3>2. CASE d # c
        <4>1. call'[d] = call[d]
          BY <2>1, <3>2 DEF TokenInv, Shapes
        <4>2. At(d, "refresh") => Client(d) # k /\ Client(d) \in Clients
          BY <1>1 DEF TokenInv, Exclusive, TokenAssumption, Shapes, CallRecords, At, Client
        <4>3. At(d, "refresh") => holder'[Client(d)] = holder[Client(d)]
          BY <2>1, <4>2 DEF TokenInv, Shapes
        <4> QED
          BY <2>1, <4>1, <4>3 DEF TokenInv, Exclusive, HasClient, InHand, At, Client
      <3> QED
        BY <3>1, <3>2
    <2> QED
      BY <2>1, <2>3, <2>4, <2>5 DEF TokenInv
  <1> QED
    BY <1>2, <1>3

(* The mutex is what keeps a replacement from the other calls: whoever       *)
(* presents a token of the client is the one that is answered.               *)
LEMMA Alone ==
    ASSUME TokenAssumption, TokenInv, NEW c \in Calls, At(c, "refresh"),
           NEW d \in Calls, d # c, At(d, "refresh")
    PROVE  Client(d) # Client(c)
  BY DEF TokenAssumption, TokenInv, Exclusive

LEMMA RefreshedInv ==
    ASSUME TokenAssumption, TokenInv, NEW c \in Calls, Refreshed(c)
    PROVE  TokenInv'
  <1> DEFINE k == Client(c)
             ends == time + Lifetime
             r == [at |-> "use", client |-> k, ends |-> ends, since |-> time]
  <1>1. /\ At(c, "refresh") /\ call[c] # None /\ k \in Clients
        /\ client[k] # None /\ client[k] \in Tokens
        /\ call[c].refresh = client[k].refresh
        /\ time \in Int /\ issued \in Nat
    BY DEF Refreshed, At, TokenInv, Exclusive, Shapes, CallRecords, Client
  <1>2. ends \in Int /\ time + Margin < ends
    BY <1>1 DEF TokenAssumption
  <1>3. /\ call' = [call EXCEPT ![c] = r]
        /\ holder' = [holder EXCEPT ![k] = None]
        /\ UNCHANGED <<time, stored, current>>
    BY DEF Refreshed, Unlock
  <1> HIDE DEF ends
  <1>4. r \in CallRecords /\ r.at = "use" /\ r.client = k /\ r.since + Margin < r.ends
    BY <1>1, <1>2 DEF CallRecords
  <1>5. PICK own \in Tokens :
          /\ client' = [client EXCEPT ![k] = own]
          /\ \/ own.refresh = client[k].refresh /\ UNCHANGED <<issued, spent>>
             \/ /\ own.refresh = issued + 1 /\ issued' = issued + 1
                /\ spent' = [spent EXCEPT ![k] = @ \cup {client[k].refresh}]
    <2>1. CASE client' = [client EXCEPT ![k].ends = time + Lifetime] /\ UNCHANGED <<issued, spent>>
      <3>1. [client[k] EXCEPT !.ends = ends] \in Tokens
        BY <1>1, <1>2 DEF Tokens
      <3>2. [client[k] EXCEPT !.ends = ends].refresh = client[k].refresh
        BY <1>1 DEF Tokens
      <3> QED
        BY <2>1, <3>1, <3>2 DEF ends
    <2>2. CASE /\ issued' = issued + 1
               /\ client' = [client EXCEPT ![k] = [refresh |-> issued', ends |-> time + Lifetime]]
               /\ spent' = [spent EXCEPT ![k] = @ \cup {call[c].refresh}]
      <3>1. [refresh |-> issued', ends |-> ends] \in Tokens
        BY <1>1, <1>2, <2>2 DEF Tokens
      <3> QED
        BY <1>1, <2>2, <3>1 DEF ends
    <2> QED
      BY <2>1, <2>2 DEF Refreshed, Replace
  <1>6. own # None /\ own.refresh \in Nat /\ client[k].refresh \in Nat
    BY <1>1 DEF TokenAssumption, Tokens
  <1> HIDE DEF r
  <1>7. Shapes'
    BY <1>1, <1>3, <1>4, <1>5, <1>6 DEF TokenInv, Shapes
  <1>8. ASSUME NEW j \in Clients PROVE Behind(j)'
    <2>1. \A token \in spent[j] : token \in Nat /\ token <= issued
      BY DEF TokenInv, Behind, Shapes
    <2>2. CASE j = k
      <3>1. client'[j] = own
        BY <1>5, <2>2 DEF TokenInv, Shapes
      <3>2. client[j].refresh <= issued /\ client[j].refresh \notin spent[j]
        BY <1>1, <2>2 DEF TokenInv, Behind
      <3>3. CASE own.refresh = client[k].refresh /\ UNCHANGED <<issued, spent>>
        BY <1>6, <2>1, <2>2, <3>1, <3>2, <3>3 DEF Behind
      <3>4. CASE /\ own.refresh = issued + 1 /\ issued' = issued + 1
                 /\ spent' = [spent EXCEPT ![k] = @ \cup {client[k].refresh}]
        <4>1. spent'[j] = spent[j] \cup {client[j].refresh}
          BY <2>2, <3>4 DEF TokenInv, Shapes
        <4>2. \A token \in spent'[j] : token \in Nat /\ token <= issued
          BY <1>6, <2>1, <2>2, <3>2, <4>1
        <4>3. \A token \in spent'[j] : token <= issued' /\ token # own.refresh
          BY <1>1, <3>4, <4>2
        <4> QED
          BY <1>1, <1>6, <3>1, <3>4, <4>3 DEF Behind
      <3> QED
        BY <1>5, <3>3, <3>4
    <2>3. CASE j # k
      <3>1. client'[j] = client[j] /\ spent'[j] = spent[j]
        BY <1>5, <2>3 DEF TokenInv, Shapes
      <3>2. issued <= issued' /\ issued' \in Nat
        BY <1>1, <1>5
      <3>3. client[j] # None => client[j].refresh \in Nat
        BY DEF TokenInv, Shapes, Tokens
      <3>4. \A token \in spent[j] : token <= issued'
        BY <1>1, <2>1, <3>2
      <3>5. client[j] # None => client[j].refresh <= issued'
        BY <1>1, <3>2, <3>3 DEF TokenInv, Behind
      <3> QED
        BY <3>1, <3>4, <3>5 DEF TokenInv, Behind
    <2> QED
      BY <2>2, <2>3
  <1>9. ASSUME NEW d \in Calls PROVE Exclusive(d)' /\ HasClient(d)' /\ InHand(d)'
    <2>1. CASE d = c
      <3>1. call'[d] = r /\ client'[k] = own
        BY <1>1, <1>3, <1>5, <2>1 DEF TokenInv, Shapes
      <3> QED
        BY <1>4, <1>6, <3>1 DEF Exclusive, HasClient, InHand, At, Client
    <2>2. CASE d # c
      <3>1. call'[d] = call[d]
        BY <1>3, <2>2 DEF TokenInv, Shapes
      <3>2. call[d] # None => client'[Client(d)] # None
        BY <1>5, <1>6 DEF TokenInv, HasClient, Shapes, CallRecords, Client
      <3>3. At(d, "refresh") => Client(d) # k /\ Client(d) \in Clients
        BY <1>1, <2>2, Alone DEF TokenInv, Shapes, CallRecords, At, Client
      <3>4. At(d, "refresh") => /\ holder'[Client(d)] = holder[Client(d)]
                                /\ client'[Client(d)] = client[Client(d)]
        BY <1>3, <1>5, <3>3 DEF TokenInv, Shapes
      <3> QED
        BY <3>1, <3>2, <3>4 DEF TokenInv, Exclusive, HasClient, InHand, At, Client
    <2> QED
      BY <2>1, <2>2
  <1>10. stored'.refresh <= issued'
    BY <1>1, <1>3, <1>5 DEF TokenInv, Shapes, Tokens
  <1> QED
    BY <1>7, <1>8, <1>9, <1>10 DEF TokenInv

LEMMA RefreshFailsInv ==
    ASSUME TokenAssumption, TokenInv, NEW c \in Calls, RefreshFails(c)
    PROVE  TokenInv'
  <1> DEFINE k == Client(c)
  <1>1. /\ At(c, "refresh") /\ call[c] # None /\ k \in Clients /\ issued \in Nat
    BY DEF RefreshFails, At, TokenInv, Shapes, CallRecords, Client
  <1>2. /\ call' = [call EXCEPT ![c] = None]
        /\ holder' = [holder EXCEPT ![k] = None]
        /\ UNCHANGED <<time, stored, client, current, spent>>
    BY DEF RefreshFails, Unlock, Return
  <1>3. issued' \in Nat /\ issued <= issued'
    BY <1>1 DEF RefreshFails, Replace
  <1>4. Shapes'
    BY <1>2, <1>3 DEF TokenInv, Shapes
  <1>5. ASSUME NEW j \in Clients PROVE Behind(j)'
    <2>1. \A token \in spent[j] : token \in Nat /\ token <= issued
      BY DEF TokenInv, Behind, Shapes
    <2>2. client[j] # None => client[j].refresh \in Nat
      BY DEF TokenInv, Shapes, Tokens
    <2> QED
      BY <1>1, <1>2, <1>3, <2>1, <2>2 DEF TokenInv, Behind
  <1>6. ASSUME NEW d \in Calls PROVE Exclusive(d)' /\ HasClient(d)' /\ InHand(d)'
    <2>1. CASE d = c
      <3>1. call'[d] = None
        BY <1>2, <2>1 DEF TokenInv, Shapes
      <3> QED
        BY <3>1 DEF Exclusive, HasClient, InHand, At
    <2>2. CASE d # c
      <3>1. call'[d] = call[d]
        BY <1>2, <2>2 DEF TokenInv, Shapes
      <3>2. At(d, "refresh") => Client(d) # k /\ Client(d) \in Clients
        BY <1>1, <2>2, Alone DEF TokenInv, Shapes, CallRecords, At, Client
      <3>3. At(d, "refresh") => holder'[Client(d)] = holder[Client(d)]
        BY <1>2, <3>2 DEF TokenInv, Shapes
      <3> QED
        BY <1>2, <3>1, <3>3 DEF TokenInv, Exclusive, HasClient, InHand, At, Client
    <2> QED
      BY <2>1, <2>2
  <1>7. stored'.refresh <= issued'
    BY <1>1, <1>2, <1>3 DEF TokenInv, Shapes, Tokens
  <1> QED
    BY <1>4, <1>5, <1>6, <1>7 DEF TokenInv

LEMMA TickInv == ASSUME TokenInv, Tick PROVE TokenInv'
  <1>1. time' \in Int
    BY DEF Tick, TokenInv, Shapes
  <1> QED
    BY <1>1 DEF Tick, TokenInv, Shapes, Behind, Exclusive, HasClient, InHand, At, Client

-----------------------------------------------------------------------------

(* The inductive invariant: a client never spent the token it holds, and a   *)
(* call that refreshes has the mutex and presents that token.                *)
THEOREM TokenInvariant == ASSUME TokenAssumption PROVE Spec => []TokenInv
  <1>1. TokenInv /\ [Next]_vars => TokenInv'
    <2> SUFFICES ASSUME TokenInv, [Next]_vars PROVE TokenInv'
      OBVIOUS
    <2>1. ASSUME NEW c \in Calls, Begin(c) PROVE TokenInv'
      BY <2>1, BeginInv
    <2>2. ASSUME NEW c \in Calls, Ensure(c) PROVE TokenInv'
      BY <2>2, EnsureInv
    <2>3. ASSUME NEW c \in Calls, Refreshed(c) PROVE TokenInv'
      BY <2>3, RefreshedInv
    <2>4. ASSUME NEW c \in Calls, RefreshFails(c) PROVE TokenInv'
      BY <2>4, RefreshFailsInv
    <2>5. ASSUME NEW c \in Calls, Use(c) PROVE TokenInv'
      BY <2>5, UseInv
    <2>6. ASSUME NEW c \in Calls, NEW k \in Clients, BeginReview(c, k) PROVE TokenInv'
      BY <2>6, BeginReviewInv
    <2>7. ASSUME NEW k \in Clients, Rebuild(k) PROVE TokenInv'
      BY <2>7, RebuildInv
    <2>8. ASSUME NEW k \in Clients, Connect(k) PROVE TokenInv'
      BY <2>8, ConnectInv
    <2>9. CASE Tick
      BY <2>9, TickInv
    <2>10. CASE UNCHANGED vars
      BY <2>10 DEF vars, TokenInv, Shapes, Behind, Exclusive, HasClient, InHand, At, Client
    <2> QED
      BY <2>1, <2>2, <2>3, <2>4, <2>5, <2>6, <2>7, <2>8, <2>9, <2>10 DEF Next
  <1> QED
    BY <1>1, InitInv, PTL DEF Spec

(* However calls, replacements and rebuilds interleave, no call presents a  *)
(* refresh token after its client was given the next (ensureAccessToken).   *)
THEOREM ReplacedUnused == ASSUME TokenAssumption PROVE Spec => []ReplacedTokenUnused
  <1>1. TokenInv => ReplacedTokenUnused
    BY DEF TokenInv, Shapes, CallRecords, Exclusive, Behind, ReplacedTokenUnused, At, Client
  <1> QED
    BY <1>1, TokenInvariant, PTL

(* An access token is still taken when it is sent within the margin.        *)
THEOREM AccessInTime == ASSUME TokenAssumption PROVE Spec => []SentInTime
  <1>1. TokenInv => SentInTime
    <2> SUFFICES ASSUME TokenInv, NEW c \in Calls, At(c, "use"), time <= call[c].since + Margin
                 PROVE  time < call[c].ends
      BY DEF SentInTime
    <2>1. call[c].since \in Int /\ call[c].ends \in Int /\ time \in Int
      BY DEF TokenInv, Shapes, CallRecords, At
    <2>2. call[c].since + Margin < call[c].ends
      BY DEF TokenInv, InHand
    <2> QED
      BY <2>1, <2>2 DEF TokenAssumption
  <1> QED
    BY <1>1, TokenInvariant, PTL

-----------------------------------------------------------------------------
(* The control of a container.                                             *)

LEMMA DockerAlone ==
    ASSUME NEW q \in Docker!Records
    PROVE  [q EXCEPT !.alone = FALSE] \in Docker!Records
  BY DEF Docker!Records

(* One call goes on; the others no longer speak for the container.         *)
LEMMA DockerMoves ==
    ASSUME Docker!ControlInv, NEW c \in Callers, NEW r \in Docker!Records, Docker!Owed(r, running'),
           running' \in BOOLEAN, control' = [Docker!Touch(c) EXCEPT ![c] = r]
    PROVE  Docker!ControlInv'
  <1>1. Docker!Touch(c) \in [Callers -> Docker!Records \cup {None}]
    <2>1. ASSUME NEW d \in Callers
          PROVE  (IF d = c \/ control[d] = None THEN control[d] ELSE [control[d] EXCEPT !.alone = FALSE])
                     \in Docker!Records \cup {None}
      <3>1. control[d] \in Docker!Records \cup {None}
        BY DEF Docker!ControlInv
      <3> QED
        BY <3>1, DockerAlone
    <2> QED
      BY <2>1 DEF Docker!Touch
  <1>2. control' \in [Callers -> Docker!Records \cup {None}]
    BY <1>1
  <1>3. ASSUME NEW d \in Callers, control'[d] # None, d # c
        PROVE  Docker!Owed(control'[d], running')
    <2>1. control[d] # None /\ control'[d] = [control[d] EXCEPT !.alone = FALSE]
      BY <1>3 DEF Docker!ControlInv, Docker!Touch
    <2>2. control[d] \in Docker!Records /\ Docker!Owed(control[d], running)
      BY <2>1 DEF Docker!ControlInv
    <2> QED
      BY <2>1, <2>2 DEF Docker!Owed, Docker!Records
  <1>4. control'[c] = r
    BY DEF Docker!ControlInv, Docker!Touch
  <1> QED
    BY <1>2, <1>3, <1>4 DEF Docker!ControlInv

(* A step that leaves the container and the other calls alone.             *)
LEMMA DockerQuiet ==
    ASSUME Docker!ControlInv, NEW c \in Callers, NEW r \in Docker!Records, Docker!Owed(r, running),
           UNCHANGED running, control' = [control EXCEPT ![c] = r]
    PROVE  Docker!ControlInv'
  <1>1. control' \in [Callers -> Docker!Records \cup {None}]
    BY DEF Docker!ControlInv
  <1>2. \A d \in Callers : control'[d] # None => Docker!Owed(control'[d], running')
    BY DEF Docker!ControlInv
  <1> QED
    BY <1>1, <1>2 DEF Docker!ControlInv

LEMMA DockerAt ==
    ASSUME Docker!ControlInv, NEW c \in Callers, control[c] # None
    PROVE  control[c] \in Docker!Records /\ Docker!Owed(control[c], running)
  BY DEF Docker!ControlInv

(* What a request leaves in the record of its call.                        *)
LEMMA DockerRequested ==
    ASSUME Docker!ControlInv, NEW c \in Callers, control[c] # None,
           NEW m \in {"start", "stop", "restart"},
           NEW answer \in {"done", "timeout", "lost", "refused", "unreadable", "unsupported"}
    PROVE  /\ Docker!Requested(c, m, answer) \in Docker!Records
           /\ Docker!Requested(c, m, answer).action = control[c].action
           /\ Docker!Requested(c, m, answer).error = control[c].error
           /\ Docker!Requested(c, m, answer).stopped
                  <=> IF m = "stop" THEN answer = "done" ELSE control[c].stopped
           /\ Docker!Requested(c, m, answer).startSent <=> m # "stop"
           /\ Docker!Requested(c, m, answer).alone => answer \notin {"timeout", "lost"}
  <1> DEFINE r == control[c]
             alone == r.alone /\ answer \notin {"timeout", "lost"}
             stopped == IF m = "stop" THEN answer = "done" ELSE r.stopped
             sent == m # "stop"
  <1>1. r \in Docker!Records
    BY DockerAt
  <1>2. alone \in BOOLEAN /\ stopped \in BOOLEAN /\ sent \in BOOLEAN
    BY <1>1 DEF Docker!Records
  <1>3. Docker!Requested(c, m, answer)
          = [r EXCEPT !.alone = alone, !.stopped = stopped, !.startSent = sent]
    BY Zenon DEF Docker!Requested
  <1> HIDE DEF alone, stopped, sent
  <1> DEFINE q == Docker!Requested(c, m, answer)
  <1>4. /\ q \in Docker!Records
        /\ q.action = r.action /\ q.error = r.error
        /\ q.stopped = stopped /\ q.startSent = sent /\ q.alone = alone
    BY <1>1, <1>2, <1>3 DEF Docker!Records
  <1> QED
    BY <1>4, Zenon DEF alone, stopped, sent

(* Where a call returns to, and with what.                                 *)
LEMMA DockerReturn ==
    ASSUME NEW r \in Docker!Records, NEW error \in {"none", "fallbackable", "plain"}
    PROVE  /\ Docker!Return(r, error) \in Docker!Records
           /\ Docker!Return(r, error).at \in {"ssh", "returned"}
           /\ Docker!Return(r, error).error = error
           /\ Docker!Return(r, error).action = r.action
           /\ Docker!Return(r, error).stopped = r.stopped
           /\ Docker!Return(r, error).startSent = r.startSent
           /\ Docker!Return(r, error).alone = r.alone
  BY DEF Docker!Return, Docker!Records

(* The steps, one by one.                                                  *)

LEMMA DockerMutate ==
    ASSUME Docker!ControlInv, NEW c \in Callers, Docker!Mutate(c)
    PROVE  Docker!ControlInv'
  <1> DEFINE m == control[c].action
  <1>1. /\ control[c] # None /\ control[c].at = "api"
        /\ control[c] \in Docker!Records /\ Docker!Owed(control[c], running)
        /\ m \in {"start", "stop", "restart"}
    BY DockerAt DEF Docker!Mutate, Docker!At, Docker!Records
  <1>2. PICK answer \in {"done", "timeout", "lost", "refused", "unreadable", "unsupported"} :
            /\ running' = IF answer \in {"done", "unreadable"} THEN Docker!Effect(m) ELSE running
            /\ control' = [Docker!Touch(c) EXCEPT
                              ![c] = Docker!AfterMutation(Docker!Requested(c, m, answer), answer)]
    BY DEF Docker!Mutate, Docker!Request, Docker!Answers
  <1> DEFINE q == Docker!Requested(c, m, answer)
             r == Docker!AfterMutation(q, answer)
  <1>3. /\ q \in Docker!Records /\ q.action = m
        /\ m = "restart" => ~q.stopped /\ q.startSent
        /\ q.alone => answer \notin {"timeout", "lost"}
    <2>1. /\ q \in Docker!Records /\ q.action = m
          /\ q.stopped <=> IF m = "stop" THEN answer = "done" ELSE control[c].stopped
          /\ q.startSent <=> m # "stop"
          /\ q.alone => answer \notin {"timeout", "lost"}
      BY <1>1, DockerRequested
    <2> HIDE DEF q
    <2> QED
      BY <1>1, <2>1 DEF Docker!Owed
  <1>4. running' \in BOOLEAN
    BY <1>1, <1>2 DEF Docker!ControlInv, Docker!Effect
  <1> HIDE DEF q
  <1>5. r \in Docker!Records /\ Docker!Owed(r, running')
    <2>1. CASE q.action = "restart" /\ answer = "unsupported"
      <3>1. r = [q EXCEPT !.at = "stop"]
        BY <2>1 DEF Docker!AfterMutation
      <3>2. /\ r \in Docker!Records /\ r.at = "stop" /\ r.action = "restart"
            /\ r.stopped = q.stopped
        BY <1>3, <2>1, <3>1 DEF Docker!Records
      <3> HIDE DEF r
      <3> QED
        BY <1>3, <2>1, <3>2 DEF Docker!Owed
    <2>2. CASE ~(q.action = "restart" /\ answer = "unsupported")
      <3>1. r = Docker!Return(q, Docker!ErrorOf(answer))
        BY <2>2 DEF Docker!AfterMutation
      <3>2. Docker!ErrorOf(answer) \in {"none", "fallbackable", "plain"}
            /\ (Docker!ErrorOf(answer) = "none" => answer \in {"done", "timeout"})
        BY DEF Docker!ErrorOf
      <3>3. r \in Docker!Records /\ r.at \in {"ssh", "returned"} /\ r.action = m
            /\ r.error = Docker!ErrorOf(answer) /\ r.stopped = q.stopped /\ r.alone = q.alone
        BY <1>3, <3>1, <3>2, DockerReturn
      <3>4. r.error = "none" /\ r.alone => running' = Docker!Effect(r.action)
        BY <1>2, <1>3, <3>2, <3>3
      <3> HIDE DEF r
      <3> QED
        BY <1>3, <3>3, <3>4 DEF Docker!Owed
    <2> QED
      BY <2>1, <2>2
  <1>6. control' = [Docker!Touch(c) EXCEPT ![c] = r]
    BY <1>2 DEF q
  <1> HIDE DEF r
  <1> QED
    BY <1>4, <1>5, <1>6, DockerMoves

LEMMA DockerStop ==
    ASSUME Docker!ControlInv, NEW c \in Callers, Docker!Stop(c)
    PROVE  Docker!ControlInv'
  <1>1. /\ control[c] # None /\ control[c].at = "stop"
        /\ control[c] \in Docker!Records /\ Docker!Owed(control[c], running)
    BY DockerAt DEF Docker!Stop, Docker!At
  <1>2. PICK answer \in {"done", "timeout", "lost", "refused", "unreadable", "unsupported"} :
            /\ running' = IF answer \in {"done", "unreadable"} THEN Docker!Effect("stop") ELSE running
            /\ control' = [Docker!Touch(c) EXCEPT
                              ![c] = Docker!AfterStop(Docker!Requested(c, "stop", answer), answer)]
    BY DEF Docker!Stop, Docker!Request, Docker!Answers
  <1> DEFINE q == Docker!Requested(c, "stop", answer)
             r == Docker!AfterStop(q, answer)
  <1>3. /\ q \in Docker!Records /\ q.action = "restart"
        /\ q.stopped <=> answer = "done"
    <2>1. /\ q \in Docker!Records /\ q.action = control[c].action
          /\ q.stopped <=> answer = "done"
      BY <1>1, DockerRequested
    <2> HIDE DEF q
    <2> QED
      BY <1>1, <2>1 DEF Docker!Owed
  <1>4. running' \in BOOLEAN
    BY <1>1, <1>2 DEF Docker!ControlInv, Docker!Effect
  <1>5. control' = [Docker!Touch(c) EXCEPT ![c] = r]
    BY <1>2 DEF q
  <1> HIDE DEF q
  <1>6. r \in Docker!Records /\ Docker!Owed(r, running')
    <2>1. CASE Docker!ErrorOf(answer) = "none"
      <3>1. r = [q EXCEPT !.at = "pause"]
        BY <2>1 DEF Docker!AfterStop
      <3>2. r \in Docker!Records /\ r.at = "pause" /\ r.action = "restart"
        BY <1>3, <3>1 DEF Docker!Records
      <3> HIDE DEF r
      <3> QED
        BY <3>2 DEF Docker!Owed
    <2>2. CASE Docker!ErrorOf(answer) # "none"
      <3>1. r = Docker!Return(q, Docker!ErrorOf(answer))
        BY <2>2 DEF Docker!AfterStop
      <3>2. Docker!ErrorOf(answer) \in {"fallbackable", "plain"} /\ answer # "done"
        BY <2>2 DEF Docker!ErrorOf
      <3>3. r \in Docker!Records /\ r.at \in {"ssh", "returned"} /\ r.error # "none" /\ ~r.stopped
        BY <1>3, <3>1, <3>2, DockerReturn
      <3> HIDE DEF r
      <3> QED
        BY <3>3 DEF Docker!Owed
    <2> QED
      BY <2>1, <2>2
  <1> HIDE DEF r
  <1> QED
    BY <1>4, <1>5, <1>6, DockerMoves

LEMMA DockerStart ==
    ASSUME Docker!ControlInv, NEW c \in Callers, Docker!Start(c) \/ Docker!Recover(c)
    PROVE  Docker!ControlInv'
  <1> DEFINE After(record, answer) == IF Docker!Start(c) THEN Docker!AfterStart(record, answer)
                                      ELSE Docker!AfterRecovery(record, answer)
  <1>1. /\ control[c] # None /\ control[c].at \in {"start", "recover"}
        /\ control[c].at = "recover" <=> ~Docker!Start(c)
        /\ control[c] \in Docker!Records /\ Docker!Owed(control[c], running)
    BY DockerAt DEF Docker!Start, Docker!Recover, Docker!At
  <1>2. PICK answer \in {"done", "timeout", "lost", "refused", "unreadable", "unsupported"} :
            /\ running' = IF answer \in {"done", "unreadable"} THEN Docker!Effect("start") ELSE running
            /\ control' = [Docker!Touch(c) EXCEPT
                              ![c] = After(Docker!Requested(c, "start", answer), answer)]
    <2>1. CASE Docker!Start(c)
      BY <2>1 DEF Docker!Start, Docker!Request, Docker!Answers
    <2>2. CASE ~Docker!Start(c)
      BY <2>2 DEF Docker!Recover, Docker!Request, Docker!Answers
    <2> QED
      BY <2>1, <2>2
  <1> DEFINE q == Docker!Requested(c, "start", answer)
             r == After(q, answer)
  <1>3. /\ q \in Docker!Records /\ q.action = "restart" /\ q.startSent
        /\ q.error = control[c].error
        /\ q.alone => answer \notin {"timeout", "lost"}
    <2>1. /\ q \in Docker!Records /\ q.action = control[c].action /\ q.startSent
          /\ q.error = control[c].error
          /\ q.alone => answer \notin {"timeout", "lost"}
      BY <1>1, DockerRequested
    <2> HIDE DEF q
    <2> QED
      BY <1>1, <2>1 DEF Docker!Owed
  <1>4. running' \in BOOLEAN
    BY <1>1, <1>2 DEF Docker!ControlInv, Docker!Effect
  <1>5. control' = [Docker!Touch(c) EXCEPT ![c] = r]
    BY <1>2 DEF q
  <1>6. Docker!ErrorOf(answer) \in {"none", "fallbackable", "plain"}
        /\ (Docker!ErrorOf(answer) = "none" => answer \in {"done", "timeout"})
    BY DEF Docker!ErrorOf
  <1> HIDE DEF q
  <1>7. r \in Docker!Records /\ Docker!Owed(r, running')
    <2>1. CASE Docker!Start(c) /\ Docker!ErrorOf(answer) = "none"
      <3>1. r = Docker!Return(q, "none")
        BY <2>1 DEF Docker!AfterStart
      <3>2. /\ r \in Docker!Records /\ r.at \in {"ssh", "returned"} /\ r.action = "restart"
            /\ r.startSent /\ r.alone = q.alone
        BY <1>3, <3>1, DockerReturn
      <3>3. r.alone => running' = Docker!Effect("restart")
        BY <1>2, <1>3, <1>6, <2>1, <3>2 DEF Docker!Effect
      <3> HIDE DEF r
      <3> QED
        BY <3>2, <3>3 DEF Docker!Owed
    <2>2. CASE Docker!Start(c) /\ Docker!ErrorOf(answer) # "none"
      <3>1. r = [q EXCEPT !.at = "recover", !.error = Docker!ErrorOf(answer)]
        BY <2>2 DEF Docker!AfterStart
      <3>2. /\ r \in Docker!Records /\ r.at = "recover" /\ r.action = "restart"
            /\ r.error # "none"
        BY <1>3, <1>6, <2>2, <3>1 DEF Docker!Records
      <3> HIDE DEF r
      <3> QED
        BY <3>2 DEF Docker!Owed
    <2>3. CASE ~Docker!Start(c)
      <3> DEFINE e == IF Docker!ErrorOf(answer) = "fallbackable" THEN "fallbackable" ELSE q.error
      <3>1. r = Docker!Return(q, e)
        BY <2>3 DEF Docker!AfterRecovery
      <3>2. e \in {"fallbackable", "plain"}
        BY <1>1, <1>3, <2>3 DEF Docker!Owed, Docker!Records
      <3> HIDE DEF e
      <3>3. /\ r \in Docker!Records /\ r.at \in {"ssh", "returned"} /\ r.error # "none"
            /\ r.startSent
        BY <1>3, <3>1, <3>2, DockerReturn
      <3> HIDE DEF r
      <3> QED
        BY <3>3 DEF Docker!Owed
    <2> QED
      BY <2>1, <2>2, <2>3
  <1> HIDE DEF r
  <1> QED
    BY <1>4, <1>5, <1>7, DockerMoves

LEMMA DockerSSH ==
    ASSUME Docker!ControlInv, NEW c \in Callers, Docker!SSH(c)
    PROVE  Docker!ControlInv'
  <1> DEFINE m == control[c].action
  <1>1. /\ control[c] # None /\ control[c].at = "ssh"
        /\ control[c] \in Docker!Records /\ Docker!Owed(control[c], running)
    BY DockerAt DEF Docker!SSH, Docker!At
  <1>2. PICK error \in {"none", "plain"}, done \in BOOLEAN :
            /\ error = "none" => done
            /\ running' = IF done THEN Docker!Effect(m) ELSE running
            /\ control' = [Docker!Touch(c) EXCEPT ![c] = [control[c] EXCEPT
                  !.at = "returned", !.error = error, !.startSent = @ \/ m # "stop"]]
    BY DEF Docker!SSH
  <1> DEFINE sent == control[c].startSent \/ m # "stop"
             r == [control[c] EXCEPT !.at = "returned", !.error = error, !.startSent = sent]
  <1>3. control' = [Docker!Touch(c) EXCEPT ![c] = r]
    BY <1>2, Zenon
  <1>4. sent \in BOOLEAN /\ (m = "restart" => sent)
    BY <1>1
  <1> HIDE DEF sent
  <1>5. /\ r \in Docker!Records /\ r.at = "returned" /\ r.error = error
        /\ r.action = m /\ r.startSent = sent
    BY <1>1, <1>4 DEF Docker!Records
  <1>6. running' \in BOOLEAN
    BY <1>1, <1>2 DEF Docker!ControlInv, Docker!Effect
  <1>7. r.error = "none" => running' = Docker!Effect(r.action)
    BY <1>2, <1>5
  <1> HIDE DEF r
  <1>8. Docker!Owed(r, running')
    BY <1>4, <1>5, <1>7 DEF Docker!Owed
  <1> QED
    BY <1>3, <1>5, <1>6, <1>8, DockerMoves

LEMMA DockerControls ==
    ASSUME Docker!ControlInv, NEW c \in Callers, NEW action \in {"start", "stop", "restart"},
           NEW at \in {"api", "ssh"}, Docker!Control(c, action, at)
    PROVE  Docker!ControlInv'
  <1> DEFINE alone == \A d \in Callers : ~Docker!InCall(d)
             r == [action |-> action, at |-> at, cancelled |-> FALSE, error |-> "none",
                   alone |-> alone, stopped |-> FALSE, startSent |-> FALSE]
  <1>1. control' = [control EXCEPT ![c] = r] /\ UNCHANGED running
    BY DEF Docker!Control
  <1>2. alone \in BOOLEAN
    OBVIOUS
  <1> HIDE DEF alone
  <1>3. r \in Docker!Records /\ Docker!Owed(r, running)
    BY <1>2 DEF Docker!Records, Docker!Owed
  <1> HIDE DEF r
  <1> QED
    BY <1>1, <1>3, DockerQuiet

LEMMA DockerCancels ==
    ASSUME Docker!ControlInv, NEW c \in Callers, Docker!Cancel(c)
    PROVE  Docker!ControlInv'
  <1> DEFINE r == [control[c] EXCEPT !.cancelled = TRUE]
  <1>1. control[c] \in Docker!Records /\ Docker!Owed(control[c], running)
    BY DockerAt DEF Docker!Cancel, Docker!InCall
  <1>2. control' = [control EXCEPT ![c] = r] /\ UNCHANGED running
    BY DEF Docker!Cancel
  <1>3. /\ r \in Docker!Records /\ r.at = control[c].at /\ r.action = control[c].action
        /\ r.error = control[c].error /\ r.stopped = control[c].stopped
        /\ r.startSent = control[c].startSent /\ r.alone = control[c].alone
    BY <1>1 DEF Docker!Records
  <1> HIDE DEF r
  <1>4. Docker!Owed(r, running)
    BY <1>1, <1>3 DEF Docker!Owed
  <1> QED
    BY <1>2, <1>3, <1>4, DockerQuiet

LEMMA DockerEndPause ==
    ASSUME Docker!ControlInv, NEW c \in Callers, Docker!EndPause(c)
    PROVE  Docker!ControlInv'
  <1> DEFINE r == Docker!Pause(control[c])
  <1>1. /\ control[c].at = "pause"
        /\ control[c] \in Docker!Records /\ Docker!Owed(control[c], running)
    BY DockerAt DEF Docker!EndPause, Docker!At
  <1>2. control' = [control EXCEPT ![c] = r] /\ UNCHANGED running
    BY DEF Docker!EndPause
  <1>3. /\ r \in Docker!Records /\ r.action = control[c].action
        /\ r.at \in {"start", "recover"} /\ (r.at = "recover" => r.error = "plain")
    <2>1. CASE control[c].cancelled
      <3>1. r = [control[c] EXCEPT !.at = "recover", !.error = "plain"]
        BY <2>1 DEF Docker!Pause
      <3> QED
        BY <1>1, <3>1 DEF Docker!Records
    <2>2. CASE ~control[c].cancelled
      <3>1. r = [control[c] EXCEPT !.at = "start"]
        BY <2>2 DEF Docker!Pause
      <3> QED
        BY <1>1, <3>1 DEF Docker!Records
    <2> QED
      BY <2>1, <2>2
  <1> HIDE DEF r
  <1>4. Docker!Owed(r, running)
    BY <1>1, <1>3 DEF Docker!Owed
  <1> QED
    BY <1>2, <1>3, <1>4, DockerQuiet

LEMMA DockerLate ==
    ASSUME Docker!ControlInv, NEW m \in late, Docker!Late(m)
    PROVE  Docker!ControlInv'
  <1>1. CASE UNCHANGED <<running, control>>
    BY <1>1 DEF Docker!ControlInv
  <1>2. CASE ~UNCHANGED <<running, control>>
    <2>1. /\ running' = Docker!Effect(m)
          /\ control' = [c \in Callers |-> IF control[c] = None THEN None
                                           ELSE [control[c] EXCEPT !.alone = FALSE]]
      BY <1>2 DEF Docker!Late
    <2>2. ASSUME NEW c \in Callers
          PROVE  /\ control'[c] \in Docker!Records \cup {None}
                 /\ control'[c] # None => Docker!Owed(control'[c], running')
      <3>1. CASE control[c] = None
        BY <2>1, <3>1
      <3>2. CASE control[c] # None
        <4> DEFINE r == [control[c] EXCEPT !.alone = FALSE]
        <4>1. control[c] \in Docker!Records /\ Docker!Owed(control[c], running)
          BY <3>2, DockerAt
        <4>2. /\ r \in Docker!Records /\ r.at = control[c].at /\ r.action = control[c].action
              /\ r.error = control[c].error /\ r.stopped = control[c].stopped
              /\ r.startSent = control[c].startSent /\ ~r.alone
          BY <4>1 DEF Docker!Records
        <4>3. control'[c] = r
          BY <2>1, <3>2
        <4> HIDE DEF r
        <4>4. Docker!Owed(r, running')
          BY <4>1, <4>2 DEF Docker!Owed
        <4> QED
          BY <4>2, <4>3, <4>4
      <3> QED
        BY <3>1, <3>2
    <2>3. running' \in BOOLEAN
      BY <2>1 DEF Docker!Effect
    <2>4. control' \in [Callers -> Docker!Records \cup {None}]
      BY <2>1, <2>2
    <2> QED
      BY <2>2, <2>3, <2>4 DEF Docker!ControlInv
  <1> QED
    BY <1>1, <1>2

LEMMA DockerNext ==
    ASSUME Docker!ControlInv, [Docker!Next]_dockerVars
    PROVE  Docker!ControlInv'
  <1>1. ASSUME NEW c \in Callers, NEW action \in {"start", "stop", "restart"},
               NEW at \in {"api", "ssh"}, Docker!Control(c, action, at)
        PROVE  Docker!ControlInv'
    BY <1>1, DockerControls
  <1>2. ASSUME NEW c \in Callers,
               \/ Docker!Cancel(c) \/ Docker!Mutate(c) \/ Docker!Stop(c) \/ Docker!EndPause(c)
               \/ Docker!Start(c) \/ Docker!Recover(c) \/ Docker!SSH(c)
        PROVE  Docker!ControlInv'
    BY <1>2, DockerCancels, DockerMutate, DockerStop, DockerEndPause, DockerStart, DockerSSH
  <1>3. ASSUME NEW m \in late, Docker!Late(m)
        PROVE  Docker!ControlInv'
    BY <1>3, DockerLate
  <1>4. CASE UNCHANGED dockerVars
    BY <1>4 DEF dockerVars, Docker!ControlInv
  <1> QED
    BY <1>1, <1>2, <1>3, <1>4 DEF Docker!Next

LEMMA DockerInvariant == MCSpec => []Docker!ControlInv
  <1>1. MCInit => Docker!ControlInv
    BY DEF MCInit, Docker!Init, Docker!ControlInv
  <1>2. Docker!ControlInv /\ [MCNext]_MCVars => Docker!ControlInv'
    BY DockerNext
    DEF MCNext, CollectedStep, DockerStep, NetworkStep, LoginStep, HeldStep, MCVars
  <1> QED
    BY <1>1, <1>2, PTL DEF MCSpec

(* runStopStartRestart: a restart whose stop was confirmed has asked for a *)
(* start before it returns, however its requests fail and whenever it is   *)
(* cancelled.                                                              *)
THEOREM RestartAlwaysStarts == MCSpec => []RestartStartsAgain
  <1>1. Docker!ControlInv => RestartStartsAgain
    BY DEF Docker!ControlInv, Docker!Owed, Docker!At, RestartStartsAgain, Docker!RestartStartsAgain
  <1> QED
    BY <1>1, DockerInvariant, PTL

(* ControlContainer, markFallbackable and the fallback to SSH: a success   *)
(* that no lost request and no other call puts in doubt is true.           *)
THEOREM ReportedSuccessTrue == MCSpec => []SuccessIsTrue
  <1>1. Docker!ControlInv => SuccessIsTrue
    BY DEF Docker!ControlInv, Docker!Owed, Docker!At, SuccessIsTrue, Docker!SuccessIsTrue
  <1> QED
    BY <1>1, DockerInvariant, PTL

-----------------------------------------------------------------------------
(* The snapshot: what is reported of the world, and what a user sees of it.  *)

LEMMA LeastOf ==
    ASSUME NEW S \in SUBSET Nat, S # {}
    PROVE  \E x \in S : \A y \in S : x <= y
  <1> DEFINE less == {ss \in Nat \X Nat : ss[1] < ss[2]}
  <1>1. IsWellFoundedOn(less, Nat)
    BY NatLessThanWellFounded, Zenon DEF OpToRel
  <1> HIDE DEF less
  <1>2. PICK x \in S : \A y \in S : <<y, x>> \notin less
    BY <1>1, WFMin
  <1>3. ASSUME NEW y \in S PROVE x <= y
    <2>1. ~(<<y, x>> \in less)
      BY <1>2
    <2> QED
      BY <2>1 DEF less
  <1> QED
    BY <1>3

SnapshotAssumed == IsFiniteSet(Apps)

LEMMA CollectedAssumption == SnapshotAssumed
  <1>1. Collected!IsFiniteSet(Apps) <=> IsFiniteSet(Apps)
    BY DEF Collected!IsFiniteSet, IsFiniteSet
  <1> QED
    BY <1>1, PartsAssumption DEF PartsAssumption, Collected!SnapshotAssumption, SnapshotAssumed

(* A finite set, put in some order.                                          *)
LEMMA OrderOf ==
    ASSUME NEW S, IsFiniteSet(S)
    PROVE  \E m \in Nat : /\ Collected!Cardinality(S) = m
                          /\ Collected!SetToSeq(S) \in [1..m -> S]
                          /\ \A x \in S : \E n \in 1..m : Collected!SetToSeq(S)[n] = x
  <1>1. Collected!Cardinality(S) = Cardinality(S)
    BY DEF Collected!Cardinality, Cardinality
  <1>2. PICK m \in Nat : m = Cardinality(S) /\ ExistsBijection(1..m, S)
    BY FS_CardinalityType
  <1>3. PICK f \in [1..m -> S] : \A a, b \in 1..m : f[a] = f[b] => a = b
    BY <1>2 DEF ExistsBijection, Bijection, Injection, IsInjective
  <1>4. PICK g : g = Collected!SetToSeq(S)
    OBVIOUS
  <1>5. g \in [1..m -> S] /\ Collected!IsInjective(g)
    <2>1. Collected!IsInjective(f)
      BY <1>3 DEF Collected!IsInjective
    <2> QED
      BY <1>1, <1>2, <1>4, <2>1 DEF Collected!SetToSeq
  <1>6. \A a, b \in 1..m : g[a] = g[b] => a = b
    BY <1>5 DEF Collected!IsInjective
  <1>7. g \in Surjection(1..m, S)
    <2>1. IsFiniteSet(1..m) /\ Cardinality(1..m) = m
      BY <1>2, FS_Interval
    <2>2. g \in Injection(1..m, S)
      BY <1>5, <1>6 DEF Injection, IsInjective
    <2> QED
      BY <1>2, <2>1, <2>2, FS_Injection
  <1> QED
    BY <1>1, <1>2, <1>4, <1>5, <1>7 DEF Surjection

(* Of apps there are finitely many, whoever lists them.                      *)
LEMMA ListedAreApps ==
    ASSUME NEW w
    PROVE  Collected!ListedApps(w) \subseteq Apps /\ Collected!UserApps(w) \subseteq Apps \ w.hidden
  BY DEF Collected!ListedApps, Collected!Listed, Collected!APIApps, Collected!SSHApps, Collected!UserApps

-----------------------------------------------------------------------------
(* The rollup: the status of each app in turn.                               *)

AppStatuses == {"offline", "degraded", "online", "unknown"}

LEMMA StatusType == \A w, a : Collected!Status(w, a) \in AppStatuses
  BY DEF Collected!Status, Collected!AppStatus, AppStatuses

LEMMA WorseIs ==
    ASSUME NEW s \in AppStatuses, NEW a \in AppStatuses, NEW c, c = Collected!Worse(s, a)
    PROVE  /\ c \in AppStatuses
           /\ c = "online" <=> s = "online" /\ a = "online"
           /\ s = "offline" \/ a = "offline" => c = "offline"
           /\ s \in {"degraded", "offline"} \/ a = "degraded" => c \in {"degraded", "offline"}
  <1>1. CASE a = "offline"
    BY <1>1 DEF Collected!Worse, AppStatuses
  <1>2. CASE a = "degraded"
    BY <1>2 DEF Collected!Worse, AppStatuses
  <1>3. CASE a = "unknown"
    BY <1>3 DEF Collected!Worse, AppStatuses
  <1>4. CASE a = "online"
    BY <1>4 DEF Collected!Worse, AppStatuses
  <1> QED
    BY <1>1, <1>2, <1>3, <1>4 DEF AppStatuses

Rolls(f, first, s) == /\ f \in [0..Len(s) -> AppStatuses] /\ f[0] = first
                      /\ \A n \in 1..Len(s) : f[n] = Collected!Worse(f[n - 1], s[n])

LEMMA RollsExist ==
    ASSUME NEW first \in AppStatuses, NEW s \in Seq(AppStatuses)
    PROVE  \E f : Rolls(f, first, s)
  <1>1. PICK m \in Nat : m = Len(s)
    OBVIOUS
  <1> DEFINE Good(f, n) == f[0] = first /\ \A k \in 1..n : f[k] = Collected!Worse(f[k - 1], s[k])
             bad == {n \in 0..m : ~\E f \in [0..n -> AppStatuses] : Good(f, n)}
  <1>2. bad = {}
    <2> SUFFICES ASSUME bad # {} PROVE FALSE
      OBVIOUS
    <2>1. PICK n \in bad : \A k \in bad : n <= k
      <3>1. bad \in SUBSET Nat
        OBVIOUS
      <3> HIDE DEF bad
      <3> QED
        BY <3>1, LeastOf
    <2>2. n \in 0..m /\ ~\E f \in [0..n -> AppStatuses] : Good(f, n)
      BY <2>1
    <2>3. n # 0
      <3>1. Good([k \in 0..0 |-> first], 0)
        OBVIOUS
      <3> QED
        BY <2>2, <3>1
    <2>4. n \in 1..m /\ n - 1 \in 0..m /\ n - 1 \notin bad
      <3> HIDE DEF bad
      <3> QED
        BY <2>1, <2>2, <2>3
    <2>5. PICK f \in [0..(n - 1) -> AppStatuses] : Good(f, n - 1)
      BY <2>4
    <2>6. n - 1 \in 0..(n - 1) /\ s[n] \in AppStatuses
      BY <1>1, <2>4
    <2>7. PICK x \in AppStatuses : x = Collected!Worse(f[n - 1], s[n])
      <3>1. f[n - 1] \in AppStatuses
        BY <2>6
      <3> QED
        BY <2>6, <3>1, WorseIs
    <2> DEFINE g == [k \in 0..n |-> IF k = n THEN x ELSE f[k]]
    <2>8. g \in [0..n -> AppStatuses]
      BY <2>2, <2>7
    <2>9. ASSUME NEW k \in 1..n
          PROVE  g[k] = Collected!Worse(g[k - 1], s[k])
      <3>1. k \in 0..n /\ k - 1 \in 0..n /\ k - 1 # n
        BY <2>2
      <3>2. g[k - 1] = f[k - 1]
        BY <3>1
      <3>3. CASE k = n
        BY <2>7, <3>1, <3>2, <3>3
      <3>4. CASE k # n
        <4>1. k \in 1..(n - 1)
          BY <2>2, <3>4
        <4>2. g[k] = f[k]
          BY <3>1, <3>4
        <4> QED
          BY <2>5, <3>2, <4>1, <4>2
      <3> QED
        BY <3>3, <3>4
    <2>10. g[0] = first
      BY <2>2, <2>3, <2>5
    <2> QED
      BY <2>2, <2>8, <2>9, <2>10
  <1>3. PICK f \in [0..m -> AppStatuses] : Good(f, m)
    <2>1. m \in 0..m
      OBVIOUS
    <2>2. m \notin bad
      BY <1>2, Zenon
    <2> QED
      BY <2>1, <2>2
  <1>4. Rolls(f, first, s)
    BY <1>1, <1>3 DEF Rolls
  <1> QED
    BY <1>4

LEMMA RolledIs ==
    ASSUME NEW first \in AppStatuses, NEW s \in Seq(AppStatuses)
    PROVE  \E f : Rolls(f, first, s) /\ Collected!Rolled(first, s) = f[Len(s)]
  <1> DEFINE m == Len(s)
             Rec(f) == [n \in 0..m |-> IF n = 0 THEN first ELSE Collected!Worse(f[n - 1], s[n])]
             rolled == CHOOSE f : f = Rec(f)
  <1>1. PICK f : Rolls(f, first, s)
    BY RollsExist
  <1>2. f = Rec(f)
    <2>1. \A n \in 0..m : n = 0 \/ n \in 1..m
      OBVIOUS
    <2>2. f = [n \in 0..m |-> f[n]]
      BY <1>1 DEF Rolls
    <2> QED
      BY <1>1, <2>1, <2>2 DEF Rolls
  <1>3. rolled = Rec(rolled)
    BY <1>2
  <1>4. Collected!Rolled(first, s) = rolled[m]
    BY DEF Collected!Rolled
  <1>5. \A n \in 0..m : rolled[n] = f[n]
    <2> DEFINE bad == {n \in 0..m : rolled[n] # f[n]}
    <2> SUFFICES ASSUME bad # {} PROVE FALSE
      OBVIOUS
    <2> HIDE DEF rolled
    <2>1. PICK n \in bad : \A k \in bad : n <= k
      <3>1. bad \in SUBSET Nat
        OBVIOUS
      <3> HIDE DEF bad
      <3> QED
        BY <3>1, LeastOf
    <2>2. n \in 0..m /\ rolled[n] # f[n]
      BY <2>1
    <2>3. n # 0
      BY <1>1, <1>3, <2>2 DEF Rolls
    <2>4. n - 1 \in 0..m /\ n \in 1..m
      BY <2>2, <2>3
    <2>5. rolled[n - 1] = f[n - 1]
      <3>1. n - 1 \notin bad
        <4> HIDE DEF bad
        <4> QED
          BY <2>1, <2>2
      <3> QED
        BY <2>4, <3>1
    <2>6. rolled[n] = Collected!Worse(rolled[n - 1], s[n])
      BY <1>3, <2>2, <2>3
    <2> QED
      BY <1>1, <2>2, <2>4, <2>5, <2>6 DEF Rolls
  <1>6. m \in 0..m
    OBVIOUS
  <1> HIDE DEF rolled
  <1> QED
    BY <1>1, <1>4, <1>5, <1>6

(* The rollup of a list is the worst of where it starts and of the list.     *)
Covers(c, first, s, n) ==
    /\ c = "online" <=> first = "online" /\ \A k \in 1..n : s[k] = "online"
    /\ first = "offline" \/ (\E k \in 1..n : s[k] = "offline") => c = "offline"
    /\ (\E k \in 1..n : s[k] = "degraded") => c \in {"degraded", "offline"}

LEMMA RolledWorst ==
    ASSUME NEW first \in AppStatuses, NEW s \in Seq(AppStatuses)
    PROVE  Covers(Collected!Rolled(first, s), first, s, Len(s))
  <1>1. PICK f : Rolls(f, first, s) /\ Collected!Rolled(first, s) = f[Len(s)]
    BY RolledIs
  <1>2. PICK m \in Nat : m = Len(s)
    OBVIOUS
  <1> DEFINE bad == {n \in 0..m : ~Covers(f[n], first, s, n)}
  <1>3. bad = {}
    <2> SUFFICES ASSUME bad # {} PROVE FALSE
      OBVIOUS
    <2>1. PICK n \in bad : \A k \in bad : n <= k
      <3>1. bad \in SUBSET Nat
        OBVIOUS
      <3> HIDE DEF bad
      <3> QED
        BY <3>1, LeastOf
    <2>2. n \in 0..m /\ ~Covers(f[n], first, s, n)
      BY <2>1
    <2>3. n # 0
      BY <1>1, <2>2 DEF Rolls, Covers
    <2>4. n \in 1..m /\ n - 1 \in 0..m
      BY <2>2, <2>3
    <2>5. Covers(f[n - 1], first, s, n - 1)
      <3>1. n - 1 \notin bad
        <4> HIDE DEF bad
        <4> QED
          BY <2>1, <2>2
      <3> QED
        BY <2>4, <3>1
    <2>6. PICK b \in AppStatuses, a \in AppStatuses, c \in AppStatuses :
              b = f[n - 1] /\ a = s[n] /\ c = f[n]
      BY <1>1, <1>2, <2>2, <2>4 DEF Rolls
    <2>7. c = Collected!Worse(b, a)
      BY <1>1, <1>2, <2>4, <2>6 DEF Rolls
    <2>8. \A k \in 1..n : k = n \/ k \in 1..(n - 1)
      BY <2>4
    <2>9. \A k \in 1..(n - 1) : k \in 1..n
      BY <2>4
    <2>10. n \in 1..n
      BY <2>4
    <2>11. c = "online" <=> first = "online" /\ \A k \in 1..n : s[k] = "online"
      BY <2>5, <2>6, <2>7, <2>8, <2>9, <2>10, WorseIs DEF Covers
    <2>12. first = "offline" \/ (\E k \in 1..n : s[k] = "offline") => c = "offline"
      BY <2>5, <2>6, <2>7, <2>8, WorseIs DEF Covers
    <2>13. (\E k \in 1..n : s[k] = "degraded") => c \in {"degraded", "offline"}
      BY <2>5, <2>6, <2>7, <2>8, WorseIs DEF Covers
    <2> HIDE DEF bad
    <2> QED
      BY <2>2, <2>6, <2>11, <2>12, <2>13 DEF Covers
  <1>4. m \in 0..m /\ m \notin bad
    <2> HIDE DEF bad
    <2> QED
      BY <1>3
  <1> QED
    BY <1>1, <1>2, <1>4

(* The statuses of the apps a user sees, in some order.                      *)
LEMMA StatusesIs ==
    ASSUME SnapshotAssumed, NEW w
    PROVE  LET order == Collected!SetToSeq(Collected!UserApps(w))
               s == [n \in 1..Collected!Cardinality(Collected!UserApps(w)) |->
                        Collected!Status(w, order[n])]
           IN  /\ s \in Seq(AppStatuses)
               /\ {s[n] : n \in 1..Len(s)} = {Collected!Status(w, a) : a \in Collected!UserApps(w)}
  <1>1. PICK S : S = Collected!UserApps(w)
    OBVIOUS
  <1>2. IsFiniteSet(S)
    BY <1>1, ListedAreApps, FS_Subset DEF SnapshotAssumed
  <1>3. PICK m \in Nat : /\ Collected!Cardinality(S) = m
                         /\ Collected!SetToSeq(S) \in [1..m -> S]
                         /\ \A x \in S : \E n \in 1..m : Collected!SetToSeq(S)[n] = x
    BY <1>2, OrderOf
  <1>4. PICK order \in [1..m -> S] : order = Collected!SetToSeq(S)
    BY <1>3
  <1>5. PICK s : s = [n \in 1..m |-> Collected!Status(w, order[n])]
    OBVIOUS
  <1>6. s \in [1..m -> AppStatuses]
    BY <1>5, StatusType
  <1>7. s \in Seq(AppStatuses) /\ Len(s) = m
    BY <1>6
  <1>8. {s[n] : n \in 1..m} = {Collected!Status(w, a) : a \in S}
    BY <1>3, <1>4, <1>5
  <1> QED
    BY <1>1, <1>3, <1>4, <1>5, <1>7, <1>8

LEMMA RollupCovers ==
    ASSUME SnapshotAssumed
    PROVE  Collected!RollupIsWorst
  <1>1. PICK facts : facts = Collected!UserFacts(found)
    OBVIOUS
  <1>2. PICK first \in AppStatuses : first = Collected!FactStatus(facts)
    BY DEF Collected!FactStatus, AppStatuses
  <1>3. first = "online" <=> facts = {}
    BY <1>2 DEF Collected!FactStatus, Collected!Some
  <1>4. Collected!Some(facts, {"high"}) => first = "offline"
    BY <1>2 DEF Collected!FactStatus
  <1>5. PICK s \in Seq(AppStatuses) :
            /\ s = [n \in 1..Collected!Cardinality(Collected!UserApps(found)) |->
                       Collected!Status(found, Collected!SetToSeq(Collected!UserApps(found))[n])]
            /\ {s[n] : n \in 1..Len(s)} =
                   {Collected!Status(found, a) : a \in Collected!UserApps(found)}
    BY StatusesIs
  <1>6. PICK c : c = Collected!UserRollup(found)
    OBVIOUS
  <1>7. Covers(c, first, s, Len(s))
    BY <1>1, <1>2, <1>5, <1>6, RolledWorst DEF Collected!UserRollup
  <1>8. PICK apps : apps = {Collected!Status(found, a) : a \in Collected!UserApps(found)}
    OBVIOUS
  <1>9. apps = {s[n] : n \in 1..Len(s)}
    BY <1>5, <1>8
  <1>10. c = "online" <=> (facts = {} /\ apps \subseteq {"online"})
    BY <1>3, <1>7, <1>9 DEF Covers
  <1>11. "offline" \in apps => c = "offline"
    BY <1>7, <1>9 DEF Covers
  <1>12. "degraded" \in apps => c \in {"degraded", "offline"}
    BY <1>7, <1>9 DEF Covers
  <1>13. Collected!Some(facts, {"high"}) => c = "offline"
    BY <1>4, <1>7 DEF Covers
  <1> QED
    BY <1>1, <1>6, <1>8, <1>10, <1>11, <1>12, <1>13 DEF Collected!RollupIsWorst
-----------------------------------------------------------------------------
(* The facts: lists put one after the other.                                 *)

Listing(s) == s \in Seq(Collected!ToSet(s))

LEMMA ListingJoins ==
    ASSUME NEW s, Listing(s), NEW t, Listing(t)
    PROVE  /\ Listing(s \o t)
           /\ Collected!ToSet(s \o t) = Collected!ToSet(s) \cup Collected!ToSet(t)
  <1>1. PICK S : S = Collected!ToSet(s) \cup Collected!ToSet(t)
    OBVIOUS
  <1>2. s \in Seq(S) /\ t \in Seq(S)
    <2>1. ASSUME NEW A, NEW B, A \subseteq B, NEW x \in Seq(A) PROVE x \in Seq(B)
      BY <2>1
    <2> QED
      BY <1>1, <2>1 DEF Listing
  <1>3. PICK u : u = s \o t
    OBVIOUS
  <1>4. /\ u \in Seq(S) /\ Len(u) = Len(s) + Len(t)
        /\ \A n \in 1..Len(s) : u[n] = s[n]
        /\ \A n \in 1..Len(t) : u[Len(s) + n] = t[n]
    BY <1>2, <1>3
  <1>5. \A n \in 1..Len(u) : n \in 1..Len(s) \/ (n - Len(s) \in 1..Len(t) /\ n = Len(s) + (n - Len(s)))
    BY <1>2, <1>4
  <1>6. /\ Collected!ToSet(u) = {u[n] : n \in 1..Len(u)}
        /\ Collected!ToSet(s) = {s[n] : n \in 1..Len(s)}
        /\ Collected!ToSet(t) = {t[n] : n \in 1..Len(t)}
    <2>1. ASSUME NEW A, NEW x \in Seq(A) PROVE DOMAIN x = 1..Len(x)
      OBVIOUS
    <2> QED
      BY <1>2, <1>4, <2>1, Zenon DEF Collected!ToSet
  <1>7. Collected!ToSet(u) \subseteq S
    BY <1>1, <1>4, <1>5, <1>6
  <1>8. \A n \in 1..Len(s) : n \in 1..Len(u)
    BY <1>2, <1>4
  <1>9. \A n \in 1..Len(t) : Len(s) + n \in 1..Len(u)
    BY <1>2, <1>4
  <1>10. S \subseteq Collected!ToSet(u)
    BY <1>1, <1>4, <1>6, <1>8, <1>9
  <1> QED
    BY <1>1, <1>3, <1>4, <1>7, <1>10 DEF Listing

LEMMA WhenIs ==
    ASSUME NEW fact, NEW condition
    PROVE  /\ Listing(Collected!When(condition, fact))
           /\ condition => fact \in Collected!ToSet(Collected!When(condition, fact))
  <1>1. /\ Listing(<<fact>>) /\ Collected!ToSet(<<fact>>) = {fact}
        /\ Listing(<<>>)
    BY DEF Listing, Collected!ToSet
  <1> QED
    BY <1>1, Zenon DEF Collected!When

LEMMA OrderedListing ==
    ASSUME NEW S, IsFiniteSet(S)
    PROVE  /\ Listing(Collected!SetToSeq(S))
           /\ Collected!ToSet(Collected!SetToSeq(S)) = S
  <1>0. PICK m \in Nat : /\ Collected!SetToSeq(S) \in [1..m -> S]
                         /\ \A x \in S : \E n \in 1..m : Collected!SetToSeq(S)[n] = x
    BY OrderOf
  <1>1. PICK g \in [1..m -> S] :
            g = Collected!SetToSeq(S) /\ \A x \in S : \E n \in 1..m : g[n] = x
    BY <1>0
  <1>2. Collected!ToSet(g) = S
    BY <1>1 DEF Collected!ToSet
  <1>3. g \in Seq(S)
    BY <1>1
  <1> QED
    BY <1>1, <1>2, <1>3 DEF Listing

LEMMA NetworkListing ==
    ASSUME NEW w
    PROVE  Listing(Collected!NetworkFacts(w))
  <1>1. ASSUME NEW a, NEW b, NEW c, NEW d, NEW e,
               Listing(a), Listing(b), Listing(c), Listing(d), Listing(e)
        PROVE  Listing(a \o b \o c \o d \o e)
    BY <1>1, ListingJoins
  <1> QED
    BY <1>1, WhenIs, Zenon DEF Collected!NetworkFacts

(* Where the server is reached and its API or Docker is not, a rule speaks.  *)
LEMMA ServerListing ==
    ASSUME NEW w
    PROVE  /\ Listing(Collected!ServerFacts(w))
           /\ ~Collected!Infra(w).api =>
                  \E f \in Collected!ToSet(Collected!ServerFacts(w)) : f.severity = "medium"
           /\ Collected!Infra(w).dockerData /\ Collected!Infra(w).api /\ ~Collected!Infra(w).docker =>
                  \E f \in Collected!ToSet(Collected!ServerFacts(w)) : f.severity = "high"
  <1> DEFINE i == Collected!Infra(w)
             unavailable == Collected!Fact("unraid_api_unavailable", "medium", FALSE)
             down == Collected!Fact("docker_service_down", "high", TRUE)
  <1> DEFINE a == Collected!When(~i.api, unavailable)
             b == Collected!When(i.api /\ i.unraid.arrayStopped, Collected!Fact("array_stopped", "high", TRUE))
             c == Collected!When(i.api /\ ~i.unraid.arrayHealthy, Collected!Fact("array_degraded", "high", TRUE))
             d == Collected!When(i.api /\ i.unraid.notices = "alerts", Collected!Fact("unraid_notifications", "high", FALSE))
             e == Collected!When(i.api /\ i.unraid.notices = "warnings", Collected!Fact("unraid_notifications", "medium", FALSE))
             f == Collected!When(i.dockerData /\ i.api /\ ~i.docker, down)
             g == Collected!When(i.api /\ w.fault \in {"disk", "full"}, Collected!Fact("storage_warning", "high", FALSE))
             h == Collected!When(i.api /\ w.fault = "nearly_full", Collected!Fact("array_capacity_high", "medium", FALSE))
             j == Collected!When(i.api /\ w.fault = "full", Collected!Fact("array_capacity_high", "high", FALSE))
             k == Collected!When(i.api /\ i.unraid.memory, Collected!Fact("memory_pressure", "medium", FALSE))
  <1>2. /\ Listing(a) /\ Listing(b) /\ Listing(c) /\ Listing(d) /\ Listing(e)
        /\ Listing(f) /\ Listing(g) /\ Listing(h) /\ Listing(j) /\ Listing(k)
    BY WhenIs, Zenon
  <1>3. ~i.api => unavailable \in Collected!ToSet(a)
    BY WhenIs, Zenon
  <1>4. i.dockerData /\ i.api /\ ~i.docker => down \in Collected!ToSet(f)
    BY WhenIs, Zenon
  <1> HIDE DEF a, b, c, d, e, f, g, h, j, k
  <1>5. PICK s : s = a \o b \o c \o d \o e
    OBVIOUS
  <1>6. Listing(s) /\ Collected!ToSet(a) \subseteq Collected!ToSet(s)
    BY <1>2, <1>5, ListingJoins
  <1>7. PICK t : t = s \o f \o g \o h \o j \o k
    OBVIOUS
  <1>8. /\ Listing(t) /\ Collected!ToSet(s) \subseteq Collected!ToSet(t)
        /\ Collected!ToSet(f) \subseteq Collected!ToSet(t)
    BY <1>2, <1>6, <1>7, ListingJoins
  <1>9. Collected!ServerFacts(w) = t
    BY <1>5, <1>7, Zenon DEF Collected!ServerFacts, a, b, c, d, e, f, g, h, j, k, i, unavailable, down
  <1>10. unavailable.severity = "medium" /\ down.severity = "high"
    BY DEF Collected!Fact
  <1> HIDE DEF i, unavailable, down
  <1>11. ~i.api => \E x \in Collected!ToSet(t) : x.severity = "medium"
    BY <1>3, <1>6, <1>8, <1>10, Zenon
  <1>12. i.dockerData /\ i.api /\ ~i.docker => \E x \in Collected!ToSet(t) : x.severity = "high"
    BY <1>4, <1>8, <1>10, Zenon
  <1> QED
    BY <1>8, <1>9, <1>11, <1>12, Zenon DEF i

(* The facts about the infrastructure, and those about apps after them.      *)
LEMMA InfrastructureListing ==
    ASSUME NEW w
    PROVE  /\ Listing(Collected!InfrastructureFacts(w))
           /\ Collected!Infra(w).unraidData /\ ~Collected!Infra(w).nas =>
                  \E f \in Collected!ToSet(Collected!InfrastructureFacts(w)) : f.severity = "high"
           /\ Collected!Infra(w).unraidData /\ Collected!Infra(w).nas =>
                  Collected!ToSet(Collected!ServerFacts(w))
                      \subseteq Collected!ToSet(Collected!InfrastructureFacts(w))
  <1> DEFINE i == Collected!Infra(w)
             unreachable == Collected!Fact("nas_unreachable", "high", TRUE)
  <1>1. PICK a, b, c :
            /\ a = Collected!NetworkFacts(w)
            /\ b = Collected!LinkFacts(w)
            /\ c = IF i.unraidData THEN Collected!ServerFacts(w) ELSE <<>>
    OBVIOUS
  <1>2. Listing(<<unreachable>>) /\ unreachable \in Collected!ToSet(<<unreachable>>) /\ Listing(<<>>)
    <2> HIDE DEF unreachable
    <2> QED
      BY DEF Listing, Collected!ToSet
  <1>3. Listing(c)
    <2> HIDE DEF i, unreachable
    <2> QED
      BY <1>1, <1>2, ServerListing, Zenon
  <1>4. Listing(b)
    <2>1. {Collected!Fact("probe_slow", "medium", TRUE) : p \in i.latencies} = {}
      BY DEF Collected!Infra
    <2> QED
      BY <1>1, <2>1, FS_EmptySet, OrderedListing DEF Collected!LinkFacts
  <1>5. Listing(a)
    BY <1>1, NetworkListing
  <1>6. PICK d : d = IF i.unraidData /\ ~i.nas THEN <<unreachable>> ELSE b \o c
    OBVIOUS
  <1>12. Listing(b \o c) /\ Collected!ToSet(c) \subseteq Collected!ToSet(b \o c)
    BY <1>3, <1>4, ListingJoins
  <1>13. Listing(d)
    <2> HIDE DEF i, unreachable
    <2> QED
      BY <1>2, <1>6, <1>12, Zenon
  <1>14. PICK t : t = a \o d
    OBVIOUS
  <1>7. Listing(t) /\ Collected!ToSet(d) \subseteq Collected!ToSet(t)
    BY <1>5, <1>13, <1>14, ListingJoins
  <1>8. Collected!InfrastructureFacts(w) = t
    BY <1>1, <1>6, <1>14, Zenon DEF Collected!InfrastructureFacts
  <1>9. unreachable.severity = "high"
    BY DEF Collected!Fact
  <1> HIDE DEF i, unreachable
  <1>10. i.unraidData /\ ~i.nas => \E f \in Collected!ToSet(t) : f.severity = "high"
    BY <1>2, <1>6, <1>7, <1>9, Zenon
  <1>11. i.unraidData /\ i.nas => Collected!ToSet(Collected!ServerFacts(w)) \subseteq Collected!ToSet(t)
    BY <1>1, <1>6, <1>7, <1>12, Zenon
  <1> QED
    BY <1>7, <1>8, <1>10, <1>11, Zenon DEF i

AppFactSet(w) ==
    IF Collected!Infra(w).dockerData /\ Collected!Infra(w).nas /\ Collected!Infra(w).docker
    THEN {Collected!AppFact(w, a) : a \in {b \in Collected!ListedApps(w) : Collected!Status(w, b) # "online"}}
    ELSE {}

LEMMA AppListing ==
    ASSUME SnapshotAssumed, NEW w
    PROVE  Listing(Collected!AppFacts(w)) /\ Collected!ToSet(Collected!AppFacts(w)) = AppFactSet(w)
  <1>1. PICK A : A = {b \in Collected!ListedApps(w) : Collected!Status(w, b) # "online"}
    OBVIOUS
  <1>2. A \subseteq Apps
    BY <1>1, ListedAreApps
  <1>3. PICK F : F = {Collected!AppFact(w, a) : a \in A}
    OBVIOUS
  <1>4. IsFiniteSet(A)
    BY <1>2, FS_Subset DEF SnapshotAssumed
  <1>5. IsFiniteSet(F)
    <2>1. PICK f : f = [a \in A |-> Collected!AppFact(w, a)]
      OBVIOUS
    <2>2. f \in Surjection(A, F)
      BY <1>3, <2>1 DEF Surjection
    <2> QED
      BY <1>4, <2>2, FS_Surjection
  <1>6. Listing(Collected!SetToSeq(F)) /\ Collected!ToSet(Collected!SetToSeq(F)) = F
    BY <1>5, OrderedListing
  <1>7. Listing(<<>>) /\ Collected!ToSet(<<>>) = {}
    BY DEF Listing, Collected!ToSet
  <1> QED
    BY <1>1, <1>3, <1>6, <1>7, Zenon DEF Collected!AppFacts, AppFactSet

LEMMA FactsListing ==
    ASSUME SnapshotAssumed, NEW w
    PROVE  /\ Listing(Collected!Facts(w))
           /\ Collected!ToSet(Collected!Facts(w)) =
                  Collected!ToSet(Collected!InfrastructureFacts(w)) \cup AppFactSet(w)
  BY InfrastructureListing, AppListing, ListingJoins DEF Collected!Facts

(* Whether Docker, the API or the whole server cannot be asked, a rule says  *)
(* so.                                                                       *)
LEMMA BlindSpeaks ==
    ASSUME SnapshotAssumed
    PROVE  Collected!BlindnessShows
  <1> SUFFICES ASSUME found.unraid # "unconfigured", Collected!Listed(found) = None
               PROVE  Collected!OverallStatus(found) # "online"
    BY DEF Collected!BlindnessShows
  <1>1. PICK facts : facts = Collected!ToSet(Collected!Facts(found))
    OBVIOUS
  <1>2. \E f \in facts : f.severity \in {"high", "medium"}
    <2>1. /\ Collected!Infra(found).unraidData /\ Collected!Infra(found).dockerData
          /\ ~Collected!Infra(found).docker
      BY DEF Collected!Infra, Collected!DockerData
    <2>2. \E f \in Collected!ToSet(Collected!InfrastructureFacts(found)) : f.severity \in {"high", "medium"}
      <3>1. CASE ~Collected!Infra(found).nas
        BY <2>1, <3>1, InfrastructureListing
      <3>2. CASE Collected!Infra(found).nas
        <4>1. \E f \in Collected!ToSet(Collected!ServerFacts(found)) : f.severity \in {"high", "medium"}
          BY <2>1, ServerListing
        <4> QED
          BY <2>1, <3>2, <4>1, InfrastructureListing
      <3> QED
        BY <3>1, <3>2
    <2> QED
      BY <1>1, <2>2, FactsListing
  <1>3. Collected!Some(facts, {"high"}) \/ Collected!Some(facts, {"medium", "low"})
    BY <1>2 DEF Collected!Some
  <1>4. PICK status : status = Collected!OverallStatus(found)
    OBVIOUS
  <1>5. CASE \/ Collected!Some(facts, {"high"})
             \/ \E a \in Collected!ListedApps(found) : Collected!Status(found, a) = "offline"
    <2>1. status = "offline"
      BY <1>1, <1>4, <1>5 DEF Collected!OverallStatus
    <2> QED
      BY <1>4, <2>1
  <1>6. CASE ~(\/ Collected!Some(facts, {"high"})
               \/ \E a \in Collected!ListedApps(found) : Collected!Status(found, a) = "offline")
    <2>1. status = "degraded"
      BY <1>1, <1>3, <1>4, <1>6 DEF Collected!OverallStatus
    <2> QED
      BY <1>4, <2>1
  <1> QED
    BY <1>5, <1>6

LEMMA OutageBacked == Collected!WANOutageBacked
  <1> SUFFICES ASSUME found.unifi = "answers", ~Collected!UniFi(found).wanUp
               PROVE  \/ found.gateway = "offline"
                      \/ "up" \notin found.wans /\ ("down" \in found.wans \/ found.wans = {"disabled"})
    BY DEF Collected!WANOutageBacked
  <1>1. ~Collected!WANUp(found)
    BY DEF Collected!UniFi
  <1>2. CASE "up" \in found.wans
    BY <1>1, <1>2 DEF Collected!WANUp
  <1>3. CASE "up" \notin found.wans /\ "down" \in found.wans
    BY <1>3
  <1>4. CASE "up" \notin found.wans /\ "down" \notin found.wans /\ found.wans # {"disabled"}
    BY <1>1, <1>4 DEF Collected!WANUp
  <1> QED
    BY <1>2, <1>3, <1>4

(* collectSnapshot, RuleEngine.Evaluate, FilterSnapshotForRole: whatever the *)
(* world is like, no all-clear by blindness, no outage without evidence and  *)
(* no rollup but the worst of what is shown.                                 *)
THEOREM ReportsAreBacked == MCSpec => []ReportsBacked
  <1>1. ReportsBacked
    BY CollectedAssumption, BlindSpeaks, OutageBacked, RollupCovers
    DEF ReportsBacked, Collected!ReportsBacked
  <1> QED
    BY <1>1, PTL
-----------------------------------------------------------------------------
(* Worlds that differ in nothing but the state of their apps.                *)

SameAround(w, v) ==
    /\ w.unraid = v.unraid /\ w.fault = v.fault /\ w.silent = v.silent
    /\ w.docker = v.docker /\ w.ssh = v.ssh /\ w.unlisted = v.unlisted
    /\ w.unifi = v.unifi /\ w.gateway = v.gateway /\ w.offline = v.offline /\ w.wans = v.wans
    /\ w.probes = v.probes /\ w.hidden = v.hidden /\ w.showIDs = v.showIDs
    /\ w.ids = v.ids

LEMMA AroundSame ==
    ASSUME NEW w, NEW v, SameAround(w, v)
    PROVE  /\ Collected!Infra(v) = Collected!Infra(w)
           /\ Collected!InfrastructureFacts(v) = Collected!InfrastructureFacts(w)
           /\ Collected!ListedApps(v) = Collected!ListedApps(w)
           /\ Collected!UserApps(v) = Collected!UserApps(w)
  <1> USE DEF SameAround
  <1>1. Collected!Unraid(v) = Collected!Unraid(w)
    BY Zenon DEF Collected!Unraid, Collected!APIFailureStatus, Collected!NotificationDetails,
                 Collected!MemoryDetails
  <1>2. Collected!UniFi(v) = Collected!UniFi(w)
    BY DEF Collected!UniFi, Collected!WANUp
  <1>3. Collected!Listed(v) = Collected!Listed(w)
    BY Zenon DEF Collected!Listed, Collected!APIApps, Collected!SSHApps
  <1>4. \A p : /\ Collected!Measured(v, p) <=> Collected!Measured(w, p)
               /\ Collected!Reached(v, p) <=> Collected!Reached(w, p)
    BY DEF Collected!Measured, Collected!Reached
  <1>5. Collected!Infra(v) = Collected!Infra(w)
    BY <1>1, <1>2, <1>3, <1>4, Zenon DEF Collected!Infra, Collected!DockerData, Collected!Measured, Collected!Reached
  <1>6. Collected!NetworkFacts(v) = Collected!NetworkFacts(w)
    BY <1>5, Zenon DEF Collected!NetworkFacts, Collected!Measured, Collected!Reached
  <1>7. Collected!ServerFacts(v) = Collected!ServerFacts(w)
    BY <1>5, Zenon DEF Collected!ServerFacts
  <1>8. Collected!InfrastructureFacts(v) = Collected!InfrastructureFacts(w)
    BY <1>5, <1>6, <1>7, Zenon DEF Collected!InfrastructureFacts, Collected!LinkFacts
  <1>9. Collected!ListedApps(v) = Collected!ListedApps(w)
    BY <1>3, Zenon DEF Collected!ListedApps
  <1>10. Collected!UserApps(v) = Collected!UserApps(w)
    BY <1>9, Zenon DEF Collected!UserApps
  <1> QED
    BY <1>5, <1>8, <1>9, <1>10

UnseenChange(w, v) == \A a \in Apps : v.apps[a] # w.apps[a] => Collected!Unseen(w, a)

(* Of the facts about apps, a user sees those that bear the AppID of an app   *)
(* the user sees, and none of these is of an app that changed.               *)
LEMMA SeenSame ==
    ASSUME SnapshotAssumed, NEW w, NEW v, SameAround(w, v),
           UnseenChange(w, v),
           NEW f, f \in Collected!ToSet(Collected!Facts(w)), Collected!Shown(w, f)
    PROVE  f \in Collected!ToSet(Collected!Facts(v)) /\ Collected!Shown(v, f)
  <1>1. Collected!Shown(v, f)
    BY AroundSame DEF Collected!Shown, SameAround
  <1>2. CASE f \in Collected!ToSet(Collected!InfrastructureFacts(w))
    BY <1>1, <1>2, AroundSame, FactsListing
  <1>3. CASE f \in AppFactSet(w)
    <2>1. PICK a \in Collected!ListedApps(w) :
              Collected!Status(w, a) # "online" /\ f = Collected!AppFact(w, a)
      BY <1>3 DEF AppFactSet
    <2>2. a \in Apps /\ f.affected = {w.ids[a]}
      BY <2>1, ListedAreApps DEF Collected!AppFact
    <2>3. PICK b \in Collected!UserApps(w) : w.ids[b] = w.ids[a]
      BY <2>2 DEF Collected!Shown
    <2>4. ~Collected!Unseen(w, a)
      BY <2>3 DEF Collected!Unseen
    <2>5. v.apps[a] = w.apps[a] /\ v.ids[a] = w.ids[a]
      BY <2>2, <2>4 DEF UnseenChange, SameAround
    <2>6. Collected!Status(v, a) = Collected!Status(w, a)
      BY <2>5 DEF Collected!Status
    <2>7. Collected!AppFact(v, a) = Collected!AppFact(w, a)
      BY <2>5, <2>6, Zenon DEF Collected!AppFact
    <2>8. a \in Collected!ListedApps(v) /\ Collected!Infra(v) = Collected!Infra(w)
      BY <2>1, AroundSame
    <2>9. f \in AppFactSet(v)
      BY <1>3, <2>1, <2>6, <2>7, <2>8 DEF AppFactSet
    <2> QED
      BY <1>1, <2>9, FactsListing
  <1> QED
    BY <1>2, <1>3, FactsListing

LEMMA AroundBack ==
    ASSUME NEW w, NEW v, SameAround(w, v), UnseenChange(w, v)
    PROVE  SameAround(v, w) /\ UnseenChange(v, w)
  <1>1. \A a : Collected!Unseen(v, a) <=> Collected!Unseen(w, a)
    BY AroundSame DEF Collected!Unseen, SameAround
  <1> QED
    BY <1>1 DEF SameAround, UnseenChange

LEMMA ShownSame ==
    ASSUME SnapshotAssumed, NEW w, NEW v, SameAround(w, v), UnseenChange(w, v)
    PROVE  \A f : (f \in Collected!ToSet(Collected!Facts(v)) /\ Collected!Shown(v, f))
                      <=> (f \in Collected!ToSet(Collected!Facts(w)) /\ Collected!Shown(w, f))
  <1>1. ASSUME NEW f, f \in Collected!ToSet(Collected!Facts(w)), Collected!Shown(w, f)
        PROVE  f \in Collected!ToSet(Collected!Facts(v)) /\ Collected!Shown(v, f)
    BY <1>1, SeenSame
  <1>2. ASSUME NEW f, f \in Collected!ToSet(Collected!Facts(v)), Collected!Shown(v, f)
        PROVE  f \in Collected!ToSet(Collected!Facts(w)) /\ Collected!Shown(w, f)
    BY <1>2, AroundBack, SeenSame
  <1> QED
    BY <1>1, <1>2

(* An incident, but for its number, is a fact that is shown.                 *)
LEMMA IncidentsAre ==
    ASSUME NEW w
    PROVE  {<<i.kind, i.about>> : i \in Collected!UserIncidents(w)} =
               {<<f.id, f.about>> : f \in {g \in Collected!ToSet(Collected!Facts(w)) : Collected!Shown(w, g)}}
  <1>1. PICK facts : facts = Collected!Facts(w)
    OBVIOUS
  <1>2. Collected!ToSet(facts) = {facts[n] : n \in DOMAIN facts}
    BY DEF Collected!ToSet
  <1>3. \A n : /\ Collected!Incident(w, facts[n], n).kind = facts[n].id
               /\ Collected!Incident(w, facts[n], n).about = facts[n].about
    BY <1>1 DEF Collected!Incident
  <1>4. Collected!UserIncidents(w) =
            {Collected!Incident(w, facts[n], n) :
                 n \in {m \in DOMAIN facts : Collected!Shown(w, facts[m])}}
    BY <1>1 DEF Collected!UserIncidents
  <1>5. PICK left : left = {<<i.kind, i.about>> : i \in Collected!UserIncidents(w)}
    OBVIOUS
  <1>6. left = {<<facts[n].id, facts[n].about>> : n \in {m \in DOMAIN facts : Collected!Shown(w, facts[m])}}
    BY <1>3, <1>4, <1>5
  <1> QED
    BY <1>1, <1>2, <1>5, <1>6

LEMMA ViewSame ==
    ASSUME SnapshotAssumed, NEW w, NEW v, SameAround(w, v), UnseenChange(w, v)
    PROVE  Collected!UserView(v) = Collected!UserView(w)
  <1>1. PICK S : S = Collected!UserApps(w) /\ S = Collected!UserApps(v)
    BY AroundSame
  <1>2. \A a \in S : v.apps[a] = w.apps[a] /\ Collected!Status(v, a) = Collected!Status(w, a)
    <2>1. \A a \in S : v.apps[a] = w.apps[a]
      BY <1>1, ListedAreApps DEF UnseenChange, Collected!Unseen
    <2> QED
      BY <2>1 DEF Collected!Status
  <1>3. [a \in S |-> v.apps[a]] = [a \in S |-> w.apps[a]]
    BY <1>2
  <1>4. Collected!UserFacts(v) = Collected!UserFacts(w)
    BY ShownSame DEF Collected!UserFacts
  <1>5. {<<i.kind, i.about>> : i \in Collected!UserIncidents(v)} =
            {<<i.kind, i.about>> : i \in Collected!UserIncidents(w)}
    <2>1. {g \in Collected!ToSet(Collected!Facts(v)) : Collected!Shown(v, g)} =
              {g \in Collected!ToSet(Collected!Facts(w)) : Collected!Shown(w, g)}
      BY ShownSame
    <2> QED
      BY <2>1, IncidentsAre
  <1>6. Collected!UserRollup(v) = Collected!UserRollup(w)
    <2>1. IsFiniteSet(S)
      BY <1>1, ListedAreApps, FS_Subset DEF SnapshotAssumed
    <2>2. PICK m \in Nat : Collected!Cardinality(S) = m /\ Collected!SetToSeq(S) \in [1..m -> S]
      BY <2>1, OrderOf
    <2>3. [n \in 1..m |-> Collected!Status(v, Collected!SetToSeq(S)[n])] =
              [n \in 1..m |-> Collected!Status(w, Collected!SetToSeq(S)[n])]
      BY <1>2, <2>2
    <2> QED
      BY <1>1, <1>4, <2>2, <2>3 DEF Collected!UserRollup
  <1> QED
    BY <1>1, <1>3, <1>4, <1>5, <1>6, Zenon DEF Collected!UserView

(* The world has the parts it began with.                                    *)
WorldInv ==
    /\ DOMAIN found = DOMAIN Collected!Calm
    /\ found = [part1 \in DOMAIN Collected!Calm |-> found[part1]]

LEMMA CollectedSpec == MCSpec => Collected!Init /\ [][Collected!Next]_found
  <1>1. MCInit => Collected!Init
    BY DEF MCInit
  <1>2. [MCNext]_MCVars => [Collected!Next]_found
    BY DEF MCNext, MCVars, CollectedStep, DockerStep, NetworkStep, LoginStep, HeldStep
  <1> QED
    BY <1>1, <1>2, PTL DEF MCSpec

(* FilterSnapshotForRole: when only apps change that are hidden from a user   *)
(* and share no AppID with an app the user sees, nothing of what the user is *)
(* shown changes: no list, no incident, not the rollup.                      *)
THEOREM HiddenStaysHidden == MCSpec => HiddenAppsSilent
  <1>1. Collected!Init => WorldInv
    BY DEF Collected!Init, WorldInv, Collected!Calm
  <1>2. WorldInv /\ [Collected!Next]_found => WorldInv'
    <2> SUFFICES ASSUME WorldInv, [Collected!Next]_found
                 PROVE  WorldInv'
      OBVIOUS
    <2>1. ASSUME NEW p \in DOMAIN Collected!Calm, Collected!Change(p)
          PROVE  WorldInv'
      <3>1. PICK value : found' = [found EXCEPT ![p] = value]
        BY <2>1 DEF Collected!Change
      <3> QED
        BY <3>1 DEF WorldInv
    <2>2. CASE found' = found
      BY <2>2 DEF WorldInv
    <2> QED
      BY <2>1, <2>2 DEF Collected!Next
  <1>3. ASSUME WorldInv, found' = [found EXCEPT !.apps = found'.apps],
               \A a \in Apps : found'.apps[a] # found.apps[a] => Collected!Unseen(found, a)
        PROVE  Collected!UserView(found') = Collected!UserView(found)
    <2>1. PICK w, v : w = found /\ v = found'
      OBVIOUS
    <2>2. SameAround(w, v)
      BY <1>3, <2>1 DEF WorldInv, SameAround, Collected!Calm
    <2>3. UnseenChange(w, v)
      BY <1>3, <2>1 DEF UnseenChange
    <2>4. Collected!UserView(v) = Collected!UserView(w)
      BY <2>2, <2>3, CollectedAssumption, ViewSame
    <2> QED
      BY <2>1, <2>4
  <1>4. WorldInv =>
            [(/\ found'.apps # found.apps /\ found' = [found EXCEPT !.apps = found'.apps]
              /\ \A a \in Apps : found'.apps[a] # found.apps[a] => Collected!Unseen(found, a))
             => Collected!UserView(found') = Collected!UserView(found)]_found
    BY <1>3
  <1> QED
    BY <1>1, <1>2, <1>4, CollectedSpec, PTL
    DEF HiddenAppsSilent, Collected!HiddenAppsSilent, Collected!vars

-----------------------------------------------------------------------------
(* The restart of a device and the sign-in, proved about their own modules. *)

NetworkProofs == INSTANCE DeviceRestart_proofs
LoginProofs == INSTANCE SignIn_proofs WITH
    time <- now, failures <- loginFailures, Logins <- Browser \cup Headless,
    MaxTime <- MaxNow, MaxFailures <- MaxBroken

LEMMA NetworkInit == Network!Init <=> NetworkProofs!Init
  BY DEF Network!Init, NetworkProofs!Init, Network!States, NetworkProofs!States

LEMMA NetworkNext == Network!Next <=> NetworkProofs!Next
  BY DEF Network!Online, Network!Restartable, Network!At, Network!Watch,
         Network!List, Network!Ask, Network!OfferedStill, Network!Eligible,
         Network!Check, Network!Send, Network!Reported, Network!Verify,
         Network!Cancel, Network!NetworkChanges, Network!Next, Network!States,
         NetworkProofs!Online, NetworkProofs!Restartable, NetworkProofs!At,
         NetworkProofs!Watch, NetworkProofs!List, NetworkProofs!Ask,
         NetworkProofs!OfferedStill, NetworkProofs!Eligible,
         NetworkProofs!Check, NetworkProofs!Send, NetworkProofs!Reported,
         NetworkProofs!Verify, NetworkProofs!Cancel,
         NetworkProofs!NetworkChanges, NetworkProofs!Next, NetworkProofs!States

LEMMA LoginInit == Login!Init <=> LoginProofs!Init
  BY Zenon DEF Login!Init, LoginProofs!Init
LEMMA LoginNext == Login!Next <=> LoginProofs!Next
  BY Zenon DEF Login!At, Login!Login, Login!Begin, Login!Goto, Login!Return,
         Login!Past, Login!Live, Login!Cleanup, Login!Ensure, Login!Register,
         Login!StateTaken, Login!InTime, Login!Callback, Login!Exchange,
         Login!Result, Login!StopIfIdle, Login!Shutdown, Login!ResultTaken,
         Login!Finish, Login!Save, Login!StartHeadless, Login!PollHeadless,
         Login!Ask, Login!Forget, Login!Tick, Login!BrowserStep,
         Login!HeadlessStep, Login!Next, LoginProofs!At, LoginProofs!Login,
         LoginProofs!Begin, LoginProofs!Goto, LoginProofs!Return,
         LoginProofs!Past, LoginProofs!Live, LoginProofs!Cleanup,
         LoginProofs!Ensure, LoginProofs!Register, LoginProofs!StateTaken,
         LoginProofs!InTime, LoginProofs!Callback, LoginProofs!Exchange,
         LoginProofs!Result, LoginProofs!StopIfIdle, LoginProofs!Shutdown,
         LoginProofs!ResultTaken, LoginProofs!Finish, LoginProofs!Save,
         LoginProofs!StartHeadless, LoginProofs!PollHeadless, LoginProofs!Ask,
         LoginProofs!Forget, LoginProofs!Tick, LoginProofs!BrowserStep,
         LoginProofs!HeadlessStep, LoginProofs!Next

LEMMA NetworkSpec == MCSpec => NetworkProofs!Spec
  <1>1. MCInit => NetworkProofs!Init
    BY NetworkInit DEF MCInit
  <1>2. [MCNext]_MCVars => [NetworkProofs!Next]_(NetworkProofs!vars)
    BY NetworkNext DEF MCNext, CollectedStep, DockerStep, NetworkStep, LoginStep, HeldStep,
       MCVars, networkVars, NetworkProofs!vars
  <1> QED
    BY <1>1, <1>2, PTL DEF MCSpec, NetworkProofs!Spec

LEMMA LoginSpec == MCSpec => LoginProofs!Spec
  <1>1. MCInit => LoginProofs!Init
    BY LoginInit DEF MCInit
  <1>2. [MCNext]_MCVars => [LoginProofs!Next]_(LoginProofs!vars)
    BY LoginNext DEF MCNext, CollectedStep, DockerStep, NetworkStep, LoginStep, HeldStep,
       MCVars, loginVars, LoginProofs!vars
  <1> QED
    BY <1>1, <1>2, PTL DEF MCSpec, LoginProofs!Spec

(* A device is restarted, and reported as recovered, only on an answer UniFi *)
(* gave while the request was served (RestartDevice, verifyUniFiRestartOutcome). *)
THEOREM RestartsAnswered == MCSpec => []RestartsBacked
  <1>1. NetworkProofs!RestartsBacked <=> RestartsBacked
    BY DEF RestartsBacked, Network!RestartsBacked, Network!StaleListHarmless, Network!RecoveryWasSeen,
       NetworkProofs!RestartsBacked, NetworkProofs!StaleListHarmless, NetworkProofs!RecoveryWasSeen
  <1> QED
    BY <1>1, NetworkSpec, NetworkProofs!RestartsAreBacked, PTL

(* However callbacks, polls, expiry and failures interleave, the tokens of a  *)
(* login are in one place and saved once at most (openai_auth.go).           *)
THEOREM LoginUsedOnce == MCSpec => []SingleUse
  <1>1. LoginProofs!TokensInOnePlace <=> Login!TokensInOnePlace
    BY Zenon DEF LoginProofs!TokensInOnePlace, LoginProofs!At, LoginProofs!Login, LoginProofs!Cardinality,
       Login!TokensInOnePlace, Login!At, Login!Login, Login!Cardinality
  <1>2. LoginProofs!SavedOnce <=> Login!SavedOnce
    BY DEF LoginProofs!SavedOnce, Login!SavedOnce
  <1>3. LoginProofs!SingleUse => SingleUse
    BY <1>1, <1>2 DEF SingleUse, Login!SingleUse, LoginProofs!SingleUse
  <1> QED
    BY <1>3, LoginSpec, LoginProofs!StateUsedOnce, PTL
=============================================================================
