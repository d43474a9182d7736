--------------------------- MODULE Settings_proofs ---------------------------
(***************************************************************************)
(* What is stored was once in force as a whole, and the parts built from   *)
(* the settings match them, for every number of handlers, readers, saves,  *)
(* failed writes and restarts (RuntimeSettings).  Then the parts that      *)
(* MCSettings puts next to it: where the settings come from, and the tool  *)
(* loop of a diagnosis.                                                    *)
(***************************************************************************)
EXTENDS MCSettings, Sequences, WellFoundedInduction, TLAPS

(* The state that Apply makes of the live settings.                        *)
Merged(w) == [f \in Fields |->
                 IF f \in Changed(writer[w].kind) THEN writer[w].save
                 ELSE IF f \in Section(writer[w].kind) THEN writer[w].copy[f]
                 ELSE live[f]]

(* What is in force stays in the history of what was.                      *)
LEMMA OnceKept ==
    ASSUME NEW settings, Once(settings), past \subseteq past'
    PROVE  \E state \in past' : \A f \in Fields \ {"icons"} : settings[f] = state[f]
  BY DEF Once

(* A handler of another section leaves the privacy and the LLM settings.   *)
LEMMA MergedSections ==
    ASSUME SettingsInv, NEW w \in Writers, writer[w] # None
    PROVE  /\ Merged(w) \in Maps
           /\ writer[w].kind = "privacy" => Merged(w)["privacy"] = writer[w].save
           /\ writer[w].kind # "privacy" => Merged(w)["privacy"] = live["privacy"]
           /\ writer[w].kind \notin {"llm", "chatgpt"} =>
                  /\ Merged(w)["llm"] = live["llm"]
                  /\ Merged(w)["chatgpt"] = live["chatgpt"]
  <1>1. WriterShape(w)
    BY DEF SettingsInv
  <1>2. Merged(w) \in Maps
    BY <1>1 DEF Merged, SettingsInv, WriterShape, Maps
  <1>3. writer[w].kind \in {"visibility", "privacy", "notifications", "catalog", "icon",
                            "llm", "chatgpt", "unraid", "unifi"}
    BY <1>1, SettingsAssumption DEF WriterShape
  <1>4. "privacy" \in Fields /\ "llm" \in Fields /\ "chatgpt" \in Fields
    BY DEF Fields
  <1>5. writer[w].kind = "privacy" => "privacy" \in Changed(writer[w].kind)
    BY DEF Changed
  <1>6. writer[w].kind # "privacy" =>
            "privacy" \notin Changed(writer[w].kind) \cup Section(writer[w].kind)
    BY <1>3 DEF Changed, Section
  <1>7. writer[w].kind \notin {"llm", "chatgpt"} =>
            /\ "llm" \notin Changed(writer[w].kind) \cup Section(writer[w].kind)
            /\ "chatgpt" \notin Changed(writer[w].kind) \cup Section(writer[w].kind)
    BY <1>3 DEF Changed, Section
  <1> QED
    BY <1>2, <1>4, <1>5, <1>6, <1>7 DEF Merged

-----------------------------------------------------------------------------
(* The locked section of a handler.                                        *)

LEMMA ApplyWriters ==
    ASSUME SettingsInv, NEW w \in Writers, Apply(w)
    PROVE  /\ DOMAIN writer' = Writers
           /\ \A v \in Writers : writer'[v] # None => WriterShape(v)'
  <1>1. writer[w] # None /\ WriterShape(w)
    BY DEF Apply, SettingsInv
  <1>2. past' = past \cup {Merged(w)} /\ Merged(w) \in Maps
    BY <1>1, MergedSections DEF Apply, Merged
  <1>3. DOMAIN writer' = Writers
    BY DEF Apply
  <1>4. WriterShape(w)'
    <2>1. writer'[w] = [writer[w] EXCEPT !.at = "store", !.copy = Merged(w), !.icons = icons']
      BY DEF Apply, Capture, Merged
    <2>2. /\ writer'[w].kind = writer[w].kind
          /\ writer'[w].save = writer[w].save
          /\ writer'[w].copy = Merged(w)
          /\ writer'[w] = [kind |-> writer'[w].kind, at |-> writer'[w].at,
                           save |-> writer'[w].save, copy |-> writer'[w].copy,
                           icons |-> writer'[w].icons]
      BY <1>1, <2>1 DEF WriterShape
    <2>3. \E state \in past' : \A f \in Fields \ {"icons"} : writer'[w].copy[f] = state[f]
      BY <1>2, <2>2
    <2> QED
      BY <1>1, <1>2, <2>2, <2>3 DEF WriterShape, Once
  <1>5. ASSUME NEW v \in Writers, v # w, writer'[v] # None
        PROVE  WriterShape(v)'
    <2>1. \/ writer'[v] = writer[v]
          \/ /\ writer[v] # None
             /\ writer'[v] = [writer[v] EXCEPT !.copy["icons"] = writer[w].save]
      BY <1>5 DEF Apply
    <2>2. writer[v] # None /\ WriterShape(v)
      BY <1>5, <2>1 DEF SettingsInv
    <2>3. /\ writer'[v].kind = writer[v].kind
          /\ writer'[v].save = writer[v].save
          /\ writer'[v].at = writer[v].at
          /\ writer'[v] = [kind |-> writer'[v].kind, at |-> writer'[v].at,
                           save |-> writer'[v].save, copy |-> writer'[v].copy,
                           icons |-> writer'[v].icons]
      BY <2>1, <2>2 DEF WriterShape
    <2>4. \/ writer'[v].copy = writer[v].copy
          \/ writer'[v].copy = [writer[v].copy EXCEPT !["icons"] = writer[w].save]
      BY <2>1, <2>2 DEF WriterShape
    <2>5. /\ writer'[v].copy \in Maps
          /\ \A f \in Fields \ {"icons"} : writer'[v].copy[f] = writer[v].copy[f]
      BY <1>1, <2>2, <2>4 DEF WriterShape, Maps
    <2>6. writer'[v].at = "store" =>
              \E state \in past' : \A f \in Fields \ {"icons"} : writer'[v].copy[f] = state[f]
      BY <1>2, <2>2, <2>3, <2>5 DEF WriterShape, Once
    <2> QED
      BY <2>2, <2>3, <2>5, <2>6 DEF WriterShape, Once
  <1> QED
    BY <1>3, <1>4, <1>5

LEMMA ApplyInductive ==
    ASSUME SettingsInv, NEW w \in Writers, Apply(w)
    PROVE  SettingsInv'
  <1>1. writer[w] # None /\ WriterShape(w)
    BY DEF Apply, SettingsInv
  <1>2. live' = Merged(w) /\ past' = past \cup {Merged(w)} /\ Merged(w) \in Maps
    BY <1>1, MergedSections DEF Apply, Merged
  <1>3. Once(live)'
    BY <1>2 DEF Once
  <1>4. StoredAsOneState'
    BY <1>2, OnceKept DEF SettingsInv, StoredAsOneState, Once, Apply
  <1>5. redactor' = live'["privacy"]
    BY <1>1, <1>2, MergedSections DEF Apply, SettingsInv, PartsFollowSettings
  <1>6. /\ client'.llm = live'["llm"]
        /\ client'.chatgpt = live'["chatgpt"]
        /\ client'.privacy \in {state["privacy"] : state \in past'}
    <2>1. client' = RebuiltClient(writer[w].kind, live')
      BY <1>2 DEF Apply, Merged
    <2>2. CASE writer[w].kind \in {"llm", "chatgpt"}
      <3>1. redactor \in {state["privacy"] : state \in past}
        BY DEF SettingsInv, PartsFollowSettings, Once, Fields
      <3> QED
        BY <1>2, <2>1, <2>2, <3>1 DEF RebuiltClient
    <2>3. CASE writer[w].kind \notin {"llm", "chatgpt"}
      BY <1>1, <1>2, <2>1, <2>3, MergedSections
      DEF RebuiltClient, SettingsInv, PartsFollowSettings
    <2> QED
      BY <2>2, <2>3
  <1>7. PartsFollowSettings'
    BY <1>5, <1>6 DEF PartsFollowSettings
  <1>8. /\ live' \in Maps /\ memory' \in Maps /\ disk' \in Maps /\ past' \subseteq Maps
        /\ saves' \in Nat
    BY <1>2 DEF Apply, SettingsInv
  <1> QED
    BY <1>3, <1>4, <1>7, <1>8, ApplyWriters DEF SettingsInv

-----------------------------------------------------------------------------
(* The other steps leave the settings in force alone, or restart.          *)

LEMMA BeginSaveInductive ==
    ASSUME SettingsInv, NEW w \in Writers, NEW kind \in Kinds, BeginSave(w, kind)
    PROVE  SettingsInv'
  <1>1. DOMAIN writer' = Writers /\ \A v \in Writers : v # w => writer'[v] = writer[v]
    BY DEF BeginSave, SettingsInv
  <1>2. writer'[w] = [kind |-> kind, at |-> "apply", save |-> saves', copy |-> live,
                      icons |-> icons]
    BY DEF BeginSave, SettingsInv
  <1>3. saves' \in Nat
    BY DEF BeginSave, SettingsInv
  <1>4. WriterShape(w)'
    BY <1>2, <1>3 DEF WriterShape, SettingsInv
  <1>5. \A v \in Writers : writer'[v] # None => WriterShape(v)'
    BY <1>1, <1>4 DEF WriterShape, SettingsInv, BeginSave, Once
  <1> QED
    BY <1>1, <1>3, <1>5
    DEF BeginSave, SettingsInv, StoredAsOneState, PartsFollowSettings, Once

LEMMA StoreInductive ==
    ASSUME SettingsInv, NEW w \in Writers, Store(w)
    PROVE  SettingsInv'
  <1>1. writer[w] # None /\ WriterShape(w) /\ writer[w].at = "store"
    BY DEF Store, SettingsInv
  <1>2. memory' = writer[w].copy /\ disk' \in {disk, writer[w].copy}
    BY DEF Store
  <1>3. StoredAsOneState'
    BY <1>1, <1>2 DEF WriterShape, StoredAsOneState, SettingsInv, Once, Store
  <1>4. DOMAIN writer' = Writers /\ \A v \in Writers : v # w => writer'[v] = writer[v]
    BY DEF Store, SettingsInv
  <1>5. writer'[w] # None => WriterShape(w)'
    BY <1>1 DEF Store, WriterShape, SettingsInv, Once
  <1>6. \A v \in Writers : writer'[v] # None => WriterShape(v)'
    BY <1>4, <1>5 DEF WriterShape, SettingsInv, Store, Once
  <1> QED
    BY <1>1, <1>2, <1>3, <1>4, <1>6
    DEF Store, SettingsInv, WriterShape, PartsFollowSettings, Once

LEMMA InvalidateInductive ==
    ASSUME SettingsInv, NEW w \in Writers, Invalidate(w)
    PROVE  SettingsInv'
  <1>1. /\ DOMAIN writer' = Writers
        /\ \A v \in Writers : writer'[v] # None => writer'[v] = writer[v]
    BY DEF Invalidate, SettingsInv
  <1>2. \A v \in Writers : writer'[v] # None => WriterShape(v)'
    BY <1>1 DEF WriterShape, SettingsInv, Invalidate, Once
  <1> QED
    BY <1>1, <1>2 DEF Invalidate, SettingsInv, StoredAsOneState, PartsFollowSettings, Once

LEMMA RestartInductive ==
    ASSUME SettingsInv, Restart
    PROVE  SettingsInv'
  <1>1. /\ DOMAIN writer' = Writers
        /\ \A v \in Writers : writer'[v] = None
    BY DEF Restart
  <1>2. disk["privacy"] \in {state["privacy"] : state \in past}
    BY DEF SettingsInv, StoredAsOneState, Once, Fields
  <1> QED
    BY <1>1, <1>2 DEF Restart, SettingsInv, StoredAsOneState, PartsFollowSettings, Once

(* The cache and its readers hold nothing that the invariant speaks of.    *)
LEMMA CacheInductive ==
    ASSUME SettingsInv,
           UNCHANGED <<live, redactor, client, memory, disk, writer, saves, past>>
    PROVE  SettingsInv'
  BY DEF SettingsInv, StoredAsOneState, PartsFollowSettings, Once, WriterShape

LEMMA InitInductive ==
    ASSUME Init
    PROVE  SettingsInv
  BY DEF Init, Unset, SettingsInv, StoredAsOneState, PartsFollowSettings, Once, Maps, Fields

LEMMA NextInductive ==
    ASSUME SettingsInv, [Next]_vars
    PROVE  SettingsInv'
  <1>1. ASSUME NEW w \in Writers, NEW kind \in Kinds, BeginSave(w, kind)
        PROVE  SettingsInv'
    BY <1>1, BeginSaveInductive
  <1>2. ASSUME NEW w \in Writers, Handler(w)
        PROVE  SettingsInv'
    BY <1>2, ApplyInductive, StoreInductive, InvalidateInductive DEF Handler
  <1>3. CASE (\E r \in Readers : Read(r)) \/ Poll \/ UNCHANGED vars
    <2>1. UNCHANGED <<live, redactor, client, memory, disk, writer, saves, past>>
      BY <1>3 DEF Read, Poll, ReadCached, Collect, Publish, Answer, vars
    <2> QED
      BY <2>1, CacheInductive
  <1>4. CASE Flush
    BY <1>4 DEF Flush, SettingsInv, StoredAsOneState, PartsFollowSettings, Once, WriterShape
  <1>5. CASE Restart
    BY <1>5, RestartInductive
  <1> QED
    BY <1>1, <1>2, <1>3, <1>4, <1>5 DEF Next

(* The inductive invariant holds however handlers, failed writes, readers  *)
(* and restarts interleave.                                                *)
THEOREM SettingsInvariant == Spec => []SettingsInv
  <1> QED
    BY InitInductive, NextInductive, PTL DEF Spec

(* currentRuntimeSettingsLocked and SaveRuntimeSettings: what a restart    *)
(* would apply, icons aside, was once in force as a whole.                 *)
THEOREM SettingsStoredWhole == Spec => []StoredAsOneState
  <1>1. SettingsInv => StoredAsOneState
    BY DEF SettingsInv
  <1> QED
    BY <1>1, SettingsInvariant, PTL

(* The settings handlers: redactor and LLM client always match the settings*)
(* in force, and no redactor comes from settings that never were.          *)
THEOREM SettingsPartsFollow == Spec => []PartsFollowSettings
  <1>1. SettingsInv => PartsFollowSettings
    BY DEF SettingsInv
  <1> QED
    BY <1>1, SettingsInvariant, PTL

-----------------------------------------------------------------------------
(* Types, and the numbers that stand for values: no value is newer than    *)
(* the last save.                                                          *)

(* What a handler and a refresh hold.                                      *)
JobTyped(w) ==
    /\ writer[w].at \in {"apply", "store", "invalidate"}
    /\ writer[w].save \in 0..MaxSaves
    /\ writer[w].copy \in Values

RefreshShape(r) ==
    /\ reader[r] = [at |-> reader[r].at, copy |-> reader[r].copy, icons |-> reader[r].icons]
    /\ reader[r].copy \in Values

(* Inductive only next to SettingsInv, which knows the shape of a job.     *)
SettingsTypes ==
    /\ saves \in 0..MaxSaves
    /\ live \in Values /\ memory \in Values /\ disk \in Values /\ acked \in Values
    /\ cache # None => cache \in Values
    /\ redactor \in 0..MaxSaves
    /\ client \in [{"llm", "chatgpt", "privacy"} -> 0..MaxSaves]
    /\ \A w \in Writers : writer[w] # None => JobTyped(w)
    /\ DOMAIN reader = Readers \cup {Poller}
    /\ \A r \in DOMAIN reader : reader[r] # None => RefreshShape(r)

(* A client built from three values within the bound is typed.             *)
LEMMA ClientTyped ==
    ASSUME NEW l \in 0..MaxSaves, NEW c \in 0..MaxSaves, NEW p \in 0..MaxSaves
    PROVE  [llm |-> l, chatgpt |-> c, privacy |-> p]
               \in [{"llm", "chatgpt", "privacy"} -> 0..MaxSaves]
  OBVIOUS

(* What Apply makes in place of a copy that shares the map of icons.       *)
LEMMA IconTyped ==
    ASSUME NEW copy \in Values, NEW save \in 0..MaxSaves
    PROVE  [copy EXCEPT !["icons"] = save] \in Values
  BY DEF Values

LEMMA InitTyped ==
    ASSUME Init
    PROVE  SettingsTypes
  <1>1. 0 \in 0..MaxSaves
    BY SettingsAssumption
  <1>2. Unset \in Values
    BY <1>1 DEF Unset, Values
  <1>3. client \in [{"llm", "chatgpt", "privacy"} -> 0..MaxSaves]
    BY <1>1, ClientTyped DEF Init
  <1> QED
    BY <1>1, <1>2, <1>3 DEF Init, SettingsTypes

LEMMA ApplyTyped ==
    ASSUME SettingsInv, SettingsTypes, NEW w \in Writers, Apply(w)
    PROVE  SettingsTypes'
  <1>1. writer[w] # None /\ JobTyped(w) /\ WriterShape(w)
    BY DEF Apply, SettingsInv, SettingsTypes
  <1>2. live' = Merged(w) /\ Merged(w) \in Values
    BY <1>1 DEF Apply, Merged, SettingsTypes, JobTyped, Values
  <1>3. redactor' \in 0..MaxSaves
    BY <1>1 DEF Apply, SettingsTypes, JobTyped
  <1>4. client' \in [{"llm", "chatgpt", "privacy"} -> 0..MaxSaves]
    <2>1. client' = RebuiltClient(writer[w].kind, live')
      BY <1>2 DEF Apply, Merged
    <2>2. live'["llm"] \in 0..MaxSaves /\ live'["chatgpt"] \in 0..MaxSaves
      BY <1>2 DEF Values, Fields
    <2>3. redactor \in 0..MaxSaves
      BY DEF SettingsTypes
    <2>4. CASE writer[w].kind \in {"llm", "chatgpt"}
      BY <2>1, <2>2, <2>3, <2>4, ClientTyped DEF RebuiltClient
    <2>5. CASE writer[w].kind \notin {"llm", "chatgpt"}
      BY <2>1, <2>5 DEF RebuiltClient, SettingsTypes
    <2> QED
      BY <2>4, <2>5
  <1>5. ASSUME NEW v \in Writers, writer'[v] # None
        PROVE  JobTyped(v)'
    <2>1. CASE v = w
      <3>1. writer'[w] = [writer[w] EXCEPT !.at = "store", !.copy = Merged(w), !.icons = icons']
        BY DEF Apply, Capture, Merged
      <3>2. /\ writer'[w].at = "store"
            /\ writer'[w].save = writer[w].save
            /\ writer'[w].copy = Merged(w)
        BY <1>1, <3>1 DEF WriterShape
      <3> QED
        BY <1>1, <1>2, <2>1, <3>2 DEF JobTyped
    <2>2. CASE v # w
      <3>1. \/ writer'[v] = writer[v]
            \/ /\ writer[v] # None
               /\ writer'[v] = [writer[v] EXCEPT !.copy["icons"] = writer[w].save]
        BY <2>2 DEF Apply
      <3>2. writer[v] # None /\ WriterShape(v) /\ JobTyped(v)
        BY <1>5, <3>1 DEF SettingsInv, SettingsTypes
      <3>3. /\ writer'[v].at = writer[v].at
            /\ writer'[v].save = writer[v].save
            /\ \/ writer'[v].copy = writer[v].copy
               \/ writer'[v].copy = [writer[v].copy EXCEPT !["icons"] = writer[w].save]
        BY <3>1, <3>2 DEF WriterShape
      <3>4. writer'[v].copy \in Values
        BY <1>1, <3>2, <3>3, IconTyped DEF JobTyped
      <3> QED
        BY <3>2, <3>3, <3>4 DEF JobTyped
    <2> QED
      BY <2>1, <2>2
  <1>6. DOMAIN reader' = DOMAIN reader
    BY DEF Apply
  <1>7. ASSUME NEW r \in DOMAIN reader', reader'[r] # None
        PROVE  RefreshShape(r)'
    <2>1. \/ reader'[r] = reader[r]
          \/ /\ reader[r] # None
             /\ reader'[r] = [reader[r] EXCEPT !.copy["icons"] = writer[w].save]
      BY <1>6, <1>7 DEF Apply
    <2>2. reader[r] # None /\ RefreshShape(r)
      BY <1>6, <1>7, <2>1 DEF SettingsTypes
    <2>3. /\ reader'[r] = [at |-> reader'[r].at, copy |-> reader'[r].copy, icons |-> reader'[r].icons]
          /\ \/ reader'[r].copy = reader[r].copy
             \/ reader'[r].copy = [reader[r].copy EXCEPT !["icons"] = writer[w].save]
      BY <2>1, <2>2 DEF RefreshShape
    <2> QED
      BY <1>1, <2>2, <2>3, IconTyped DEF RefreshShape, JobTyped
  <1>8. /\ saves' \in 0..MaxSaves
        /\ memory' \in Values /\ disk' \in Values /\ acked' \in Values
        /\ cache' # None => cache' \in Values
    BY DEF Apply, SettingsTypes
  <1> QED
    BY <1>2, <1>3, <1>4, <1>5, <1>6, <1>7, <1>8 DEF SettingsTypes

(* A step that leaves the settings in force and the readers alone, and     *)
(* whose jobs are typed.                                                   *)
LEMMA JobsTyped ==
    ASSUME SettingsTypes,
           UNCHANGED <<live, redactor, client, reader>>,
           saves' \in 0..MaxSaves, memory' \in Values, disk' \in Values, acked' \in Values,
           cache' \in {None, cache},
           \A w \in Writers : writer'[w] # None => JobTyped(w)'
    PROVE  SettingsTypes'
  BY DEF SettingsTypes, RefreshShape

LEMMA BeginSaveTyped ==
    ASSUME SettingsInv, SettingsTypes, NEW w \in Writers, NEW kind \in Kinds, BeginSave(w, kind)
    PROVE  SettingsTypes'
  <1>1. saves' \in 0..MaxSaves
    BY SettingsAssumption DEF BeginSave, SettingsTypes
  <1>2. /\ \A v \in Writers : v # w => writer'[v] = writer[v]
        /\ writer'[w] = [kind |-> kind, at |-> "apply", save |-> saves', copy |-> live,
                         icons |-> icons]
    BY DEF BeginSave, SettingsInv
  <1>3. JobTyped(w)'
    BY <1>1, <1>2 DEF JobTyped, SettingsTypes
  <1>4. \A v \in Writers : writer'[v] # None => JobTyped(v)'
    BY <1>2, <1>3 DEF JobTyped, SettingsTypes
  <1> QED
    BY <1>1, <1>4, JobsTyped DEF BeginSave, SettingsTypes

LEMMA StoreTyped ==
    ASSUME SettingsInv, SettingsTypes, NEW w \in Writers, Store(w)
    PROVE  SettingsTypes'
  <1>1. writer[w] # None /\ WriterShape(w) /\ JobTyped(w)
    BY DEF Store, SettingsInv, SettingsTypes
  <1>2. /\ \A v \in Writers : v # w => writer'[v] = writer[v]
        /\ writer'[w] \in {None, [writer[w] EXCEPT !.at = "invalidate"]}
    BY DEF Store, SettingsInv
  <1>3. writer'[w] # None => JobTyped(w)'
    BY <1>1, <1>2 DEF JobTyped, WriterShape
  <1>4. \A v \in Writers : writer'[v] # None => JobTyped(v)'
    BY <1>2, <1>3 DEF JobTyped, SettingsTypes
  <1>5. memory' \in Values /\ disk' \in Values
    BY <1>1 DEF Store, JobTyped, SettingsTypes
  <1> QED
    BY <1>4, <1>5, JobsTyped DEF Store, SettingsTypes

LEMMA InvalidateTyped ==
    ASSUME SettingsInv, SettingsTypes, NEW w \in Writers, Invalidate(w)
    PROVE  SettingsTypes'
  <1>1. writer[w] # None /\ JobTyped(w)
    BY DEF Invalidate, SettingsTypes
  <1>2. \A v \in Writers : writer'[v] # None => writer'[v] = writer[v]
    BY DEF Invalidate, SettingsInv
  <1>3. \A v \in Writers : writer'[v] # None => JobTyped(v)'
    BY <1>2 DEF JobTyped, SettingsTypes
  <1>4. acked' \in Values
    BY <1>1 DEF Invalidate, JobTyped, SettingsTypes, Values
  <1> QED
    BY <1>3, <1>4, JobsTyped DEF Invalidate, SettingsTypes

LEMMA RestartTyped ==
    ASSUME SettingsInv, SettingsTypes, Restart
    PROVE  SettingsTypes'
  <1>1. /\ \A v \in Writers : writer'[v] = None
        /\ DOMAIN reader' = DOMAIN reader /\ \A r \in DOMAIN reader : reader'[r] = None
    BY DEF Restart
  <1>2. disk["privacy"] \in 0..MaxSaves /\ disk["llm"] \in 0..MaxSaves
        /\ disk["chatgpt"] \in 0..MaxSaves
    BY DEF SettingsTypes, Values, Fields
  <1>3. client' \in [{"llm", "chatgpt", "privacy"} -> 0..MaxSaves]
    BY <1>2, ClientTyped DEF Restart
  <1> QED
    BY <1>1, <1>2, <1>3 DEF Restart, SettingsTypes

LEMMA ReadTyped ==
    ASSUME SettingsInv, SettingsTypes, NEW r \in Readers \cup {Poller},
           ReadCached(r) \/ Collect(r) \/ Publish(r) \/ Answer(r)
    PROVE  SettingsTypes'
  <1>1. UNCHANGED <<live, redactor, client, memory, disk, writer, saves, acked>>
    BY DEF ReadCached, Collect, Publish, Answer
  <1>2. /\ DOMAIN reader' = DOMAIN reader
        /\ \A q \in DOMAIN reader : q # r => reader'[q] = reader[q]
    BY DEF ReadCached, Collect, Publish, Answer, SettingsTypes
  <1>3. /\ reader'[r] # None => RefreshShape(r)'
        /\ cache' # None => cache' \in Values
    <2>1. r \in DOMAIN reader
      BY DEF SettingsTypes
    <2>2. CASE ReadCached(r)
      BY <2>1, <2>2 DEF ReadCached, RefreshShape, SettingsTypes
    <2>3. CASE Collect(r)
      BY <2>1, <2>3 DEF Collect, RefreshShape, SettingsTypes
    <2>4. CASE Publish(r)
      <3>1. reader[r] # None /\ RefreshShape(r)
        BY <2>1, <2>4 DEF Publish, Idle, SettingsTypes
      <3>2. /\ cache' = reader[r].copy
            /\ reader'[r] \in {None, [reader[r] EXCEPT !.at = "served", !.icons = None]}
        BY <2>1, <2>4 DEF Publish
      <3>3. reader'[r] # None => RefreshShape(r)'
        BY <3>1, <3>2 DEF RefreshShape
      <3> QED
        BY <3>1, <3>2, <3>3 DEF RefreshShape
    <2>5. CASE Answer(r)
      BY <2>1, <2>5 DEF Answer, SettingsTypes
    <2> QED
      BY <2>2, <2>3, <2>4, <2>5
  <1>4. \A q \in DOMAIN reader' : reader'[q] # None => RefreshShape(q)'
    BY <1>2, <1>3 DEF RefreshShape, SettingsTypes
  <1> QED
    BY <1>1, <1>2, <1>3, <1>4 DEF SettingsTypes, JobTyped

LEMMA NextTyped ==
    ASSUME SettingsInv, SettingsTypes, [Next]_vars
    PROVE  SettingsTypes'
  <1>1. ASSUME NEW w \in Writers, NEW kind \in Kinds, BeginSave(w, kind)
        PROVE  SettingsTypes'
    BY <1>1, BeginSaveTyped
  <1>2. ASSUME NEW w \in Writers, Handler(w)
        PROVE  SettingsTypes'
    BY <1>2, ApplyTyped, StoreTyped, InvalidateTyped DEF Handler
  <1>3. ASSUME NEW r \in Readers, Read(r)
        PROVE  SettingsTypes'
    BY <1>3, ReadTyped DEF Read
  <1>4. CASE Poll
    BY <1>4, ReadTyped DEF Poll
  <1>5. CASE Flush \/ UNCHANGED vars
    BY <1>5 DEF Flush, vars, SettingsTypes, JobTyped, RefreshShape
  <1>6. CASE Restart
    BY <1>6, RestartTyped
  <1> QED
    BY <1>1, <1>2, <1>3, <1>4, <1>5, <1>6 DEF Next

(* The copies that handlers, refreshes, cache and client hold are whole    *)
(* settings, however icons are written into maps that others refer to, and *)
(* none is newer than the last save.                                       *)
THEOREM SettingsTyped == Spec => []TypeOK
  <1>1. SettingsTypes => TypeOK
    BY DEF SettingsTypes, TypeOK, JobTyped
  <1> QED
    BY <1>1, InitTyped, NextTyped, SettingsInvariant, PTL DEF Spec

-----------------------------------------------------------------------------
(* Where the settings come from.                                           *)

(* What a key file gives is left out of what is stored, and nothing else.  *)
LEMMA HydratedSound ==
    ASSUME NEW i \in Life!Integrations, keyFile \in FileKeys \cup {None}, Life!Readable(i)
    PROVE  /\ Life!Sound(Life!Hydrated(i))
           /\ Life!Bare(Life!Hydrated(i)) = Life!Bare(i)
  BY DEF Life!Bare, Life!Hydrated, Life!Sound, Life!Integrations, Life!Readable

LEMMA BareTwice ==
    ASSUME NEW i \in Life!Integrations
    PROVE  /\ Life!Bare(i) \in Life!Integrations
           /\ Life!Bare(Life!Bare(i)) = Life!Bare(i)
  BY DEF Life!Bare, Life!Integrations

(* Completed from today's defaults, any policy keeps tools for admins.     *)
LEMMA NormalizedValid ==
    ASSUME NEW llm \in Life!LLMs
    PROVE  /\ Life!Normalized(llm) \in Life!LLMs
           /\ Life!PolicyValid(Life!Normalized(llm).policy)
  <1> DEFINE p == llm.policy
  <1>1. p \in Life!Policies /\ Life!Defaults.llm.policy.calls = 1
    BY DEF Life!LLMs, Life!Defaults
  <1> DEFINE tools == p.role = "admin" /\ (p.tools \/ llm.control)
             calls == IF p.calls = 0 THEN 1 ELSE p.calls
  <1>2. Life!WithTools(llm) = [p EXCEPT !.tools = tools, !.calls = calls]
    BY <1>1, Zenon DEF Life!WithTools
  <1>3. p.role \in Life!Roles /\ tools \in BOOLEAN /\ (tools => p.role = "admin")
    BY <1>1 DEF Life!Policies
  <1>4. calls \in 0..1 /\ calls > 0
    BY <1>1 DEF Life!Policies
  <1> HIDE DEF tools, calls
  <1>5. p = [role |-> p.role, tools |-> p.tools, calls |-> p.calls]
    BY <1>1 DEF Life!Policies
  <1>6. Life!WithTools(llm) = [role |-> p.role, tools |-> tools, calls |-> calls]
    BY <1>2, <1>5
  <1>7. Life!WithTools(llm) \in Life!Policies /\ Life!PolicyValid(Life!WithTools(llm))
    BY <1>3, <1>4, <1>6 DEF Life!Policies, Life!PolicyValid
  <1> QED
    BY <1>7 DEF Life!Normalized, Life!LLMs

LEMMA MergedTyped ==
    ASSUME NEW i \in Life!Integrations, NEW u \in Life!Updates
    PROVE  Life!Merged(i, u) \in Life!Integrations
  BY DEF Life!Merged, Life!Integrations, Life!Updates

LEMMA LayeredTyped ==
    ASSUME Life!LifeTypes
    PROVE  Life!Layered \in Life!Integrations
  <1>1. ASSUME NEW i \in Life!Integrations, NEW layer \in Life!Layers
        PROVE  Life!Overlay(i, layer) \in Life!Integrations
    BY DEF Life!Overlay, Life!Integrations, Life!Layers
  <1>2. Life!Defaults.integrations \in Life!Integrations
    BY DEF Life!Defaults, Life!Integrations
  <1>3. Life!SetInEnvironment(environment) \in Life!Layers
    BY DEF Life!SetInEnvironment, Life!LifeTypes, Life!Layers
  <1> QED
    BY <1>1, <1>2, <1>3 DEF Life!Layered, Life!LifeTypes

LEMMA LifeInit ==
    ASSUME Life!Init
    PROVE  Life!LifeInv
  <1>1. Life!Defaults \in [integrations : Life!Integrations, llm : Life!LLMs]
    BY DEF Life!Defaults, Life!Integrations, Life!LLMs, Life!Policies, Life!Roles
  <1>2. stored # None => stored \in Life!Records
    BY DEF Life!Init, Life!Records
  <1> QED
    BY <1>1, <1>2 DEF Life!Init, Life!LifeInv, Life!LifeTypes

LEMMA LifeStart ==
    ASSUME Life!LifeInv, Life!Start
    PROVE  Life!LifeInv'
  <1> DEFINE base == [Life!Defaults EXCEPT !.integrations = Life!Hydrated(Life!Layered)]
             own == stored # None /\ stored.integrations # None
  <1>1. Life!LifeTypes /\ ~running /\ running'
    BY DEF Life!LifeInv, Life!Start
  <1>2. UNCHANGED <<configFile, environment, keyFile, stored, pending, lastSaved>>
    BY DEF Life!Start
  <1>3. \A h \in Handlers : pending[h] = None
    BY <1>1 DEF Life!LifeInv
  <1>4. Life!Sound(base.integrations) /\ base.llm = Life!Defaults.llm
        /\ base = [integrations |-> base.integrations, llm |-> base.llm]
    <2>1. Life!Sound(Life!Hydrated(Life!Layered))
      BY <1>1, LayeredTyped, HydratedSound DEF Life!Start, Life!LifeTypes
    <2>2. Life!Defaults = [integrations |-> Life!Defaults.integrations, llm |-> Life!Defaults.llm]
      BY DEF Life!Defaults
    <2>3. base = [integrations |-> Life!Hydrated(Life!Layered), llm |-> Life!Defaults.llm]
      BY <2>2
    <2> QED
      BY <2>1, <2>3
  <1>5. base.llm \in Life!LLMs /\ Life!PolicyValid(base.llm.policy)
    BY <1>4 DEF Life!Defaults, Life!LLMs, Life!Policies, Life!Roles, Life!PolicyValid
  <1>6. own => /\ stored.integrations \in Life!Integrations
               /\ Life!Sound(Life!Hydrated(stored.integrations))
               /\ Life!Bare(Life!Hydrated(stored.integrations)) = Life!Bare(stored.integrations)
    BY <1>1, HydratedSound DEF Life!Start, Life!LifeTypes, Life!Records
  <1>7. stored # None => /\ Life!Normalized(stored.llm) \in Life!LLMs
                         /\ Life!PolicyValid(Life!Normalized(stored.llm).policy)
    BY <1>1, NormalizedValid DEF Life!LifeTypes, Life!Records
  <1>8. inForce' = IF stored = None THEN base
                   ELSE [integrations |-> IF own THEN Life!Hydrated(stored.integrations)
                                          ELSE base.integrations,
                         llm |-> Life!Normalized(stored.llm)]
    BY DEF Life!Start
  <1>9. /\ inForce' \in [integrations : Life!Integrations, llm : Life!LLMs]
        /\ Life!Sound(inForce'.integrations)
        /\ Life!PolicyValid(inForce'.llm.policy)
    <2>1. CASE stored = None
      BY <1>4, <1>5, <1>8, <2>1 DEF Life!Sound
    <2>2. CASE stored # None
      BY <1>4, <1>6, <1>7, <1>8, <2>2 DEF Life!Sound
    <2> QED
      BY <2>1, <2>2
  <1>10. lastSaved # None => integrationsSet' /\ Life!Bare(inForce'.integrations) = Life!Bare(lastSaved)
    <2> SUFFICES ASSUME lastSaved # None
                 PROVE  integrationsSet' /\ Life!Bare(inForce'.integrations) = Life!Bare(lastSaved)
      OBVIOUS
    <2>1. lastSaved \in Life!Integrations /\ stored # None /\ stored.integrations = Life!Bare(lastSaved)
      BY <1>1 DEF Life!LifeInv, Life!LifeTypes
    <2>2. own
      BY <2>1, BareTwice, PartsAssumption DEF Life!LifeAssumption
    <2>3. integrationsSet' = (stored # None /\ stored.integrations # None)
      BY DEF Life!Start, Life!SetByStore
    <2>4. integrationsSet'
      BY <2>2, <2>3, Zenon
    <2>5. Life!Bare(inForce'.integrations) = Life!Bare(lastSaved)
      BY <1>6, <1>8, <2>1, <2>2, BareTwice
    <2> QED
      BY <2>4, <2>5
  <1>11. collectors' = inForce'.integrations.key
    BY DEF Life!Start
  <1>12. Life!LifeTypes'
    BY <1>1, <1>2, <1>9 DEF Life!LifeTypes
  <1> QED
    BY <1>1, <1>2, <1>3, <1>9, <1>10, <1>11, <1>12 DEF Life!LifeInv, Life!Bare

LEMMA LifePrepare ==
    ASSUME Life!LifeInv, NEW h \in Handlers, NEW u \in Life!Updates, Life!Prepare(h, u)
    PROVE  Life!LifeInv'
  <1> DEFINE merged == Life!Merged(inForce.integrations, u)
  <1>1. Life!LifeTypes /\ running /\ Life!Readable(merged)
    BY DEF Life!LifeInv, Life!Prepare
  <1>2. Life!Sound(Life!Hydrated(merged))
    BY <1>1, MergedTyped, HydratedSound DEF Life!LifeTypes
  <1>3. pending' = [pending EXCEPT ![h] = Life!Hydrated(merged)]
    BY DEF Life!Prepare
  <1>4. UNCHANGED <<configFile, environment, keyFile, stored, running, inForce,
                    integrationsSet, collectors, lastSaved>>
    BY DEF Life!Prepare
  <1>5. pending' \in [Handlers -> Life!Integrations \cup {None}]
    BY <1>1, <1>2, <1>3 DEF Life!LifeTypes, Life!Sound
  <1>6. \A g \in Handlers : pending'[g] # None => Life!Sound(pending'[g])
    BY <1>1, <1>2, <1>3 DEF Life!LifeInv, Life!LifeTypes, Life!Sound
  <1> QED
    BY <1>1, <1>4, <1>5, <1>6 DEF Life!LifeInv, Life!LifeTypes, Life!Bare, Life!Sound

LEMMA LifeCommit ==
    ASSUME Life!LifeInv, NEW h \in Handlers, Life!Commit(h)
    PROVE  Life!LifeInv'
  <1> DEFINE saved == pending[h]
  <1>1. Life!LifeTypes /\ running /\ Life!Sound(saved) /\ saved # None /\ saved \in Life!Integrations
    BY DEF Life!LifeInv, Life!Commit, Life!Sound
  <1>2. inForce' = [inForce EXCEPT !.integrations = saved] /\ collectors' = saved.key
        /\ integrationsSet' /\ lastSaved' = saved
    BY DEF Life!Commit
  <1>3. /\ inForce' \in [integrations : Life!Integrations, llm : Life!LLMs]
        /\ inForce'.integrations = saved /\ inForce'.llm = inForce.llm
    BY <1>1, <1>2 DEF Life!LifeTypes
  <1>4. stored' = [integrations |-> Life!Bare(saved), llm |-> inForce.llm]
    BY <1>2, <1>3 DEF Life!Commit, Life!Capture
  <1>5. stored' \in Life!Records /\ stored' # None
    BY <1>1, <1>4, BareTwice, PartsAssumption
    DEF Life!Records, Life!LifeTypes, Life!LifeAssumption
  <1>6. /\ pending' \in [Handlers -> Life!Integrations \cup {None}]
        /\ \A g \in Handlers : pending'[g] # None => Life!Sound(pending'[g])
    BY <1>1 DEF Life!LifeInv, Life!LifeTypes, Life!Commit
  <1>7. UNCHANGED <<configFile, environment, keyFile, running>>
    BY DEF Life!Commit
  <1>8. Life!PolicyValid(inForce'.llm.policy)
    BY <1>1, <1>3 DEF Life!LifeInv
  <1>9. Life!LifeTypes'
    BY <1>1, <1>2, <1>3, <1>5, <1>6, <1>7 DEF Life!LifeTypes
  <1> QED
    BY <1>1, <1>2, <1>3, <1>4, <1>5, <1>6, <1>7, <1>8, <1>9 DEF Life!LifeInv, Life!Bare, Life!Sound

LEMMA LifeSaveLLM ==
    ASSUME Life!LifeInv, NEW llm \in Life!LLMs, Life!SaveLLM(llm)
    PROVE  Life!LifeInv'
  <1>1. Life!LifeTypes /\ running
    BY DEF Life!LifeInv, Life!SaveLLM
  <1>2. inForce' = [inForce EXCEPT !.llm = Life!Normalized(llm)]
    BY DEF Life!SaveLLM
  <1>3. /\ inForce' \in [integrations : Life!Integrations, llm : Life!LLMs]
        /\ inForce'.integrations = inForce.integrations
        /\ Life!PolicyValid(inForce'.llm.policy)
    BY <1>1, <1>2, NormalizedValid DEF Life!LifeTypes
  <1>4. UNCHANGED <<configFile, environment, keyFile, running, integrationsSet, collectors,
                    pending, lastSaved>>
    BY DEF Life!SaveLLM
  <1>5. stored' = [integrations |-> IF integrationsSet THEN Life!Bare(inForce.integrations) ELSE None,
                   llm |-> inForce'.llm]
    BY <1>3, <1>4 DEF Life!SaveLLM, Life!Capture
  <1>6. stored' \in Life!Records /\ stored' # None
    BY <1>1, <1>3, <1>5, BareTwice, PartsAssumption
    DEF Life!Records, Life!LifeTypes, Life!LifeAssumption
  <1>7. lastSaved' # None => stored'.integrations = Life!Bare(lastSaved')
    BY <1>1, <1>4, <1>5 DEF Life!LifeInv
  <1>8. Life!LifeTypes'
    BY <1>1, <1>3, <1>4, <1>6 DEF Life!LifeTypes
  <1> QED
    BY <1>1, <1>3, <1>4, <1>6, <1>7, <1>8 DEF Life!LifeInv, Life!Bare, Life!Sound

LEMMA LifeNext ==
    ASSUME Life!LifeInv, [Life!Next]_lifeVars
    PROVE  Life!LifeInv'
  <1>1. CASE Life!Start
    BY <1>1, LifeStart
  <1>2. CASE Life!Stop
    BY <1>2 DEF Life!Stop, Life!LifeInv, Life!LifeTypes, Life!Bare, Life!Sound
  <1>3. CASE Life!Surroundings
    BY <1>3 DEF Life!Surroundings, Life!LifeInv, Life!LifeTypes, Life!Bare, Life!Sound
  <1>4. ASSUME NEW h \in Handlers, Life!Commit(h)
        PROVE  Life!LifeInv'
    BY <1>4, LifeCommit
  <1>5. ASSUME NEW h \in Handlers, NEW u \in Life!Updates, Life!Prepare(h, u)
        PROVE  Life!LifeInv'
    BY <1>5, LifePrepare
  <1>6. ASSUME NEW llm \in Life!LLMs, Life!SaveLLM(llm)
        PROVE  Life!LifeInv'
    BY <1>6, LifeSaveLLM
  <1>7. CASE UNCHANGED lifeVars
    BY <1>7 DEF lifeVars, Life!LifeInv, Life!LifeTypes, Life!Bare, Life!Sound
  <1> QED
    BY <1>1, <1>2, <1>3, <1>4, <1>5, <1>6, <1>7 DEF Life!Next

LEMMA LifeImplies ==
    ASSUME Life!LifeInv
    PROVE  SavedInForce
  BY DEF Life!LifeInv, Life!Sound, SavedInForce, Life!SavedInForce, Life!IntegrationsSurvive,
         Life!KeyFileOverrides, Life!ToolsForAdmins

(* applyRuntimeSettings and the handlers: the integrations an admin saved  *)
(* stay in force through saves of other sections, restarts and changes     *)
(* of the environment, a configured key file gives the key, and no policy  *)
(* that is in force gives tools to anyone but administrators.              *)
THEOREM SettingsSurvive == MCSpec => []SavedInForce
  <1>1. MCInit => Life!LifeInv
    BY LifeInit DEF MCInit
  <1>2. Life!LifeInv /\ [SavesStep \/ LifeStep \/ AgentStep]_MCVars => Life!LifeInv'
    BY LifeNext DEF SavesStep, LifeStep, AgentStep, MCVars
  <1> QED
    BY <1>1, <1>2, LifeImplies, PTL DEF MCSpec

-----------------------------------------------------------------------------
(* The tool loop of a diagnosis.                                           *)

(* No recursion but one over the naturals: what fails, fails first at some *)
(* number.                                                                 *)
LEMMA FirstFailure ==
    ASSUME NEW S \in SUBSET Nat, S # {}
    PROVE  \E n \in S : \A m \in S : n <= m
  <1> DEFINE less == {ss \in Nat \X Nat : ss[1] < ss[2]}
  <1>1. IsWellFoundedOn(less, Nat)
    BY NatLessThanWellFounded, Zenon DEF OpToRel
  <1> HIDE DEF less
  <1>2. PICK n \in S : \A m \in S : <<m, n>> \notin less
    BY <1>1, WFMin
  <1>3. ASSUME NEW m \in S
        PROVE  n <= m
    <2>1. m \in Nat /\ n \in Nat /\ <<m, n>> \notin less
      BY <1>2
    <2>2. ~(m < n)
      BY <2>1 DEF less
    <2> QED
      BY <2>1, <2>2
  <1> QED
    BY <1>3

LEMMA LastOne ==
    ASSUME NEW S \in SUBSET Nat, S # {}, NEW bound \in Nat, \A m \in S : m <= bound
    PROVE  \E n \in S : \A m \in S : m <= n
  <1> DEFINE back == {bound - m : m \in S}
  <1>1. back \in SUBSET Nat /\ back # {}
    <2>1. \A m \in S : bound - m \in Nat
      OBVIOUS
    <2> QED
      BY <2>1
  <1>2. PICK d \in back : \A e \in back : d <= e
    <2> HIDE DEF back
    <2> QED
      BY <1>1, FirstFailure
  <1>3. PICK n \in S : d = bound - n
    BY <1>2
  <1>4. ASSUME NEW m \in S
        PROVE  m <= n
    <2>1. bound - m \in back /\ m \in Nat /\ n \in Nat
      BY <1>3
    <2>2. bound - n <= bound - m
      BY <1>2, <1>3, <2>1
    <2> QED
      BY <2>1, <2>2
  <1> QED
    BY <1>3, <1>4

(* The rules can be applied one after the other, whatever they are.        *)
LEMMA AfterExists ==
    ASSUME NEW rules \in Seq(Agent!Rules)
    PROVE  \E f \in [0..Len(rules) -> SUBSET Tools] :
               f = [n \in 0..Len(rules) |->
                       IF n = 0 THEN {} ELSE Agent!Ruled(f[n - 1], rules[n])]
  <1> DEFINE Good(f, n) == /\ f \in [0..n -> SUBSET Tools] /\ f[0] = {}
                           /\ \A k \in 1..n : f[k] = Agent!Ruled(f[k - 1], rules[k])
             bad == {n \in 0..Len(rules) : ~\E f \in [0..n -> SUBSET Tools] : Good(f, n)}
  <1>1. bad = {}
    <2> SUFFICES ASSUME bad # {}
                 PROVE  FALSE
      OBVIOUS
    <2>1. PICK n \in bad : \A m \in bad : n <= m
      <3>1. bad \in SUBSET Nat
        OBVIOUS
      <3> HIDE DEF bad
      <3> QED
        BY <3>1, FirstFailure
    <2>2. n # 0
      <3>1. Good([k \in 0..0 |-> {}], 0)
        OBVIOUS
      <3> QED
        BY <2>1, <3>1
    <2>3. n \in 1..Len(rules) /\ n - 1 \in 0..Len(rules) /\ n - 1 \notin bad
      <3>1. n \in 0..Len(rules) /\ Len(rules) \in Nat
        BY <2>1
      <3> HIDE DEF bad
      <3> QED
        BY <2>1, <2>2, <3>1
    <2>4. PICK f \in [0..(n - 1) -> SUBSET Tools] : Good(f, n - 1)
      BY <2>3
    <2> DEFINE g == [k \in 0..n |-> IF k = n THEN Agent!Ruled(f[n - 1], rules[n]) ELSE f[k]]
    <2>5. Agent!Ruled(f[n - 1], rules[n]) \in SUBSET Tools
      <3>1. rules[n] \in Agent!Rules
        BY <2>3
      <3>2. Agent!Names(rules[n]) \subseteq Tools
        BY <3>1 DEF Agent!Names, Agent!Rules
      <3>3. f[n - 1] \in SUBSET Tools
        BY <2>3, <2>4
      <3> QED
        BY <3>2, <3>3 DEF Agent!Ruled
    <2>6. g \in [0..n -> SUBSET Tools]
      BY <2>1, <2>4, <2>5
    <2>7. ASSUME NEW k \in 1..n
          PROVE  g[k] = Agent!Ruled(g[k - 1], rules[k])
      <3>1. g[k - 1] = f[k - 1]
        BY <2>1
      <3>2. CASE k = n
        BY <2>1, <3>1, <3>2
      <3>3. CASE k # n
        BY <2>1, <2>4, <3>1, <3>3
      <3> QED
        BY <3>2, <3>3
    <2>8. g[0] = {}
      BY <2>1, <2>2, <2>4
    <2> QED
      BY <2>1, <2>6, <2>7, <2>8
  <1>2. PICK f \in [0..Len(rules) -> SUBSET Tools] : Good(f, Len(rules))
    <2>1. Len(rules) \in 0..Len(rules)
      OBVIOUS
    <2> QED
      BY <1>1, <2>1
  <1>3. f = [n \in 0..Len(rules) |-> IF n = 0 THEN {} ELSE Agent!Ruled(f[n - 1], rules[n])]
    BY <1>2
  <1> QED
    BY <1>3

(* allowedAgentTools: what it allows, the last rule about it allows.       *)
LEMMA AllowedByLast ==
    ASSUME NEW rules \in Seq(Agent!Rules), NEW tool \in Agent!Allowed(rules)
    PROVE  tool \in Tools /\ Agent!LastRuleAllows(rules, tool)
  <1> DEFINE Step(f) == [n \in 0..Len(rules) |->
                            IF n = 0 THEN {} ELSE Agent!Ruled(f[n - 1], rules[n])]
             after == CHOOSE f : f = Step(f)
  <1>1. after = Step(after)
    BY AfterExists
  <1>2. tool \in after[Len(rules)]
    BY DEF Agent!Allowed
  <1> HIDE DEF after
  <1>3. after[0] = {} /\ \A n \in 1..Len(rules) : after[n] = Agent!Ruled(after[n - 1], rules[n])
    <2>1. after[0] = {}
      BY <1>1
    <2>2. ASSUME NEW n \in 1..Len(rules)
          PROVE  after[n] = Agent!Ruled(after[n - 1], rules[n])
      <3>1. n \in 0..Len(rules) /\ n # 0
        OBVIOUS
      <3> QED
        BY <1>1, <3>1
    <2> QED
      BY <2>1, <2>2
  \* the rules since which the tool has always been allowed begin with one about it
  <1> DEFINE since == {n \in 0..Len(rules) : \A m \in n..Len(rules) : tool \in after[m]}
             about == {n \in DOMAIN rules : rules[n].tool \in {tool, AnyTool}}
  <1>4. PICK n \in since : \A m \in since : n <= m
    <2>1. since \in SUBSET Nat
      OBVIOUS
    <2>2. Len(rules) \in since
      BY <1>2
    <2> HIDE DEF since
    <2> QED
      BY <2>1, <2>2, FirstFailure
  <1>5. n \in 1..Len(rules)
    BY <1>3, <1>4
  <1>6. tool \notin after[n - 1]
    <2>1. n - 1 \notin since
      BY <1>4, <1>5
    <2>2. n - 1 \in 0..Len(rules) /\ \A m \in n..Len(rules) : tool \in after[m]
      BY <1>4, <1>5
    <2>3. \A m \in (n - 1)..Len(rules) : m = n - 1 \/ m \in n..Len(rules)
      BY <1>5
    <2> QED
      BY <2>1, <2>2, <2>3
  <1>7. tool \in after[n] /\ after[n] = Agent!Ruled(after[n - 1], rules[n]) /\ rules[n] \in Agent!Rules
    BY <1>3, <1>4, <1>5
  <1>8. rules[n].action = "allow" /\ tool \in Agent!Names(rules[n])
    BY <1>6, <1>7 DEF Agent!Ruled
  <1>9. n \in about /\ tool \in Tools
    BY <1>5, <1>7, <1>8 DEF Agent!Names, Agent!Rules
  \* the last rule about it comes no earlier, and it, too, left the tool allowed
  <1>10. PICK last \in about : \A m \in about : m <= last
    <2>1. about \in SUBSET Nat /\ about # {} /\ Len(rules) \in Nat
          /\ \A m \in about : m <= Len(rules)
      BY <1>9
    <2> HIDE DEF about
    <2> QED
      BY <2>1, LastOne
  <1>11. last \in n..Len(rules) /\ last \in 1..Len(rules) /\ rules[last] \in Agent!Rules
    BY <1>5, <1>9, <1>10
  <1>12. tool \in after[last] /\ after[last] = Agent!Ruled(after[last - 1], rules[last])
    BY <1>3, <1>4, <1>11
  <1>13. tool \in Agent!Names(rules[last])
    BY <1>9, <1>10 DEF Agent!Names
  <1>14. rules[last].action = "allow"
    BY <1>12, <1>13 DEF Agent!Ruled
  <1> QED
    BY <1>9, <1>10, <1>14 DEF Agent!LastRuleAllows

(* The inductive invariant: calls made and calls asked for add up to what  *)
(* is counted, and a call that worked was one of the tools offered.        *)
AgentInv ==
    /\ policy.rules \in Seq(Agent!Rules) /\ policy.budget \in Nat
    /\ used \in Nat /\ used <= Agent!Budget
    /\ todo \in Seq(Agent!Calls)
    /\ executed \in Seq([call : Agent!Calls, ok : BOOLEAN])
    /\ Len(executed) + Len(todo) <= used
    /\ at \in {"post", "tool", "answered", "failed"}
    /\ at = "tool" <=> todo # <<>>
    /\ audited = executed
    /\ \A i \in DOMAIN executed :
           /\ executed[i].ok => executed[i].call.tool \in Agent!Offered
           /\ ~executed[i].ok => i = Len(executed) /\ at = "failed"

LEMMA AgentInit ==
    ASSUME Agent!Init
    PROVE  AgentInv
  <1>1. policy.rules \in Seq(Agent!Rules) /\ policy.budget \in Nat
    <2>1. policy.rules \in Agent!BoundedSeq(Agent!Rules, MaxRules) /\ policy.budget \in 0..MaxBudget
      BY DEF Agent!Init
    <2>2. PICK n \in 0..MaxRules : policy.rules \in [1..n -> Agent!Rules]
      BY <2>1 DEF Agent!BoundedSeq, Agent!SeqOf
    <2> QED
      BY <2>1, <2>2, PartsAssumption DEF Agent!AgentAssumption
  <1> QED
    BY <1>1 DEF Agent!Init, AgentInv, Agent!Budget

(* A failed answer drops what was asked for; a new model starts over.      *)
LEMMA AgentDrops ==
    ASSUME AgentInv, at = "post", UNCHANGED policy, todo' = <<>>,
           \/ UNCHANGED <<used, executed, audited>> /\ at' \in {"answered", "failed"}
           \/ used' = 0 /\ executed' = <<>> /\ audited' = <<>> /\ at' = "post"
    PROVE  AgentInv'
  <1>1. UNCHANGED <<Agent!Budget, Agent!Offered>>
    BY DEF Agent!Budget, Agent!Offered
  <1>2. \A i \in DOMAIN executed : executed[i].ok
    BY DEF AgentInv
  <1>3. CASE UNCHANGED <<used, executed, audited>> /\ at' \in {"answered", "failed"}
    BY <1>1, <1>2, <1>3 DEF AgentInv
  <1>4. CASE used' = 0 /\ executed' = <<>> /\ audited' = <<>> /\ at' = "post"
    <2>1. 0 <= Agent!Budget
      BY DEF Agent!Budget, AgentInv
    <2> QED
      BY <1>1, <1>4, <2>1 DEF AgentInv
  <1> QED
    BY <1>3, <1>4

LEMMA AgentAsks ==
    ASSUME AgentInv, NEW calls \in Seq(Agent!Calls), Agent!Asks(calls)
    PROVE  AgentInv'
  <1>1. at = "post" /\ calls # <<>> /\ UNCHANGED policy
    BY DEF Agent!Asks
  <1>2. CASE Agent!Offered = {} \/ ~Agent!Within(calls)
    BY <1>1, <1>2, AgentDrops DEF Agent!Asks, Agent!Fail
  <1>3. CASE ~(Agent!Offered = {} \/ ~Agent!Within(calls))
    <2>1. /\ at' = "tool" /\ todo' = calls /\ used' = used + Len(calls)
          /\ UNCHANGED <<executed, audited>>
      BY <1>3 DEF Agent!Asks
    <2>2. UNCHANGED <<Agent!Budget, Agent!Offered>>
      BY <1>1 DEF Agent!Budget, Agent!Offered
    <2>3. used + Len(calls) <= Agent!Budget
      BY <1>3 DEF Agent!Within
    <2>4. \A i \in DOMAIN executed : executed[i].ok
      BY <1>1 DEF AgentInv
    <2>5. Len(executed) + Len(calls) <= used + Len(calls)
      BY DEF AgentInv
    <2> QED
      BY <1>1, <2>1, <2>2, <2>3, <2>4, <2>5 DEF AgentInv
  <1> QED
    BY <1>2, <1>3

LEMMA AgentExecutes ==
    ASSUME AgentInv, NEW ok \in BOOLEAN, Agent!Execute(ok)
    PROVE  AgentInv'
  <1> DEFINE done == [call |-> Head(todo), ok |-> ok]
             Outcome == [call : Agent!Calls, ok : BOOLEAN]
  <1>1. /\ at = "tool" /\ todo # <<>> /\ todo \in Seq(Agent!Calls)
        /\ executed \in Seq(Outcome) /\ audited = executed
        /\ \A i \in DOMAIN executed : /\ executed[i].ok
                                      /\ executed[i].call.tool \in Agent!Offered
    BY DEF Agent!Execute, AgentInv
  <1>2. done \in Outcome
    BY <1>1
  <1>3. executed' = Append(executed, done) /\ audited' = audited \o <<done>>
    BY DEF Agent!Execute, Agent!Audit
  <1>4. executed' \in Seq(Outcome) /\ audited' = executed' /\ Len(executed') = Len(executed) + 1
    <2> HIDE DEF done, Outcome
    <2> QED
      BY <1>1, <1>2, <1>3
  <1>5. /\ \A i \in DOMAIN executed : executed'[i] = executed[i]
        /\ executed'[Len(executed')] = done
        /\ \A i \in DOMAIN executed' : i \in DOMAIN executed \/ i = Len(executed')
    <2> HIDE DEF done, Outcome
    <2> QED
      BY <1>1, <1>2, <1>3
  <1>6. UNCHANGED <<policy, used, Agent!Budget, Agent!Offered>>
    BY DEF Agent!Execute, Agent!Budget, Agent!Offered
  <1>7. ok => done.call.tool \in Agent!Offered
    BY DEF Agent!Execute, Agent!MayWork
  <1>8. /\ todo' \in Seq(Agent!Calls) /\ Len(todo') <= Len(todo) - 1
        /\ at' \in {"post", "tool", "failed"}
        /\ at' = "tool" <=> todo' # <<>>
        /\ ~ok => at' = "failed"
    <2>1. CASE ok
      <3>1. todo' = Tail(todo) /\ at' = IF Len(todo) > 1 THEN "tool" ELSE "post"
        BY <2>1 DEF Agent!Execute
      <3>2. /\ Tail(todo) \in Seq(Agent!Calls) /\ Len(Tail(todo)) = Len(todo) - 1
            /\ Len(todo) \in Nat /\ Len(todo) > 0
        BY <1>1
      <3>3. Tail(todo) # <<>> <=> Len(todo) > 1
        <4>1. ASSUME NEW s \in Seq(Agent!Calls), Len(s) = Len(todo) - 1
              PROVE  s # <<>> <=> Len(todo) > 1
          BY <3>2, <4>1
        <4> QED
          BY <3>2, <4>1, Zenon
      <3> QED
        BY <2>1, <3>1, <3>2, <3>3
    <2>2. CASE ~ok
      <3>1. todo' = <<>> /\ at' = "failed"
        BY <2>2 DEF Agent!Execute
      <3>2. Len(todo) \in Nat /\ Len(todo) > 0
        BY <1>1
      <3> QED
        BY <3>1, <3>2
    <2> QED
      BY <2>1, <2>2
  <1>9. \A i \in DOMAIN executed' :
           /\ executed'[i].ok => executed'[i].call.tool \in Agent!Offered'
           /\ ~executed'[i].ok => i = Len(executed') /\ at' = "failed"
    BY <1>1, <1>5, <1>6, <1>7, <1>8
  <1>10. Len(executed') + Len(todo') <= used'
    <2>1. Len(executed) + Len(todo) <= used /\ used \in Nat /\ Len(todo) \in Nat
          /\ Len(executed) \in Nat
      BY <1>1 DEF AgentInv
    <2>2. Len(todo') \in Nat
      BY <1>8
    <2> QED
      BY <1>4, <1>6, <1>8, <2>1, <2>2
  <1> QED
    BY <1>4, <1>6, <1>8, <1>9, <1>10 DEF AgentInv

LEMMA AgentNext ==
    ASSUME AgentInv, [Agent!Next]_agentVars
    PROVE  AgentInv'
  <1>1. CASE Agent!Diagnosis
    BY <1>1 DEF Agent!Diagnosis, AgentInv, Agent!Budget, Agent!Offered
  <1>2. CASE Agent!PostFails
    BY <1>2, AgentDrops DEF Agent!PostFails, Agent!Fail
  <1>3. CASE Agent!Unsupported
    <2>1. todo = <<>>
      BY <1>3 DEF Agent!Unsupported, AgentInv
    <2> QED
      BY <1>3, <2>1, AgentDrops DEF Agent!Unsupported, Agent!Fail
  <1>4. ASSUME NEW calls \in Agent!BoundedSeq(Agent!Calls, MaxCalls), Agent!Asks(calls)
        PROVE  AgentInv'
    <2>1. PICK n \in 0..MaxCalls : calls \in [1..n -> Agent!Calls]
      BY DEF Agent!BoundedSeq, Agent!SeqOf
    <2>2. calls \in Seq(Agent!Calls)
      BY <2>1, PartsAssumption DEF Agent!AgentAssumption
    <2> QED
      BY <1>4, <2>2, AgentAsks
  <1>5. ASSUME NEW ok \in BOOLEAN, Agent!Execute(ok)
        PROVE  AgentInv'
    BY <1>5, AgentExecutes
  <1>6. CASE Agent!World
    BY <1>6 DEF Agent!World, AgentInv, Agent!Budget, Agent!Offered
  <1>7. CASE UNCHANGED agentVars
    BY <1>7 DEF agentVars, AgentInv, Agent!Budget, Agent!Offered
  <1> QED
    BY <1>1, <1>2, <1>3, <1>4, <1>5, <1>6, <1>7 DEF Agent!Next, Agent!Step

LEMMA AgentImplies ==
    ASSUME AgentInv
    PROVE  PolicyHeld
  <1>1. Len(executed) <= Agent!Budget
    <2>1. Len(executed) \in Nat /\ Len(todo) \in Nat /\ used \in Nat /\ Agent!Budget \in Int
      BY DEF AgentInv, Agent!Budget
    <2> QED
      BY <2>1 DEF AgentInv
  <1>2. ASSUME NEW i \in DOMAIN executed, executed[i].ok
        PROVE  /\ policy.enabled /\ policy.role = "admin"
               /\ Agent!LastRuleAllows(policy.rules, executed[i].call.tool)
    <2>1. executed[i].call.tool \in Agent!Offered
      BY <1>2 DEF AgentInv
    <2>2. /\ policy.enabled /\ policy.role = "admin"
          /\ executed[i].call.tool \in Agent!Allowed(policy.rules)
      BY <2>1 DEF Agent!Offered
    <2> QED
      BY <2>2, AllowedByLast DEF AgentInv
  <1> QED
    BY <1>1, <1>2 DEF AgentInv, PolicyHeld, Agent!PolicyHeld, Agent!CallsWithinPolicy,
                      Agent!CallsAudited

(* runOpenAIResponsesDiagnosis and executeAgentTool: whatever the model    *)
(* asks for, its calls stay within the budget, those that worked are of    *)
(* tools that the last rule about them allows, for an administrator, and   *)
(* each is in the audit.                                                   *)
THEOREM AgentWithinPolicy == MCSpec => []PolicyHeld
  <1>1. MCInit => AgentInv
    BY AgentInit DEF MCInit
  <1>2. AgentInv /\ [SavesStep \/ LifeStep \/ AgentStep]_MCVars => AgentInv'
    BY AgentNext DEF SavesStep, LifeStep, AgentStep, MCVars
  <1> QED
    BY <1>1, <1>2, AgentImplies, PTL DEF MCSpec
==============================================================================
