--------------------------- MODULE RuntimeSettings ---------------------------
(***************************************************************************)
(* Admin settings and the cached snapshot: the POST handlers under         *)
(* /api/admin/settings of internal/server (settings.go, apps.go,           *)
(* openai_auth.go), runtime.go, the snapshot cache of server.go, and the   *)
(* runtime_settings record of internal/db/store.go.                        *)
(*                                                                         *)
(* A value is the number of the save that wrote it, 0 for the configured   *)
(* one.  A handler reads a copy, applies its section under settingsMu and  *)
(* captures all settings there; the store, and then the cache, have locks  *)
(* of their own, so handlers and snapshot refreshes interleave between.    *)
(***************************************************************************)
EXTENDS Integers

CONSTANTS
    Writers,      \* goroutines of the settings handlers
    Readers,      \* requests that read the latest snapshot
    Poller,       \* the goroutine of RunPoller
    Kinds,        \* the handlers an instance exercises
    MaxSaves,     \* bound on settings saves
    MaxRestarts,  \* bound on restarts of the process
    None

ASSUME SettingsAssumption ==
    /\ Poller \notin Readers
    /\ Kinds \subseteq {"visibility", "privacy", "notifications", "catalog", "icon",
                        "llm", "chatgpt", "unraid", "unifi"}
    /\ MaxSaves \in Nat /\ MaxRestarts \in Nat

\* The settings by what is replaced together.
Fields == {"visibility", "privacy", "notifications", "flags", "icons",
           "llm", "chatgpt", "unraid", "unifi"}

VARIABLES
    live,       \* deps.Config, per field
    icons,      \* the identity of the IconOverrides map that live refers to
    redactor,   \* the privacy settings deps.Redactor was built from
    client,     \* the LLM and privacy settings deps.LLM was built from
    memory,     \* FileStore.state.RuntimeSettings
    disk,       \* the same on disk
    cache,      \* the settings the cached snapshot was made with, or None
    writer,     \* what each settings handler is doing
    reader,     \* what each refresh is doing
    saves,      \* saves so far; also the source of values
    restarts,
    past,       \* every value deps.Config has had (history)
    acked       \* per field, the last save that was answered with success (history)

vars == <<live, icons, redactor, client, memory, disk, cache, writer, reader, saves,
          restarts, past, acked>>

Unset == [f \in Fields |-> 0]

Init ==
    /\ live = Unset
    /\ icons = 0
    /\ redactor = 0
    /\ client = [llm |-> 0, chatgpt |-> 0, privacy |-> 0]
    /\ memory = Unset
    /\ disk = Unset
    /\ cache = None
    /\ writer = [w \in Writers |-> None]
    /\ reader = [r \in Readers \cup {Poller} |-> None]
    /\ saves = 0
    /\ restarts = 0
    /\ past = {live}
    /\ acked = Unset

-----------------------------------------------------------------------------
(* The settings handlers.                                                  *)

\* What a handler assigns: the fields named by its request, and the rest of
\* its section from the copy it read.
Changed(kind) == CASE kind = "catalog" -> {"flags", "icons"}
                   [] kind = "icon"    -> {"icons"}
                   [] OTHER            -> {kind}
Section(kind) == CASE kind \in {"llm", "chatgpt"}  -> {"llm", "chatgpt"}
                   [] kind \in {"unraid", "unifi"} -> {"unraid", "unifi"}
                   [] OTHER                        -> Changed(kind)

\* configSnapshot, before the request is decoded and validated.
BeginSave(w, kind) ==
    /\ writer[w] = None
    /\ saves < MaxSaves
    /\ saves' = saves + 1
    /\ writer' = [writer EXCEPT ![w] = [kind |-> kind, at |-> "apply", save |-> saves',
                                        copy |-> live, icons |-> icons]]
    /\ UNCHANGED <<live, icons, redactor, client, memory, disk, cache, reader, restarts, past, acked>>

\* Mutation: the handler saves the settings and keeps the client it has.
RebuiltClientNever(kind, settings) == client

\* Mutation: the client is built without a redactor.
ClientUnredacted(kind, settings) == [llm |-> settings["llm"], chatgpt |-> settings["chatgpt"]]

\* llm.NewClient(settings, a.deps.Redactor), in the LLM handlers only
RebuiltClient(kind, settings) ==
    IF kind \in {"llm", "chatgpt"}
    THEN [llm |-> settings["llm"], chatgpt |-> settings["chatgpt"], privacy |-> redactor]
    ELSE client

\* Mutation: only the handler's own section is captured, over what the store has.
CaptureSection(kind, settings) == [f \in Fields |-> IF f \in Section(kind) THEN settings[f] ELSE disk[f]]

\* currentRuntimeSettingsLocked
Capture(kind, settings) == settings

\* The locked assignment and capture.  An icon is written into the shared map,
\* which other holders of that map see; a catalog brings a map of its own.
Apply(w) ==
    /\ writer[w] # None /\ writer[w].at = "apply"
    /\ LET kind == writer[w].kind
           next == [f \in Fields |->
                       IF f \in Changed(kind) THEN writer[w].save
                       ELSE IF f \in Section(kind) THEN writer[w].copy[f]
                       ELSE live[f]]
           Sees(job) == IF kind = "icon" /\ job # None /\ job.icons = icons
                        THEN [job EXCEPT !.copy["icons"] = writer[w].save] ELSE job
       IN  /\ live' = next
           /\ icons' = IF kind = "catalog" THEN writer[w].save ELSE icons
           /\ redactor' = IF kind = "privacy" THEN writer[w].save ELSE redactor
           /\ client' = RebuiltClient(kind, next)
           /\ past' = past \cup {next}
           /\ writer' = [v \in Writers |->
                            IF v = w
                            THEN [writer[w] EXCEPT !.at = "store", !.copy = Capture(kind, next),
                                                   !.icons = icons']
                            ELSE Sees(writer[v])]
           /\ reader' = [r \in DOMAIN reader |-> Sees(reader[r])]
    /\ UNCHANGED <<memory, disk, cache, saves, restarts, acked>>

\* SaveRuntimeSettings: the store's memory is replaced even when the write
\* fails, and then the handler answers 500 and leaves the cache alone.
Store(w) ==
    /\ writer[w] # None /\ writer[w].at = "store"
    /\ memory' = writer[w].copy
    /\ \/ /\ disk' = writer[w].copy
          /\ writer' = [writer EXCEPT ![w].at = "invalidate"]
       \/ /\ writer' = [writer EXCEPT ![w] = None]
          /\ UNCHANGED disk
    /\ UNCHANGED <<live, icons, redactor, client, cache, reader, saves, restarts, past, acked>>

\* invalidateSnapshot, and the answer.
Invalidate(w) ==
    /\ writer[w] # None /\ writer[w].at = "invalidate"
    /\ cache' = None
    /\ acked' = [f \in Fields |-> IF f \in Changed(writer[w].kind) /\ acked[f] < writer[w].save
                                  THEN writer[w].save ELSE acked[f]]
    /\ writer' = [writer EXCEPT ![w] = None]
    /\ UNCHANGED <<live, icons, redactor, client, memory, disk, reader, saves, restarts, past>>

\* Any other write of the store persists its whole state.
Flush ==
    /\ disk # memory
    /\ disk' = memory
    /\ UNCHANGED <<live, icons, redactor, client, memory, cache, writer, reader, saves, restarts, past, acked>>

-----------------------------------------------------------------------------
(* The snapshot cache.                                                     *)

Idle(r) == reader[r] = None

\* latestFullSnapshot serves the cached snapshot; the answer is under way at
\* "served".
ReadCached(r) ==
    /\ Idle(r)
    /\ cache # None
    /\ reader' = [reader EXCEPT ![r] = [at |-> "served", copy |-> cache, icons |-> None]]
    /\ UNCHANGED <<live, icons, redactor, client, memory, disk, cache, writer, saves, restarts, past, acked>>

\* Mutation: the poller, too, is content with a cached snapshot.
PollsCached(r) == cache = None

\* latestFullSnapshot refreshes when there is none, the poller always.
Refreshes(r) == r = Poller \/ cache = None

\* refreshSnapshot: collectSnapshot takes the settings first ...
Collect(r) ==
    /\ Idle(r)
    /\ Refreshes(r)
    /\ reader' = [reader EXCEPT ![r] = [at |-> "publish", copy |-> live, icons |-> icons]]
    /\ UNCHANGED <<live, icons, redactor, client, memory, disk, cache, writer, saves, restarts, past, acked>>

\* ... and the snapshot made with them is published once it is complete.
Publish(r) ==
    /\ ~Idle(r) /\ reader[r].at = "publish"
    /\ cache' = reader[r].copy
    /\ reader' = [reader EXCEPT ![r] = IF r = Poller THEN None
                                       ELSE [@ EXCEPT !.at = "served", !.icons = None]]
    /\ UNCHANGED <<live, icons, redactor, client, memory, disk, writer, saves, restarts, past, acked>>

Answer(r) ==
    /\ ~Idle(r) /\ reader[r].at = "served"
    /\ reader' = [reader EXCEPT ![r] = None]
    /\ UNCHANGED <<live, icons, redactor, client, memory, disk, cache, writer, saves, restarts, past, acked>>

\* The process stops; New applies the record of the store.
Restart ==
    /\ restarts < MaxRestarts
    /\ restarts' = restarts + 1
    /\ live' = disk
    /\ memory' = disk
    /\ redactor' = disk["privacy"]
    /\ client' = [llm |-> disk["llm"], chatgpt |-> disk["chatgpt"], privacy |-> disk["privacy"]]
    /\ icons' = 0
    /\ cache' = None
    /\ writer' = [w \in Writers |-> None]
    /\ reader' = [r \in DOMAIN reader |-> None]
    /\ UNCHANGED <<disk, saves, past, acked>>

Handler(w) == Apply(w) \/ Store(w) \/ Invalidate(w)
Poll == Collect(Poller) \/ Publish(Poller)
Read(r) == ReadCached(r) \/ Collect(r) \/ Publish(r) \/ Answer(r)

Next ==
    \/ \E w \in Writers : \/ \E kind \in Kinds : BeginSave(w, kind)
                          \/ Handler(w)
    \/ \E r \in Readers : Read(r)
    \/ Poll
    \/ Flush \/ Restart

Spec == Init /\ [][Next]_vars

\* The poller's ticker fires for ever, and a started refresh comes back.
FairSpec == Spec /\ WF_vars(Poll)

-----------------------------------------------------------------------------
(* Properties.                                                             *)

Values == [Fields -> 0..MaxSaves]

TypeOK ==
    /\ live \in Values /\ memory \in Values /\ disk \in Values /\ acked \in Values
    /\ cache # None => cache \in Values
    /\ client \in [{"llm", "chatgpt", "privacy"} -> 0..MaxSaves]
    /\ \A w \in Writers : writer[w] # None =>
           /\ writer[w].at \in {"apply", "store", "invalidate"}
           /\ writer[w].copy \in Values

\* All of it but the icons was in force at one time.
Once(stored) == \E state \in past : \A f \in Fields \ {"icons"} : stored[f] = state[f]

\* runtime.go, currentRuntimeSettingsLocked: what a restart would apply is a
\* state that the settings were once in as a whole, never one admin's
\* visibility with another moment's repair switches.  Icons are left out: they
\* are written into a map that a capture only refers to.
StoredAsOneState == Once(disk) /\ Once(memory)

\* docs/api-config.md: writes are "applied immediately to the in-memory redactor,
\* LLM client, ...": between any two locked sections the redactor is that of the
\* privacy settings in force, the client that of the LLM settings in force, and
\* the client's redactor never comes from a save that is not in force yet.
PartsFollowSettings ==
    /\ redactor = live["privacy"]
    /\ client.llm = live["llm"] /\ client.chatgpt = live["chatgpt"]
    /\ client.privacy \in {state["privacy"] : state \in past}

Maps == [Fields -> Nat]

\* What a handler holds; a capture that waits for the store was in force once.
WriterShape(w) ==
    /\ writer[w] = [kind |-> writer[w].kind, at |-> writer[w].at, save |-> writer[w].save,
                    copy |-> writer[w].copy, icons |-> writer[w].icons]
    /\ writer[w].kind \in Kinds
    /\ writer[w].save \in Nat
    /\ writer[w].copy \in Maps
    /\ writer[w].at = "store" => Once(writer[w].copy)

\* The inductive invariant: besides the two properties above, the settings in
\* force, and those that are about to be stored, were once in force as a whole.
SettingsInv ==
    /\ live \in Maps /\ memory \in Maps /\ disk \in Maps /\ past \subseteq Maps
    /\ saves \in Nat
    /\ Once(live)
    /\ DOMAIN writer = Writers
    /\ \A w \in Writers : writer[w] # None => WriterShape(w)
    /\ StoredAsOneState
    /\ PartsFollowSettings

\* docs/api-config.md: "Successful writes are persisted in the JSON database":
\* a save that was answered with success is on disk, whatever wrote since.
SavesKept == \A f \in Fields : disk[f] >= acked[f]

\* Once the admins leave the settings alone, the cached snapshot is that of the
\* current settings for good, even if a slow refresh has published old ones.
CacheCatchesUp == <>[](cache = None \/ cache = live)
==============================================================================
