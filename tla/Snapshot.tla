------------------------------ MODULE Snapshot ------------------------------
(***************************************************************************)
(* From the state of the home network to what each role is told:           *)
(* the live collectors (internal/adapters), collectSnapshot                *)
(* (internal/server/server.go), the rules (internal/diagnostics/rules.go)  *)
(* and the filter by role (internal/privacy/visibility.go).                *)
(*                                                                         *)
(* All of it is a function of the world at the time of the collection, so   *)
(* the only variable is the world; a step changes one thing in it.         *)
(***************************************************************************)
EXTENDS Integers, Sequences, FiniteSets, SequencesExt

CONSTANTS
    Apps,           \* containers
    MaxTroubles,    \* bound on the things that are out of order at once
    None            \* an app list that could not be had

\* What an instance must respect; the module that makes it assumes this.
SnapshotAssumption == MaxTroubles \in Nat /\ IsFiniteSet(Apps)

VARIABLE world

vars == world

Probes == {"internet", "dns", "router", "nas"}
ProbeResults == {"skipped", "ok", "slow", "failed"}

\* Containers as Docker lists them, dockerState and dockerHealth, and whether the
\* history has seen them change too often lately; of one that exited, the health
\* decides nothing.
Conditions ==
    [state : {"running"}, health : {"none", "unhealthy", "unknown"}, looping : BOOLEAN]
        \cup [state : {"unknown"}, health : {"none", "unhealthy"}, looping : BOOLEAN]
        \cup [state : {"exited"}, health : {"none"}, looping : BOOLEAN]

\* appID of the names of the containers: my_app and my-app have the same one.  Of
\* an AppID only matters who else has it, so a container stands for the one its
\* name alone would give.
Identified == [Apps -> Apps]

\* wanSignal: what the fields and texts of a WAN line come to.
Signals == {"up", "down", "disabled", "unknown"}

Fine == [state |-> "running", health |-> "none", looping |-> FALSE]

Calm ==
    [unraid |-> "answers", fault |-> "none", silent |-> {}, docker |-> "answers", ssh |-> "off",
     unlisted |-> {}, apps |-> [a \in Apps |-> Fine], ids |-> [a \in Apps |-> a],
     unifi |-> "answers", gateway |-> "online", offline |-> 0, wans |-> {"up"},
     probes |-> [p \in Probes |-> "ok"], hidden |-> {}, showIDs |-> TRUE]

\* The values a part of the world may take.
Values(part) ==
    CASE part = "unraid" -> {"unconfigured", "unreachable", "gui", "answers"}
      [] part = "fault" -> {"none", "stopped", "disk", "nearly_full", "full", "alerts", "warnings", "memory"}
      [] part = "silent" -> SUBSET {"memory", "notifications"}     \* detail queries that fail
      [] part = "docker" -> {"fails", "answers"}
      [] part = "ssh" -> {"off", "fails", "answers"}
      [] part = "unlisted" -> SUBSET Apps           \* containers GraphQL omits
      [] part = "apps" -> [Apps -> Conditions]
      [] part = "ids" -> Identified                 \* containers are renamed
      [] part = "unifi" -> {"unconfigured", "fails", "nosite", "answers"}
      [] part = "gateway" -> {"none", "online", "offline"}
      [] part = "offline" -> 0..1                   \* other devices not online
      [] part = "wans" -> SUBSET Signals
      [] part = "probes" -> [Probes -> ProbeResults]
      [] part = "hidden" -> SUBSET Apps             \* from general users, by role, list or blacklist
      [] part = "showIDs" -> BOOLEAN

Init == world = Calm

Troubles(w) ==
    LET calm == Calm IN
    Cardinality({part \in DOMAIN w \ {"apps", "probes"} : w[part] # calm[part]})
    + Cardinality({a \in Apps : w.apps[a] # Fine})
    + Cardinality({p \in Probes : w.probes[p] # "ok"})

\* One container, name or probe changes at a time.
Nearby(part) ==
    CASE part = "apps" -> {[world.apps EXCEPT ![a] = c] : a \in Apps, c \in Conditions}
      [] part = "ids" -> {[world.ids EXCEPT ![a] = b] : a \in Apps, b \in Apps}
      [] part = "probes" ->
            {[world.probes EXCEPT ![p] = result] : p \in Probes, result \in ProbeResults}
      [] OTHER -> Values(part)

Change(part) ==
    /\ Troubles(world) < MaxTroubles \/ world[part] # Calm[part]
    /\ \E value \in Nearby(part) :
        /\ value # world[part]
        /\ world' = [world EXCEPT ![part] = value]
        /\ Troubles(world') <= MaxTroubles

Next == \E part \in DOMAIN Calm : Change(part)

Spec == Init /\ [][Next]_vars

-----------------------------------------------------------------------------
(* The collectors.                                                         *)

\* notificationDetails and memoryDetails: a detail query that fails leaves zeroes,
\* and its error is dropped.
NotificationDetails(w) ==
    IF "notifications" \notin w.silent /\ w.fault \in {"alerts", "warnings"} THEN w.fault ELSE "none"
MemoryDetails(w) == "memory" \notin w.silent /\ w.fault = "memory"

\* apiFailureStatus, or an error for which collectorFailureStatus stands in:
\* without the API only the server's web page may tell that it is there.
APIFailureStatus(w) ==
    [api |-> FALSE, nas |-> w.unraid = "gui", arrayStopped |-> FALSE, arrayHealthy |-> FALSE,
     notices |-> "none", memory |-> FALSE]

\* Unraid's LiveClient.Status.
Unraid(w) ==
    IF w.unraid # "answers" THEN APIFailureStatus(w)
    ELSE [api |-> TRUE, nas |-> TRUE, arrayStopped |-> w.fault = "stopped",
          arrayHealthy |-> w.fault \notin {"stopped", "disk", "full"},
          notices |-> NotificationDetails(w), memory |-> MemoryDetails(w)]

\* UnraidLiveClient.Apps, the legacy query included, and SSHClient.Apps; None
\* stands for an error.
APIApps(w) == IF w.unraid = "answers" /\ w.docker = "answers" THEN Apps \ w.unlisted ELSE None
SSHApps(w) == IF w.ssh = "answers" THEN Apps ELSE None

\* LargestListClient.Apps.
Listed(w) ==
    IF APIApps(w) = None THEN SSHApps(w)
    ELSE IF SSHApps(w) # None /\ Cardinality(SSHApps(w)) > Cardinality(APIApps(w)) THEN SSHApps(w)
    ELSE APIApps(w)

\* applyWANStatus, over what the gateway's state made of it.
WANUp(w) ==
    CASE "up" \in w.wans -> w.gateway # "offline"
      [] "up" \notin w.wans /\ "down" \in w.wans -> FALSE
      [] w.wans = {"disabled"} -> FALSE
      [] OTHER -> w.gateway # "offline"

\* What UniFi's LiveClient.Status returns; without a site it stops early.
UniFi(w) ==
    CASE w.unifi = "answers" ->
            [data |-> TRUE, wanUp |-> WANUp(w), gateway |-> w.gateway # "offline",
             offline |-> w.offline + IF w.gateway = "offline" THEN 1 ELSE 0]
      [] w.unifi = "nosite" -> [data |-> TRUE, wanUp |-> TRUE, gateway |-> TRUE, offline |-> 0]
      [] w.unifi = "fails" -> [data |-> TRUE, wanUp |-> FALSE, gateway |-> FALSE, offline |-> 0]
      [] OTHER -> [data |-> FALSE, wanUp |-> FALSE, gateway |-> FALSE, offline |-> 0]

Measured(w, p) == w.probes[p] # "skipped"
Reached(w, p) == w.probes[p] \in {"ok", "slow"}

\* Mutation: a failing list is taken for a source that was never set up.
DockerDataIfListed(w) == Listed(w) # None

\* sourceHasData of what stands for Docker: the number of apps, or the error, which
\* says so when Unraid is not configured.
DockerData(w) == Listed(w) # None \/ w.unraid # "unconfigured"

\* collectSnapshot: Unraid, Docker, UniFi and the probes, each over the last.  Of
\* what the probes bring, their latencies are not taken over.
Infra(w) ==
    [unraidData |-> w.unraid # "unconfigured",
     unraid |-> Unraid(w),
     api |-> Unraid(w).api,
     nas |-> IF Measured(w, "nas") THEN Reached(w, "nas") ELSE Unraid(w).nas,
     dockerData |-> DockerData(w),
     docker |-> Listed(w) # None,
     unifi |-> UniFi(w),
     router |-> IF Measured(w, "router") THEN Reached(w, "router") ELSE UniFi(w).gateway,
     latencies |-> {}]

\* appsFromContainers, then normalizeApps.
AppStatus(condition) ==
    CASE condition.state = "exited" -> "offline"
      [] condition.state # "exited" /\ condition.health = "unhealthy" -> "degraded"
      [] condition.state = "running" /\ condition.health = "none" -> "online"
      [] OTHER -> "unknown"

ListedApps(w) == IF Listed(w) = None THEN {} ELSE Listed(w)
Status(w, a) == AppStatus(w.apps[a])

-----------------------------------------------------------------------------
(* RuleEngine.Evaluate.                                                    *)

\* about are the containers its summary names, affected its AffectedServices.
Fact(id, severity, visible) ==
    [id |-> id, severity |-> severity, visible |-> visible, about |-> {}, affected |-> {}]
When(condition, fact) == IF condition THEN <<fact>> ELSE <<>>

NetworkFacts(w) == LET i == Infra(w) IN
    When(Measured(w, "router") /\ ~i.router, Fact("router_unreachable", "high", TRUE))
    \o When(/\ Measured(w, "internet") /\ ~Reached(w, "internet")
            /\ Measured(w, "router") => i.router, Fact("internet_down", "high", TRUE))
    \o When(Measured(w, "dns") /\ ~Reached(w, "dns"), Fact("dns_failure", "medium", TRUE))
    \o When(i.unifi.data /\ ~i.unifi.wanUp, Fact("unifi_wan_down", "high", TRUE))
    \o When(i.unifi.data /\ i.unifi.offline > 0, Fact("unifi_devices_offline", "medium", TRUE))

ServerFacts(w) == LET i == Infra(w) IN
    When(~i.api, Fact("unraid_api_unavailable", "medium", FALSE))
    \o When(i.api /\ i.unraid.arrayStopped, Fact("array_stopped", "high", TRUE))
    \o When(i.api /\ ~i.unraid.arrayHealthy, Fact("array_degraded", "high", TRUE))
    \o When(i.api /\ i.unraid.notices = "alerts", Fact("unraid_notifications", "high", FALSE))
    \o When(i.api /\ i.unraid.notices = "warnings", Fact("unraid_notifications", "medium", FALSE))
    \o When(i.dockerData /\ i.api /\ ~i.docker, Fact("docker_service_down", "high", TRUE))
    \o When(i.api /\ w.fault \in {"disk", "full"}, Fact("storage_warning", "high", FALSE))
    \o When(i.api /\ w.fault = "nearly_full", Fact("array_capacity_high", "medium", FALSE))
    \o When(i.api /\ w.fault = "full", Fact("array_capacity_high", "high", FALSE))
    \o When(i.api /\ i.unraid.memory, Fact("memory_pressure", "medium", FALSE))

LinkFacts(w) == SetToSeq({Fact("probe_slow", "medium", TRUE) : p \in Infra(w).latencies})

\* A NAS that cannot be reached ends the list: what it hides is not reported.
InfrastructureFacts(w) ==
    NetworkFacts(w)
    \o (IF Infra(w).unraidData /\ ~Infra(w).nas THEN <<Fact("nas_unreachable", "high", TRUE)>>
        ELSE LinkFacts(w) \o (IF Infra(w).unraidData THEN ServerFacts(w) ELSE <<>>))

\* Docker's collectors set VisibleToGeneralUsers to TRUE for every container.
AppFact(w, a) ==
    [id |-> Status(w, a), about |-> {a}, affected |-> {w.ids[a]}, visible |-> TRUE,
     severity |-> CASE w.apps[a].looping -> "high"
                    [] ~w.apps[a].looping /\ Status(w, a) = "degraded" -> "low"
                    [] OTHER -> "medium"]

AppFacts(w) ==
    IF Infra(w).dockerData /\ Infra(w).nas /\ Infra(w).docker
    THEN SetToSeq({AppFact(w, a) : a \in {b \in ListedApps(w) : Status(w, b) # "online"}})
    ELSE <<>>

Facts(w) == InfrastructureFacts(w) \o AppFacts(w)

Some(facts, severities) == \E f \in facts : f.severity \in severities

OverallStatus(w) ==
    LET is(status) == \E a \in ListedApps(w) : Status(w, a) = status
        facts == ToSet(Facts(w))
    IN  CASE Some(facts, {"high"}) \/ is("offline") -> "offline"
          [] ~(Some(facts, {"high"}) \/ is("offline"))
                /\ (Some(facts, {"medium", "low"}) \/ is("degraded") \/ is("unknown")) -> "degraded"
          [] OTHER -> "online"

-----------------------------------------------------------------------------
(* FilterSnapshotForRole, for a role that is not the admin.                *)

UserApps(w) == ListedApps(w) \ w.hidden

\* Mutation: only the facts are filtered by app.
AlwaysShown(w, fact) == TRUE

\* isFactVisible and isIncidentVisible.  An app whose name equals an AppID has that
\* AppID too, so the names they also compare decide nothing more.
Shown(w, fact) == fact.affected = {} \/ \E a \in UserApps(w) : w.ids[a] \in fact.affected

UserFacts(w) == {f \in ToSet(Facts(w)) : f.visible /\ Shown(w, f)}

\* incidentsFromFacts numbers them before they are filtered.
Incident(w, fact, n) ==
    [kind |-> fact.id, about |-> fact.about, number |-> IF w.showIDs THEN n ELSE 0]
UserIncidents(w) == LET facts == Facts(w) IN
    {Incident(w, facts[n], n) : n \in {m \in DOMAIN facts : Shown(w, facts[m])}}

\* The loop of applyVisibleRollup over the apps keeps what is worse.
Worse(status, appStatus) ==
    CASE appStatus = "offline" -> "offline"
      [] appStatus = "degraded" -> IF status # "offline" THEN "degraded" ELSE status
      [] appStatus = "unknown" -> IF status = "online" THEN "unknown" ELSE status
      [] OTHER -> status

Rolled(first, statuses) ==
    LET rolled[n \in 0..Len(statuses)] ==
            IF n = 0 THEN first ELSE Worse(rolled[n - 1], statuses[n])
    IN  rolled[Len(statuses)]

FactStatus(facts) ==
    CASE Some(facts, {"high"}) -> "offline"
      [] ~Some(facts, {"high"}) /\ facts # {} -> "degraded"
      [] OTHER -> "online"

UserRollup(w) ==
    LET order == SetToSeq(UserApps(w))
    IN  Rolled(FactStatus(UserFacts(w)), [n \in 1..Cardinality(UserApps(w)) |-> Status(w, order[n])])

\* What a user is shown, but for the numbers of the incidents.
UserView(w) ==
    [apps |-> [a \in UserApps(w) |-> w.apps[a]],
     facts |-> UserFacts(w),
     incidents |-> {<<i.kind, i.about>> : i \in UserIncidents(w)},
     rollup |-> UserRollup(w)]

-----------------------------------------------------------------------------

TypeOK == \A part \in DOMAIN Calm : world[part] \in Values(part)

\* Hidden from the user, and of an AppID that none of the user's apps has: facts
\* are matched by it, so an app that shares one with them is not hidden.
Unseen(w, a) == a \in w.hidden /\ \A b \in UserApps(w) : w.ids[b] # w.ids[a]

\* When only apps change that are hidden from the user and share no AppID with an
\* app the user sees, nothing of what the user is shown changes: not the lists,
\* not an incident, not the rollup (FilterSnapshotForRole).  The numbers of the
\* incidents, where the role shows them, do shift.
HiddenAppsSilent ==
    [][(/\ world'.apps # world.apps /\ world' = [world EXCEPT !.apps = world'.apps]
        /\ \A a \in Apps : world'.apps[a] # world.apps[a] => Unseen(world, a))
       => UserView(world') = UserView(world)]_vars

\* With Unraid configured, an app list that cannot be had is never reported as
\* all online, whatever else answers: one of the rules has to speak
\* (infrastructureFacts, collectSnapshot).
BlindnessShows ==
    (world.unraid # "unconfigured" /\ Listed(world) = None) => OverallStatus(world) # "online"

\* The rollup a user sees is the worst of the visible facts and the visible apps,
\* in whatever order they come (applyVisibleRollup).
RollupIsWorst ==
    LET apps   == {Status(world, a) : a \in UserApps(world)}
        facts  == UserFacts(world)
        rollup == UserRollup(world)
    IN  /\ rollup = "online" <=> (facts = {} /\ apps \subseteq {"online"})
        /\ "offline" \in apps => rollup = "offline"
        /\ "degraded" \in apps => rollup \in {"degraded", "offline"}
        /\ Some(facts, {"high"}) => rollup = "offline"

\* While UniFi answers, a WAN outage is only reported with evidence: the gateway
\* is offline, or no line is up and one is down or all are disabled
\* (applyWANStatus).
WANOutageBacked ==
    (world.unifi = "answers" /\ ~UniFi(world).wanUp) =>
        \/ world.gateway = "offline"
        \/ "up" \notin world.wans /\ ("down" \in world.wans \/ world.wans = {"disabled"})

\* docs/capability-review.md:157 - a link that is slow against its own past is
\* detected (annotateProbeBaselines and the probe_slow rule).
SlowLinkReported ==
    world.probes["internet"] = "slow" => \E n \in DOMAIN Facts(world) : Facts(world)[n].id = "probe_slow"

\* internal/diagnostics/rules_test.go:118 - facts such as unread Unraid
\* notifications are for admins only; a user is not shown them as incidents.
AdminOnlyStaysAdmin ==
    \A n \in DOMAIN Facts(world) :
        ~Facts(world)[n].visible => \A i \in UserIncidents(world) : i.kind # Facts(world)[n].id

\* What is reported has its reason in the world: no all-clear by blindness, no
\* outage without evidence, no rollup other than what is shown.
ReportsBacked == BlindnessShows /\ WANOutageBacked /\ RollupIsWorst
=============================================================================
