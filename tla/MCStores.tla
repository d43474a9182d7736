------------------------------ MODULE MCStores ------------------------------
(* What the server writes down: the status history, the files of lines and   *)
(* the file of records below it, the latency rows with the window they seed, *)
(* and the subscriptions with what they were sent.  A behaviour chooses one  *)
(* part; the others stay as they begin.                                      *)
EXTENDS StatusHistory, TLC

CONSTANTS
    Garbage, MaxRecords, MaxWriteFails, MaxStops,               \* LineStore
    SessionTokens, NoteCap, MaxWrites,                          \* RecordStore
    Polls, BucketWindow, WindowSamples, MaxTicks, MaxReadings, MaxFaults,   \* LatencyTracker
    Subscriptions, Refreshes, RateLimitWindow,                  \* Notifications
    MaxMinute, MaxNotices, MaxEdits, MaxLost

VARIABLES
    part,
    store, up, mem, file, tail, op, appended, fails, crashes, tears, may,
    recordsUp, state, disk, busy, writes, recordFails, recordCrashes, recordMay,
    time, window, bucket, rows, poll, readings, recent, lost, faults,
    minute, appStatus, nas, prefs, walk, notices, edits, noticesLost

Lines == INSTANCE LineStore WITH
    used <- appended, Stores <- {"history", "metrics"},
    MaxFails <- MaxWriteFails, MaxCrashes <- MaxStops

Records == INSTANCE RecordStore WITH
    up <- recordsUp, fails <- recordFails, crashes <- recordCrashes, may <- recordMay,
    MaxFails <- MaxWriteFails, MaxCrashes <- MaxStops, Missing <- None

Tracker == INSTANCE LatencyTracker WITH MaxTime <- MaxTicks

Notices == INSTANCE Notifications WITH world <- appStatus, lost <- noticesLost

ASSUME PartsAssumption ==
    /\ Lines!LineStoreAssumption /\ Records!RecordStoreAssumption /\ Tracker!TrackerAssumption
    /\ Notices!NotificationsAssumption

lineVars == <<store, up, mem, file, tail, op, appended, fails, crashes, tears, may>>
recordVars == <<recordsUp, state, disk, busy, writes, recordFails, recordCrashes, recordMay>>
trackerVars == <<time, window, bucket, rows, poll, readings, recent, lost, faults>>
noticeVars == <<minute, appStatus, nas, prefs, walk, notices, edits, noticesLost>>

MCInit ==
    /\ part \in {"history", "lines", "records", "tracker", "notices", "troubled"}
    /\ Init
    /\ Lines!Init /\ (part # "lines" => store = "history")
    /\ Records!Init /\ Tracker!Init /\ Notices!Init

HistoryStep ==
    /\ part = "history" /\ Next
    /\ UNCHANGED <<part, lineVars, recordVars, trackerVars, noticeVars>>
LinesStep ==
    /\ part = "lines" /\ Lines!Next
    /\ UNCHANGED <<part, vars, recordVars, trackerVars, noticeVars>>
RecordsStep ==
    /\ part = "records" /\ Records!Next
    /\ UNCHANGED <<part, vars, lineVars, trackerVars, noticeVars>>
TrackerStep ==
    /\ part = "tracker" /\ Tracker!Next
    /\ UNCHANGED <<part, vars, lineVars, recordVars, noticeVars>>
\* Notices on a moving clock and through outages; and on a clock that stands still,
\* with edits of the subscription and failed sends or crashes.
NoticesStep ==
    /\ \/ part = "notices" /\ UNCHANGED <<edits, noticesLost>>
       \/ part = "troubled" /\ UNCHANGED <<minute, nas>>
    /\ Notices!Next
    /\ UNCHANGED <<part, vars, lineVars, recordVars, trackerVars>>

MCNext == HistoryStep \/ LinesStep \/ RecordsStep \/ TrackerStep \/ NoticesStep
MCVars == <<part, vars, lineVars, recordVars, trackerVars, noticeVars>>
MCSpec == MCInit /\ [][MCNext]_MCVars

\* With Refreshers, Polls and Refreshes one set.
Symmetry == Permutations(Refreshes)

-----------------------------------------------------------------------------
(* The properties of the parts, as their modules state them.                 *)

\* Each line torn by a crash or a failed write costs the metrics one record more.
OneLostPerTear == Lines!OneLostPerTear
\* The history file keeps what was acknowledged, or does not open at all.
HistoryDurable == Lines!HistoryDurable
\* The record file keeps what was acknowledged through crashes and failed writes.
StoreDurable == Records!StoreDurable
\* Each latency reading is counted once, and the window holds the newest samples.
ReadingsKept == part = "tracker" => Tracker!ReadingsKept
\* A notice is repeated within its window no more often than overlapping refreshes
\* can make it, and one of recovery follows one of trouble.
NoticesHold == Notices!NoticesHold
=============================================================================
