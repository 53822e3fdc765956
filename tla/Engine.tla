-------------------------------- MODULE Engine --------------------------------
(***************************************************************************)
(* The engine, src/src/wtop/engine.lua, with the snapshot it publishes     *)
(* (src/src/wtop/model/snapshot.lua) and its histories, over the scheduler *)
(* and the proxies.                                                        *)
(*                                                                         *)
(* A slot is a collector's resource and its quality record; a value is     *)
(* represented by the time it was measured.  A history point has a value   *)
(* or is a gap (NoTime).  Collectors not in Proxied measure inside the     *)
(* sample call.  Engine.new registers every collector, and the interactive *)
(* program never removes or disables one; it probes before the first tick. *)
(*                                                                         *)
(* Left out: payloads, reasons, the sequence number, the capability table  *)
(* and a collector with several histories, which all get the same points.  *)
(***************************************************************************)
EXTENDS HardwareProxy, Sequences

CONSTANTS
    Floor,          \* id -> foreground floor in milliseconds
    Target,         \* id -> background cadence in milliseconds, or Nil
    StartInterval,  \* interval the engine starts with
    Detail,         \* collectors with a detail scan (gpu, network)
    HistoryCapacity \* points a history keeps

ASSUME EngineAssumption ==
    /\ Floor \in [Collectors -> 0..MaxInterval]
    /\ Target \in [Collectors -> 0..MaxInterval]
    /\ StartInterval \in 1..MaxInterval
    /\ Detail \subseteq Collectors
    /\ HistoryCapacity \in Nat \ {0}

VARIABLES
    slots,      \* id -> the published resource and its quality record
    snapTime,   \* timestamp_ns of the published snapshot
    history,    \* id -> its points, oldest first
    pendingIds, \* pending_collectors
    completed,  \* id -> result, for the ids the present tick has sampled
    paused,
    scanning    \* collectors whose detail scan is on

engine == <<slots, snapTime, history, pendingIds, completed, paused, scanning>>
all    == <<vars, proxy, engine>>

EmptySlot == [status |-> "none", quality |-> "none", value |-> NoTime,
              valueTime |-> NoTime, attempt |-> NoTime]

NothingCompleted == [id \in {} |-> FailedResult]

-----------------------------------------------------------------------------
(* Pure helpers.                                                            *)

Foreground(id, ms) == MaxOf(ms, Floor[id])
Background(id, ms) == IF Target[id] = Nil THEN Nil ELSE MaxOf(Foreground(id, ms), Target[id])

Installs(r) == r.status = "ok" /\ r.data # NoTime

\* What a retained value is labelled: never as current.
RetainedQuality(r) ==
    IF r.status \in {"denied", "unavailable"} THEN r.status
    ELSE IF r.quality = "gap" THEN "gap" ELSE "stale"

\* A claimed measurement time later than the attempt is not believed.
ObservedTime(r) == IF r.valueTime # NoTime /\ r.valueTime <= r.attempt THEN r.valueTime ELSE r.attempt

\* Mutant: every attempt moves the time of the value.
MergedTouching(slot, r, now) ==
    [status |-> r.status,
     quality |-> IF Installs(r) THEN r.quality ELSE RetainedQuality(r),
     value |-> IF Installs(r) THEN r.data ELSE slot.value,
     valueTime |-> MinOf(ObservedTime(r), now),
     attempt |-> r.attempt]

\* Snapshot.merge for one result, in a snapshot taken at `now'.
Merged(slot, r, now) ==
    [status |-> r.status,
     quality |-> IF Installs(r) THEN r.quality ELSE RetainedQuality(r),
     value |-> IF Installs(r) THEN r.data ELSE slot.value,
     valueTime |-> IF Installs(r) THEN MinOf(ObservedTime(r), now)
                   ELSE IF slot.valueTime <= now THEN slot.valueTime ELSE NoTime,
     attempt |-> r.attempt]

\* Mutant: a failed read plots the retained value.
PointRetained(slot, r, now) ==
    [value |-> slot.value,
     time  |-> MinOf(IF r.valueTime # NoTime THEN r.valueTime ELSE r.attempt, now)]

\* The point _record_history appends: the published value, or a gap.
Point(slot, r, now) ==
    [value |-> IF r.status = "ok" THEN slot.value ELSE NoTime,
     time  |-> MinOf(IF r.valueTime # NoTime THEN r.valueTime ELSE r.attempt, now)]

\* Ring:push.
Pushed(points, point) ==
    IF Len(points) < HistoryCapacity THEN Append(points, point)
    ELSE Append(Tail(points), point)

-----------------------------------------------------------------------------
EngineInit ==
    /\ tasks = [id \in Collectors |->
                  [interval_ms |-> Foreground(id, StartInterval),
                   background_interval_ms |-> Background(id, StartInterval),
                   enabled |-> TRUE, visible |-> TRUE, next_due_ns |-> 0,
                   failures |-> 0, probe_pending |-> FALSE, last_result |-> NoResult]]
    /\ stopped = FALSE /\ closed = {} /\ clock = 0
    /\ phase = "idle" /\ roundNow = 0 /\ toVisit = {}
    /\ ProxyInit
    /\ slots = [id \in Collectors |-> EmptySlot]
    /\ snapTime = 0
    /\ history = [id \in Collectors |-> <<>>]
    /\ pendingIds = {}
    /\ completed = NothingCompleted
    /\ paused = FALSE
    /\ scanning = {}

(* Methods called between ticks.                                            *)

SetPaused(p) ==
    /\ Idle /\ ~stopped
    /\ paused' = p
    /\ UNCHANGED <<vars, proxy, slots, snapTime, history, pendingIds, completed, scanning>>

\* set_interval: both cadences of every collector.
ChangeInterval(ms) ==
    /\ Idle /\ ~stopped /\ ValidInterval(ms)
    /\ tasks' = [id \in DOMAIN tasks |->
                   WithBackgroundInterval(WithInterval(tasks[id], Foreground(id, ms)),
                                          Background(id, ms))]
    /\ UNCHANGED <<stopped, closed, clock, round, proxy, engine>>

\* set_active_tab: visibility of every collector; a detail scan that becomes
\* enabled makes its collector due.
ActivateTab(visible, scans) ==
    /\ Idle /\ ~stopped
    /\ tasks' = [id \in DOMAIN tasks |->
                   LET shown == WithVisible(tasks[id], id \in visible)
                   IN  IF id \in scans \ scanning
                       THEN [shown EXCEPT !.next_due_ns = clock] ELSE shown]
    /\ scanning' = scans
    /\ UNCHANGED <<stopped, closed, clock, round, proxy, slots, snapTime, history,
                   pendingIds, completed, paused>>

\* stop: the scheduler closes every collector, which ends its session.
EngineStop ==
    /\ Stop
    /\ ProxyClose
    /\ pendingIds' = {}
    /\ UNCHANGED <<slots, snapTime, history, completed, paused, scanning>>

-----------------------------------------------------------------------------
(* probe.                                                                   *)

EngineProbeStart ==
    /\ ~stopped /\ \A id \in DOMAIN tasks : tasks[id].last_result = NoResult
    /\ ProbeStart
    /\ UNCHANGED <<proxy, engine>>

ProbeLocal(id) ==
    /\ id \notin Proxied
    /\ ProbeVisit(id, FALSE, Nil)
    /\ UNCHANGED <<proxy, engine>>

ProbeProxied(id) ==
    /\ id \in Proxied
    /\ \E pending \in BOOLEAN : ProbeVisit(id, pending, PollMs) /\ ProxyProbe(id, pending)
    /\ UNCHANGED engine

(* tick.                                                                    *)

\* The ids a forced tick makes due: all, the visible ones, or none.
ForcedIds(force) ==
    CASE force = "all"     -> DOMAIN tasks
      [] force = "visible" -> {id \in DOMAIN tasks : tasks[id].visible}
      [] force = "none"    -> {}

\* A paused engine ticks only by force.
EngineTick(force) ==
    /\ Idle /\ ~stopped
    /\ ~(paused /\ force = "none")
    /\ tasks' = [id \in DOMAIN tasks |->
                   IF id \in ForcedIds(force) THEN [tasks[id] EXCEPT !.next_due_ns = 0]
                   ELSE tasks[id]]
    /\ phase' = "tick" /\ roundNow' = clock /\ toVisit' = DOMAIN tasks
    /\ UNCHANGED <<stopped, closed, clock, proxy, engine>>

\* The result the scheduler stores and hands on, after normalize_result.
Completed(r) ==
    LET n == NormalizeResult(r)
    IN  [r EXCEPT !.status = n.status, !.quality = n.quality]

Complete(id, r) ==
    completed' = [k \in DOMAIN completed \cup {id} |-> IF k = id THEN Completed(r) ELSE completed[k]]

\* A collector that measures inside the call: any verdict, now.
SampleLocal(id) ==
    /\ id \notin Proxied
    /\ \E status \in RawStatuses, quality \in RawQualities :
          LET r == Result(status, quality, FALSE, Nil,
                          IF status = "ok" THEN clock ELSE NoTime, NoTime, clock, FALSE)
          IN  TickSample(id, r) /\ Complete(id, r)
    /\ UNCHANGED <<proxy, slots, snapTime, history, pendingIds, paused, scanning>>

\* What a poll of the proxy may answer now.
ProxyResults(id) ==
    {ReplyResult(reply) : reply \in {ready[id]} \cup {Reply(id, status) : status \in ReplyStatuses}}
    \cup {FailedResult, PendingResult(Since(id))}

SampleProxied(id) ==
    /\ id \in Proxied
    /\ \E r \in ProxyResults(id) :
          ProxySample(id, r) /\ TickSample(id, r) /\ Complete(id, r)
    /\ UNCHANGED <<slots, snapTime, history, pendingIds, paused, scanning>>

SkipVisit(id) == TickSkip(id) /\ UNCHANGED <<proxy, engine>>

\* Mutant: a tick forgets the pending reads of collectors it did not sample.
PendingAfterReplacing == {id \in DOMAIN completed : completed[id].sampling_pending}

\* Every result updates the pending set, the deferred ones too.
PendingAfter ==
    (pendingIds \ DOMAIN completed) \cup {id \in DOMAIN completed : completed[id].sampling_pending}

\* The end of a tick: deferred results are dropped; if any is left, a new
\* snapshot is published and each result appends to its history.
EndTick ==
    /\ phase = "tick"
    /\ RoundEnd
    /\ LET published == {id \in DOMAIN completed : ~completed[id].defer}
           merged    == [id \in Collectors |->
                           IF id \in published THEN Merged(slots[id], completed[id], clock)
                           ELSE slots[id]]
       IN  /\ slots' = merged
           /\ snapTime' = IF published = {} THEN snapTime ELSE clock
           /\ history' = [id \in Collectors |->
                            IF id \in published
                            THEN Pushed(history[id], Point(merged[id], completed[id], clock))
                            ELSE history[id]]
    /\ pendingIds' = PendingAfter
    /\ completed' = NothingCompleted
    /\ UNCHANGED <<proxy, paused, scanning>>

EndProbe ==
    /\ phase = "probe"
    /\ RoundEnd
    /\ UNCHANGED <<proxy, engine>>

Environment ==
    \/ \E id \in Proxied : ~stopped /\ ReaderStep(id) /\ UNCHANGED <<vars, engine>>
    \/ Advance /\ UNCHANGED <<proxy, engine>>

EngineNext ==
    \/ \E p \in BOOLEAN : SetPaused(p)
    \/ \E ms \in Intervals : ChangeInterval(ms)
    \/ \E visible \in SUBSET Collectors, scans \in SUBSET Detail : ActivateTab(visible, scans)
    \/ EngineStop
    \/ EngineProbeStart
    \/ \E id \in Collectors : ProbeLocal(id) \/ ProbeProxied(id)
    \/ \E force \in {"all", "visible", "none"} : EngineTick(force)
    \/ \E id \in Collectors : SampleLocal(id) \/ SampleProxied(id) \/ SkipVisit(id)
    \/ EndTick
    \/ EndProbe
    \/ Environment

EngineSpec == EngineInit /\ [][EngineNext]_all

-----------------------------------------------------------------------------
(* Properties.                                                              *)

\* Provenance: whatever sequence of replies, failures, deferrals and pauses a
\* slot goes through, its value_timestamp_ns is when the value it shows was
\* measured, it has one exactly when it has a value, and it lies before the
\* last attempt and the snapshot that show it.
Provenance ==
    \A id \in Collectors :
        LET slot == slots[id] IN
        /\ slot.valueTime = slot.value
        /\ slot.valueTime <= slot.attempt /\ slot.attempt <= snapTime

\* Freshness ends: a slot is labelled current only if the collector's last
\* result is a success, or while a read is under way whose silence is still
\* within the deferral, so that the poll that will mark the value stale is at
\* most one poll interval behind the end of the deferral (or overdue).
FreshnessBounded ==
    phase = "idle" =>
        \A id \in DOMAIN tasks :
            slots[id].quality \in CURRENT_QUALITY =>
                \/ tasks[id].last_result.status = "ok"
                \/ /\ id \in Proxied
                   /\ pendingSince[id] # NoTime
                   /\ tasks[id].next_due_ns
                        <= MaxOf(clock, pendingSince[id] + DeferNs + PollMs * NsPerMs)

\* has_pending_samples is exact between ticks: the one-shot commands poll
\* until it is false, so an id missing from it would lose a result that is on
\* its way, and an id left in it would make them wait for nothing.
PendingExact ==
    phase = "idle" /\ ~stopped =>
        pendingIds = {id \in DOMAIN tasks : tasks[id].last_result.sampling_pending}

\* A number in a history stands at the time it was measured, never at the
\* time of a later attempt; a read that brought no measurement leaves a gap.
HistoryHonest ==
    \A id \in Collectors : \A i \in DOMAIN history[id] :
        history[id][i].value # NoTime => history[id][i].time = history[id][i].value

\* The numbers of a history stand in the order they were measured, however
\* probes, deferrals, timeouts and late answers are interleaved with ticks; so
\* where a history does go back in time (HistoryMonotone), only a gap does.
NumbersInOrder ==
    \A id \in Collectors : \A i, j \in DOMAIN history[id] :
        i < j /\ history[id][i].value # NoTime /\ history[id][j].value # NoTime
            => history[id][i].time <= history[id][j].time

\* docs/ARCHITECTURE.md line 456: a history holds bounded points whose time
\* stamps increase monotonically (here: never decrease).
HistoryMonotone ==
    \A id \in Collectors : \A i, j \in DOMAIN history[id] :
        i < j => history[id][i].time <= history[id][j].time

-----------------------------------------------------------------------------
(* The proxies use the reader client through ReaderSession.                 *)

SessionPhase ==
    [idle |-> "idle", reading |-> "asked", sent |-> "asked", answered |-> "answered",
     failed |-> "failed"]

Session == INSTANCE ReaderSession WITH
    open    <- IF stopped THEN {} ELSE Proxied,
    request <- [id \in Proxied |-> SessionPhase[request[id]]]

\* No order of probes, ticks, deferrals, timeouts and a stop makes a proxy ask
\* again while its read is under way, take what was not answered, or use a
\* session the engine has closed.
KeepsSession == Session!Spec

=============================================================================
