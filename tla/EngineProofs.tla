----------------------------- MODULE EngineProofs -----------------------------
(***************************************************************************)
(* Theorems about Engine, for every set of collectors, whichever of them   *)
(* are read through a proxy, every vocabulary of results, every cadence    *)
(* and every bound.                                                        *)
(***************************************************************************)
EXTENDS Engine, SchedulerProofs, SequenceTheorems

-----------------------------------------------------------------------------
(* The inductive invariant.                                                 *)

Times == Nat \cup {NoTime}

\* Every collector is registered, with a task of the right type; the engine
\* does not stop in the middle of a round, and probes before it samples.
Tasks ==
    /\ TypeOK /\ DOMAIN tasks = Collectors
    /\ stopped => phase = "idle"
    /\ phase = "probe" => \A id \in Collectors : tasks[id].last_result = NoResult

\* The reading on its way was measured before now.
Measured(id) ==
    /\ request[id] \in {"sent", "answered"} => observed[id] # NoTime
    /\ observed[id] \in Times /\ observed[id] <= clock
    /\ pendingSince[id] \in Times /\ pendingSince[id] <= clock

\* A reply that waits for its sample was received before the first sample.
Waiting(id) ==
    ready[id] # NoReply =>
        /\ ready[id].status \in ReplyStatuses
        /\ ready[id].received \in Nat /\ ready[id].received <= clock
        /\ ready[id].observed \in Nat /\ ready[id].observed <= ready[id].received
        /\ tasks[id].last_result = NoResult

Reading(id) == Measured(id) /\ Waiting(id)

Readings ==
    /\ request \in [Proxied -> {"idle", "reading", "sent", "answered", "failed"}]
    /\ observed \in [Proxied -> Times] /\ pendingSince \in [Proxied -> Times]
    /\ DOMAIN asked = Proxied /\ DOMAIN ready = Proxied
    /\ \A id \in Proxied : Reading(id)

SlotRecord == [status : VALID_STATUS \cup {"none"}, quality : VALID_QUALITY \cup {"none"},
               value : Times, valueTime : Times, attempt : Times]

\* A slot shows a value with the time it was measured; before the collector's
\* first result it is empty.
SlotOK(id) ==
    /\ slots[id].valueTime = slots[id].value
    /\ slots[id].valueTime <= slots[id].attempt
    /\ slots[id].attempt <= snapTime
    /\ tasks[id].last_result = NoResult => slots[id] = EmptySlot

Slots ==
    /\ slots \in [Collectors -> SlotRecord]
    /\ snapTime \in 0..clock
    /\ \A id \in Collectors : SlotOK(id)

\* The value of a collector whose read is deferred: its last result left the
\* read pending, and the poll is due at most one poll interval after the
\* deferral ends.
Deferred(id) ==
    /\ id \in Proxied /\ tasks[id].last_result.sampling_pending
    /\ pendingSince[id] # NoTime
    /\ tasks[id].next_due_ns <= MaxOf(clock, pendingSince[id] + DeferNs + PollMs * NsPerMs)

ResultRecord == [status : VALID_STATUS, quality : VALID_QUALITY, sampling_pending : BOOLEAN,
                 retry : Nat, data : Times, valueTime : Times, attempt : Nat, defer : BOOLEAN]

\* A result of the present tick: what it measured and when, against what the
\* scheduler stored and what the slot shows.
ResultOK(id) ==
    LET c == completed[id] IN
    /\ c \in ResultRecord
    /\ tasks[id].last_result = [status |-> c.status, quality |-> c.quality,
                                sampling_pending |-> c.sampling_pending]
    /\ c.attempt <= clock /\ slots[id].valueTime <= c.attempt
    /\ c.status = "ok" =>
         /\ c.data # NoTime /\ c.data <= c.attempt
         /\ \/ c.valueTime = c.data
            \/ c.valueTime = NoTime /\ c.data = c.attempt
    /\ c.defer => Deferred(id)

Completion ==
    /\ DOMAIN completed \subseteq Collectors \ toVisit
    /\ phase # "tick" => DOMAIN completed = {}
    /\ \A id \in DOMAIN completed : ResultOK(id)

\* A slot that claims a current value is one whose collector's last result was
\* a success, or is deferred, or is about to be replaced.
Freshness ==
    \A id \in Collectors : slots[id].quality \in CURRENT_QUALITY =>
        \/ tasks[id].last_result.status = "ok"
        \/ Deferred(id)
        \/ id \in DOMAIN completed /\ ~completed[id].defer

\* pending_collectors, up to the results of the present tick.
PendingKnown ==
    /\ pendingIds \subseteq Collectors
    /\ ~stopped => \A id \in Collectors \ DOMAIN completed :
                       id \in pendingIds <=> tasks[id].last_result.sampling_pending

\* A point with a value stands at the time of the value.
HonestPoint == {p \in [value : Times, time : Nat] : p.value # NoTime => p.time = p.value}

\* Every history is a short sequence of such points.
Histories ==
    /\ history \in [Collectors -> Seq(HonestPoint)]
    /\ \A id \in Collectors : Len(history[id]) <= HistoryCapacity

EngineInv ==
    /\ Tasks /\ Readings /\ Slots /\ Completion /\ Freshness /\ PendingKnown /\ Histories

-----------------------------------------------------------------------------
(* Steps that complete no result and publish none.                          *)

\* A deferral lasts while its poll is not put off.
LEMMA DeferredKept ==
    ASSUME EngineInv, NEW id \in Collectors, KeptTask(tasks[id], tasks'[id]),
           clock' \in Nat, clock <= clock', pendingSince' = pendingSince, Deferred(id)
    PROVE  Deferred(id)'
<1>1. /\ id \in Proxied /\ pendingSince[id] # NoTime /\ pendingSince[id] \in Times
      /\ id \in DOMAIN tasks
  BY DEF Deferred, EngineInv, Readings, Tasks
<1>2. /\ tasks[id].next_due_ns \in Nat /\ clock \in Nat /\ tasks'[id].next_due_ns \in Nat
  BY <1>1, TaskTyped, SchedulerAssumption DEF EngineInv, Tasks, KeptTask, Task
<1>3. PICK poll \in Nat : poll = PollMs * NsPerMs
  BY SchedulerAssumption, ProxyAssumption, ScaleNat
<1>4. PICK end \in Nat : end = pendingSince[id] + DeferNs + PollMs * NsPerMs
  BY <1>1, <1>3, ProxyAssumption DEF Times
<1>5. /\ tasks[id].next_due_ns <= MaxOf(clock, end)
      /\ tasks'[id].next_due_ns <= MaxOf(tasks[id].next_due_ns, clock)
  BY <1>4 DEF Deferred, KeptTask, Pending
<1>6. tasks'[id].next_due_ns <= MaxOf(clock', end)
  BY <1>2, <1>5 DEF MaxOf
<1> QED BY <1>1, <1>4, <1>6 DEF Deferred, KeptTask

LEMMA Quiet ==
    ASSUME EngineInv, Tasks', Readings', PendingKnown',
           \A id \in Collectors : tasks'[id].last_result = tasks[id].last_result,
           \A id \in Collectors : Deferred(id) => Deferred(id)',
           UNCHANGED <<slots, snapTime, history, completed>>,
           clock' \in Nat, clock <= clock',
           DOMAIN completed = {} \/ (phase' = "tick" /\ toVisit' \subseteq toVisit)
    PROVE  EngineInv'
<1>1. Slots'
  <2>1. snapTime' \in 0..clock' /\ slots' \in [Collectors -> SlotRecord]
    BY DEF EngineInv, Slots, Tasks, TypeOK
  <2>2. ASSUME NEW id \in Collectors PROVE SlotOK(id)'
    BY <2>2 DEF EngineInv, Slots, SlotOK
  <2> QED BY <2>1, <2>2 DEF Slots
<1>2. Completion'
  <2>1. /\ DOMAIN completed' \subseteq Collectors \ toVisit'
        /\ phase' # "tick" => DOMAIN completed' = {}
    BY DEF EngineInv, Completion
  <2>2. ASSUME NEW id \in DOMAIN completed' PROVE ResultOK(id)'
    <3>1. id \in Collectors /\ ResultOK(id) /\ completed'[id] = completed[id]
      BY <2>2 DEF EngineInv, Completion
    <3>2. /\ completed[id] \in ResultRecord /\ completed[id].attempt \in Nat
          /\ completed[id].attempt <= clock /\ clock \in Nat
      BY <3>1, SchedulerAssumption DEF ResultOK, ResultRecord, EngineInv, Tasks, TypeOK
    <3>3. completed[id].attempt <= clock'
      BY <3>2
    <3> QED BY <3>1, <3>2, <3>3 DEF ResultOK
  <2> QED BY <2>1, <2>2 DEF Completion
<1>3. Freshness'
  BY DEF EngineInv, Freshness
<1>4. Histories'
  BY DEF EngineInv, Histories
<1> QED BY <1>1, <1>2, <1>3, <1>4 DEF EngineInv

\* The readers and the proxies are left alone while time passes or not.
LEMMA ReadingsKept ==
    ASSUME EngineInv, UNCHANGED proxy, clock' \in Nat, clock <= clock',
           \A id \in Collectors : tasks'[id].last_result = tasks[id].last_result
    PROVE  Readings'
<1>1. /\ UNCHANGED <<request, asked, observed, pendingSince, ready>>
      /\ clock \in Nat /\ Readings /\ Proxied \subseteq Collectors
  BY SchedulerAssumption, ProxyAssumption DEF proxy, EngineInv, Tasks, TypeOK
<1>2. ASSUME NEW id \in Proxied PROVE Reading(id)'
  <2>1. Reading(id) /\ observed[id] \in Times /\ pendingSince[id] \in Times
    BY <1>1 DEF Readings
  <2>2. observed[id] <= clock' /\ pendingSince[id] <= clock'
    BY <1>1, <2>1 DEF Reading, Measured, Times, NoTime
  <2>3. CASE ready[id] = NoReply
    BY <1>1, <2>1, <2>2, <2>3 DEF Reading, Measured, Waiting
  <2>4. CASE ready[id] # NoReply
    <3>1. ready[id].received \in Nat /\ ready[id].received <= clock
      BY <2>1, <2>4 DEF Reading, Measured, Waiting
    <3>2. ready[id].received <= clock'
      BY <1>1, <3>1
    <3> QED BY <1>1, <2>1, <2>2, <2>4, <3>2 DEF Reading, Measured, Waiting
  <2> QED BY <2>3, <2>4
<1> QED BY <1>1, <1>2 DEF Readings

\* A method that moves deadlines and flags of any number of tasks.
LEMMA MethodKeeps ==
    ASSUME EngineInv, UNCHANGED <<proxy, slots, snapTime, history, pendingIds, completed>>,
           UNCHANGED <<clock, stopped, closed>>, ~stopped,
           phase = "idle", DOMAIN tasks' = Collectors,
           tasks' = [id \in Collectors |-> tasks'[id]],
           \A id \in Collectors : KeptTask(tasks[id], tasks'[id]),
           \/ phase' = "idle" /\ roundNow' = roundNow /\ toVisit' = toVisit
           \/ phase' = "tick" /\ roundNow' = clock /\ toVisit' = Collectors
    PROVE  EngineInv'
<1>1. \A id \in Collectors : /\ tasks'[id].last_result = tasks[id].last_result
                             /\ tasks'[id] \in Task
  BY DEF KeptTask
<1>2. clock \in Nat /\ clock <= clock'
  BY SchedulerAssumption DEF EngineInv, Tasks, TypeOK
<1>3. Tasks'
  <2>1. TypeOK'
    <3>1. tasks' \in [Collectors -> Task]
      BY <1>1
    <3> QED BY <3>1, <1>2 DEF EngineInv, Tasks, TypeOK
  <2> QED BY <2>1 DEF EngineInv, Tasks
<1>4. Readings'
  BY <1>1, <1>2, ReadingsKept
<1>5. PendingKnown'
  BY <1>1 DEF EngineInv, PendingKnown
<1>6. \A id \in Collectors : Deferred(id) => Deferred(id)'
  BY <1>2, DeferredKept DEF proxy
<1>7. DOMAIN completed = {}
  BY DEF EngineInv, Completion
<1>8. UNCHANGED <<slots, snapTime, history, completed>> /\ clock' \in Nat
  BY <1>2
<1>9. \A id \in Collectors : tasks'[id].last_result = tasks[id].last_result
  BY <1>1
<1> QED BY <1>2, <1>3, <1>4, <1>5, <1>6, <1>7, <1>8, <1>9, Quiet

LEMMA SetPausedKeeps ==
    ASSUME EngineInv, NEW p \in BOOLEAN, SetPaused(p)
    PROVE  EngineInv'
<1>1. /\ UNCHANGED <<proxy, slots, snapTime, history, pendingIds, completed>>
      /\ UNCHANGED <<tasks, clock, stopped, closed, phase, roundNow, toVisit>>
      /\ ~stopped /\ phase = "idle"
  BY DEF SetPaused, vars, Idle
<1>2. tasks \in [Collectors -> Task] /\ clock \in Nat
  BY SchedulerAssumption DEF EngineInv, Tasks, TypeOK
<1>3. ASSUME NEW id \in Collectors PROVE KeptTask(tasks[id], tasks'[id])
  BY <1>1, <1>2, SchedulerAssumption DEF KeptTask, Task, MaxOf
<1>4. DOMAIN tasks' = Collectors /\ tasks' = [id \in Collectors |-> tasks'[id]]
  BY <1>1, <1>2
<1> QED BY <1>1, <1>3, <1>4, MethodKeeps

LEMMA ChangeIntervalKeeps ==
    ASSUME EngineInv, NEW ms \in Intervals, ChangeInterval(ms)
    PROVE  EngineInv'
<1> DEFINE New(id) == WithBackgroundInterval(WithInterval(tasks[id], Foreground(id, ms)),
                                             Background(id, ms))
<1>1. /\ UNCHANGED <<proxy, slots, snapTime, history, pendingIds, completed>>
      /\ UNCHANGED <<clock, stopped, closed, phase, roundNow, toVisit>>
      /\ ~stopped /\ phase = "idle" /\ ms \in 1..MaxInterval
      /\ tasks' = [id \in DOMAIN tasks |-> New(id)]
  BY DEF ChangeInterval, Idle, engine, round, ValidInterval
<1>2. tasks \in [Collectors -> Task] /\ TypeOK
  BY DEF EngineInv, Tasks, TypeOK
<1>3. ASSUME NEW id \in Collectors PROVE KeptTask(tasks[id], New(id))
  <2>1. Foreground(id, ms) \in 1..MaxInterval /\ Background(id, ms) \in 0..MaxInterval
    BY <1>1, EngineAssumption, SchedulerAssumption DEF Foreground, Background, MaxOf, Nil
  <2>2. PICK mid : mid = WithInterval(tasks[id], Foreground(id, ms))
    OBVIOUS
  <2>3. KeptTask(tasks[id], mid)
    BY <1>2, <2>1, <2>2, IntervalKept
  <2>4. KeptTask(mid, New(id))
    BY <1>2, <2>1, <2>2, <2>3, BackgroundKept DEF KeptTask
  <2> QED BY <1>2, <2>3, <2>4, KeptTwice
<1> HIDE DEF New
<1>4. /\ DOMAIN tasks' = Collectors /\ tasks' = [id \in Collectors |-> tasks'[id]]
      /\ \A id \in Collectors : tasks'[id] = New(id)
  BY <1>1, <1>2
<1> QED BY <1>1, <1>3, <1>4, MethodKeeps

LEMMA ActivateTabKeeps ==
    ASSUME EngineInv, NEW visible, NEW scans, ActivateTab(visible, scans)
    PROVE  EngineInv'
<1> DEFINE Shown(id) == WithVisible(tasks[id], id \in visible)
           New(id) == IF id \in scans \ scanning
                      THEN [Shown(id) EXCEPT !.next_due_ns = clock] ELSE Shown(id)
<1>1. /\ UNCHANGED <<proxy, slots, snapTime, history, pendingIds, completed>>
      /\ UNCHANGED <<clock, stopped, closed, phase, roundNow, toVisit>>
      /\ ~stopped /\ phase = "idle"
      /\ tasks' = [id \in DOMAIN tasks |-> New(id)]
  BY DEF ActivateTab, Idle, round
<1>2. tasks \in [Collectors -> Task] /\ TypeOK
  BY DEF EngineInv, Tasks, TypeOK
<1>3. ASSUME NEW id \in Collectors PROVE KeptTask(tasks[id], New(id))
  <2>1. PICK mid : mid = Shown(id)
    OBVIOUS
  <2>2. KeptTask(tasks[id], mid)
    <3>1. (id \in visible) \in BOOLEAN
      OBVIOUS
    <3> QED BY <1>2, <2>1, <3>1, VisibleKept
  <2>3. KeptTask(mid, [mid EXCEPT !.next_due_ns = clock])
    <3>1. clock \in 0..MaxInteger /\ mid \in Task
      BY <1>2, <2>2, SchedulerAssumption DEF KeptTask, TypeOK
    <3>2. clock <= MaxOf(mid.next_due_ns, clock)
      BY <3>1, SchedulerAssumption DEF MaxOf, Task
    <3> QED BY <3>1, <3>2, Retimed
  <2>4. New(id) = IF id \in scans \ scanning THEN [mid EXCEPT !.next_due_ns = clock] ELSE mid
    BY <2>1
  <2> QED BY <1>2, <2>2, <2>3, <2>4, KeptTwice
<1> HIDE DEF New
<1>4. /\ DOMAIN tasks' = Collectors /\ tasks' = [id \in Collectors |-> tasks'[id]]
      /\ \A id \in Collectors : tasks'[id] = New(id)
  BY <1>1, <1>2
<1> QED BY <1>1, <1>3, <1>4, MethodKeeps

LEMMA EngineTickKeeps ==
    ASSUME EngineInv, NEW force, EngineTick(force)
    PROVE  EngineInv'
<1> DEFINE New(id) == IF id \in ForcedIds(force) THEN [tasks[id] EXCEPT !.next_due_ns = 0]
                      ELSE tasks[id]
<1>1. /\ UNCHANGED <<proxy, slots, snapTime, history, pendingIds, completed>>
      /\ UNCHANGED <<clock, stopped, closed>> /\ ~stopped /\ phase = "idle"
      /\ phase' = "tick" /\ roundNow' = clock /\ toVisit' = DOMAIN tasks
      /\ tasks' = [id \in DOMAIN tasks |-> New(id)]
  BY DEF EngineTick, Idle, engine
<1>2. tasks \in [Collectors -> Task] /\ TypeOK /\ DOMAIN tasks = Collectors
  BY DEF EngineInv, Tasks, TypeOK
<1>3. ASSUME NEW id \in Collectors PROVE KeptTask(tasks[id], New(id))
  <2>1. tasks[id].next_due_ns \in Nat /\ clock \in Nat /\ tasks[id] \in Task
        /\ 0 \in 0..MaxInteger
    BY <1>2, SchedulerAssumption DEF TypeOK, Task
  <2>2. KeptTask(tasks[id], tasks[id])
    BY <2>1 DEF KeptTask, MaxOf
  <2>3. KeptTask(tasks[id], [tasks[id] EXCEPT !.next_due_ns = 0])
    <3>1. 0 <= MaxOf(tasks[id].next_due_ns, clock)
      BY <2>1 DEF MaxOf
    <3> QED BY <2>1, <3>1, Retimed
  <2> QED BY <2>2, <2>3
<1> HIDE DEF New
<1>4. /\ DOMAIN tasks' = Collectors /\ tasks' = [id \in Collectors |-> tasks'[id]]
      /\ \A id \in Collectors : tasks'[id] = New(id)
  BY <1>1, <1>2
<1> QED BY <1>1, <1>2, <1>3, <1>4, MethodKeeps

-----------------------------------------------------------------------------
(* Stopping, probing, and what happens outside the program.                 *)

LEMMA SameKept ==
    ASSUME EngineInv, NEW id \in Collectors
    PROVE  KeptTask(tasks[id], tasks[id])
<1>1. id \in DOMAIN tasks
  BY DEF EngineInv, Tasks
<1>2. tasks[id] \in Task /\ tasks[id].next_due_ns \in Nat /\ clock \in Nat
  BY <1>1, TaskTyped, SchedulerAssumption DEF EngineInv, Tasks
<1> QED BY <1>2 DEF KeptTask, MaxOf

\* Nothing is deferred before the first tick.
LEMMA NoneDeferred ==
    ASSUME EngineInv, phase = "probe", NEW id \in Collectors
    PROVE  ~Deferred(id)
BY DEF EngineInv, Tasks, Deferred, NoResult

\* Time passes and rounds begin and end, the tasks as they are.
LEMMA TasksKept ==
    ASSUME EngineInv, UNCHANGED <<tasks, proxy>>, clock' \in Nat, clock <= clock'
    PROVE  /\ Readings'
           /\ \A id \in Collectors : tasks'[id].last_result = tasks[id].last_result
           /\ \A id \in Collectors : Deferred(id) => Deferred(id)'
<1>1. Readings'
  BY ReadingsKept
<1>2. ASSUME NEW id \in Collectors, Deferred(id) PROVE Deferred(id)'
  BY <1>2, SameKept, DeferredKept DEF proxy
<1> QED BY <1>1, <1>2

LEMMA RoundKeeps ==
    ASSUME EngineInv, EngineProbeStart \/ EndProbe \/ (\E id \in Collectors : SkipVisit(id))
    PROVE  EngineInv'
<1>1. /\ UNCHANGED <<tasks, proxy, slots, snapTime, history, completed, pendingIds>>
      /\ UNCHANGED <<stopped, closed, clock>>
      /\ clock \in Nat /\ clock <= clock'
  BY SchedulerAssumption DEF EngineProbeStart, EndProbe, SkipVisit, ProbeStart, RoundEnd,
        TickSkip, engine, EngineInv, Tasks, TypeOK
<1>2. /\ Readings'
      /\ \A id \in Collectors : tasks'[id].last_result = tasks[id].last_result
      /\ \A id \in Collectors : Deferred(id) => Deferred(id)'
  BY <1>1, TasksKept
<1>3. Tasks'
  <2> USE DEF EngineInv, Tasks, TypeOK
  <2>1. CASE EngineProbeStart
    BY <1>1, <2>1 DEF EngineProbeStart, ProbeStart
  <2>2. CASE EndProbe
    BY <1>1, <2>2, SchedulerAssumption DEF EndProbe, RoundEnd
  <2>3. CASE \E id \in Collectors : SkipVisit(id)
    BY <1>1, <2>3 DEF SkipVisit, TickSkip
  <2> QED BY <2>1, <2>2, <2>3
<1>4. DOMAIN completed = {} \/ (phase' = "tick" /\ toVisit' \subseteq toVisit)
  BY DEF EngineProbeStart, EndProbe, SkipVisit, ProbeStart, Idle, TickSkip, EngineInv, Completion
<1>5. PendingKnown'
  BY <1>1 DEF EngineInv, PendingKnown
<1> QED BY <1>1, <1>2, <1>3, <1>4, <1>5, Quiet

LEMMA AdvanceKeeps ==
    ASSUME EngineInv, Advance, UNCHANGED <<proxy, engine>>
    PROVE  EngineInv'
<1>1. /\ UNCHANGED <<tasks, proxy, slots, snapTime, history, completed, pendingIds>>
      /\ UNCHANGED <<stopped, closed, phase, roundNow, toVisit>>
      /\ clock \in Nat /\ clock' \in 0..MaxClock /\ clock <= clock' /\ clock' \in Nat
  BY SchedulerAssumption DEF Advance, engine, round, EngineInv, Tasks, TypeOK
<1>2. /\ Readings'
      /\ \A id \in Collectors : tasks'[id].last_result = tasks[id].last_result
      /\ \A id \in Collectors : Deferred(id) => Deferred(id)'
  BY <1>1, TasksKept
<1>3. Tasks'
  BY <1>1 DEF EngineInv, Tasks, TypeOK
<1>4. DOMAIN completed = {} \/ (phase' = "tick" /\ toVisit' \subseteq toVisit)
  BY <1>1 DEF EngineInv, Completion
<1>5. PendingKnown'
  BY <1>1 DEF EngineInv, PendingKnown
<1> QED BY <1>1, <1>2, <1>3, <1>4, <1>5, Quiet

LEMMA EngineStopKeeps ==
    ASSUME EngineInv, EngineStop
    PROVE  EngineInv'
<1>1. /\ UNCHANGED <<tasks, slots, snapTime, history, completed, observed, pendingSince>>
      /\ UNCHANGED <<clock, phase, roundNow, toVisit>> /\ phase = "idle"
      /\ stopped' = TRUE /\ closed' = closed \cup DOMAIN tasks
      /\ pendingIds' = {} /\ clock \in Nat /\ clock <= clock'
      /\ request' = [id \in Proxied |-> "idle"] /\ ready' = [id \in Proxied |-> NoReply]
      /\ asked' = [id \in Proxied |-> NoTime]
  BY SchedulerAssumption DEF EngineStop, Stop, ProxyClose, round, Idle, EngineInv, Tasks, TypeOK
<1>2. Tasks'
  BY <1>1 DEF EngineInv, Tasks, TypeOK
<1>3. Readings'
  <2>1. ASSUME NEW id \in Proxied PROVE Reading(id)'
    BY <1>1 DEF EngineInv, Readings, Reading, Measured, Waiting
  <2> QED BY <1>1, <2>1 DEF EngineInv, Readings
<1>4. PendingKnown'
  BY <1>1 DEF PendingKnown
<1>5. ASSUME NEW id \in Collectors, Deferred(id) PROVE Deferred(id)'
  BY <1>1, <1>5, SameKept, DeferredKept
<1>6. DOMAIN completed = {}
  BY <1>1 DEF EngineInv, Completion
<1> QED BY <1>1, <1>2, <1>3, <1>4, <1>5, <1>6, Quiet

LEMMA ReaderKeeps ==
    ASSUME EngineInv, NEW id \in Proxied, ReaderStep(id), UNCHANGED <<vars, engine>>
    PROVE  EngineInv'
<1>1. /\ UNCHANGED <<tasks, slots, snapTime, history, completed, pendingIds>>
      /\ UNCHANGED <<stopped, closed, clock, phase, roundNow, toVisit>>
      /\ UNCHANGED <<asked, pendingSince, ready>>
      /\ clock \in Nat /\ clock <= clock'
  BY SchedulerAssumption DEF vars, engine, ReaderStep, ReaderMeasures, ReplyArrives, ReaderFails,
        EngineInv, Tasks, TypeOK
<1>2. Tasks' /\ PendingKnown'
  BY <1>1 DEF EngineInv, Tasks, TypeOK, PendingKnown
<1>3. Readings'
  <2>1. /\ request \in [Proxied -> {"idle", "reading", "sent", "answered", "failed"}]
        /\ observed \in [Proxied -> Times] /\ \A k \in Proxied : Reading(k)
        /\ clock \in Times /\ clock # NoTime
    BY <1>1 DEF EngineInv, Readings, Times, NoTime
  <2>2. CASE ReaderMeasures(id)
    <3>1. /\ request' = [request EXCEPT ![id] = "sent"]
          /\ observed' = [observed EXCEPT ![id] = clock]
      BY <2>2 DEF ReaderMeasures
    <3>2. ASSUME NEW k \in Proxied PROVE Reading(k)'
      BY <1>1, <2>1, <3>1 DEF Reading, Measured, Waiting
    <3> QED BY <1>1, <2>1, <3>1, <3>2 DEF EngineInv, Readings
  <2>3. CASE ReplyArrives(id) \/ ReaderFails(id)
    <3>1. /\ \/ request[id] = "sent" /\ request' = [request EXCEPT ![id] = "answered"]
             \/ request' = [request EXCEPT ![id] = "failed"]
          /\ observed' = observed
      BY <2>3 DEF ReplyArrives, ReaderFails
    <3>2. ASSUME NEW k \in Proxied PROVE Reading(k)'
      BY <1>1, <2>1, <3>1 DEF Reading, Measured, Waiting
    <3> QED BY <1>1, <2>1, <3>1, <3>2 DEF EngineInv, Readings
  <2> QED BY <2>2, <2>3 DEF ReaderStep
<1>4. ASSUME NEW k \in Collectors, Deferred(k) PROVE Deferred(k)'
  BY <1>1, <1>4, SameKept, DeferredKept
<1>5. DOMAIN completed = {} \/ (phase' = "tick" /\ toVisit' \subseteq toVisit)
  BY <1>1 DEF EngineInv, Completion
<1> QED BY <1>1, <1>2, <1>3, <1>4, <1>5, Quiet

-----------------------------------------------------------------------------
(* A poll of a proxy, and the probe round.                                  *)

Polls(id) == PollFindsReply(id) \/ PollFindsError(id) \/ PollThrows(id) \/ PollFindsPending(id)

\* What a poll leaves: no reading is invented, the present read keeps the time
\* of its first poll, and the other proxies are left alone.
LEMMA PollMeasured ==
    ASSUME EngineInv, NEW id \in Proxied, Polls(id), UNCHANGED <<observed, clock>>
    PROVE  /\ request' \in [Proxied -> {"idle", "reading", "sent", "answered", "failed"}]
           /\ pendingSince' \in [Proxied -> Times] /\ DOMAIN asked' = Proxied
           /\ \A k \in Proxied : Measured(k)'
           /\ \A k \in Proxied \ {id} : pendingSince'[k] = pendingSince[k]
<1>1. /\ request \in [Proxied -> {"idle", "reading", "sent", "answered", "failed"}]
      /\ observed \in [Proxied -> Times] /\ pendingSince \in [Proxied -> Times]
      /\ DOMAIN asked = Proxied /\ \A k \in Proxied : Measured(k)
      /\ clock \in Nat /\ clock \in Times /\ NoTime \in Times /\ NoTime <= clock
  BY SchedulerAssumption DEF EngineInv, Readings, Reading, Tasks, TypeOK, Times, NoTime
<1>2. Since(id) \in Times /\ Since(id) <= clock
  BY <1>1 DEF Since, Measured
<1>3. /\ request' = request \/ (\E w \in {"idle", "reading"} : request' = [request EXCEPT ![id] = w])
      /\ DOMAIN asked' = Proxied
  BY <1>1 DEF Polls, PollFindsReply, PollFindsError, PollThrows, PollFindsPending, Asks, Settles
<1>4. \/ pendingSince' = pendingSince
      \/ \E t \in {NoTime, Since(id)} : pendingSince' = [pendingSince EXCEPT ![id] = t]
  BY DEF Polls, PollFindsReply, PollFindsError, PollThrows, PollFindsPending
<1>5. /\ request' \in [Proxied -> {"idle", "reading", "sent", "answered", "failed"}]
      /\ \A k \in Proxied : request'[k] \in {"sent", "answered"} => request[k] \in {"sent", "answered"}
  BY <1>1, <1>3
<1>6. /\ pendingSince' \in [Proxied -> Times]
      /\ \A k \in Proxied : pendingSince'[k] <= clock
      /\ \A k \in Proxied \ {id} : pendingSince'[k] = pendingSince[k]
  BY <1>1, <1>2, <1>4 DEF Measured
<1>7. \A k \in Proxied : Measured(k)'
  BY <1>1, <1>5, <1>6 DEF Measured
<1> QED BY <1>3, <1>5, <1>6, <1>7

\* A visit of the probe round: it stores no result.
LEMMA ProbeVisitTasks ==
    ASSUME EngineInv, NEW id \in Collectors, NEW p \in BOOLEAN, NEW r \in {Nil, PollMs},
           ProbeVisit(id, p, r)
    PROVE  /\ Tasks' /\ phase = "probe" /\ DOMAIN completed = {}
           /\ UNCHANGED <<clock, stopped>>
           /\ \A k \in Collectors : tasks'[k].last_result = tasks[k].last_result
<1> DEFINE wait  == IF ValidInterval(r) THEN r ELSE DefaultRetry
           due   == IF p THEN MinOf(tasks[id].next_due_ns, DeadlineNs(clock, wait))
                         ELSE tasks[id].next_due_ns
           after == [tasks[id] EXCEPT !.probe_pending = p, !.next_due_ns = due]
<1>1. /\ tasks \in [Collectors -> Task] /\ tasks[id] \in Task /\ clock \in 0..MaxClock
      /\ tasks[id].next_due_ns \in 0..MaxInteger
  BY DEF EngineInv, Tasks, TypeOK, Task
<1>2. /\ Write(id, after) /\ phase = "probe" /\ toVisit' = toVisit \ {id}
      /\ UNCHANGED <<stopped, closed, clock, phase, roundNow>>
  BY DEF ProbeVisit
<1>3. due \in 0..MaxInteger
  <2>1. wait \in 1..MaxInterval
    BY SchedulerAssumption DEF ValidInterval
  <2> HIDE DEF wait
  <2> QED BY <1>1, <2>1, DeadlineBounds, SchedulerAssumption DEF MinOf
<1> HIDE DEF due
<1>4. after \in Task /\ after.last_result = tasks[id].last_result
  BY <1>1, <1>3 DEF Task
<1> HIDE DEF after
<1>5. /\ tasks' \in [Collectors -> Task]
      /\ \A k \in Collectors : tasks'[k].last_result = tasks[k].last_result
  BY <1>1, <1>2, <1>4 DEF Write
<1>6. Tasks'
  BY <1>2, <1>5 DEF EngineInv, Tasks, TypeOK
<1>7. DOMAIN completed = {}
  BY <1>2 DEF EngineInv, Completion
<1> QED BY <1>2, <1>5, <1>6, <1>7

LEMMA ProbeKeeps ==
    ASSUME EngineInv, NEW id \in Collectors, NEW p \in BOOLEAN, NEW r \in {Nil, PollMs},
           ProbeVisit(id, p, r), Readings', UNCHANGED engine
    PROVE  EngineInv'
<1>1. /\ Tasks' /\ phase = "probe" /\ DOMAIN completed = {}
      /\ UNCHANGED <<clock, stopped>>
      /\ \A k \in Collectors : tasks'[k].last_result = tasks[k].last_result
  BY ProbeVisitTasks
<1>2. UNCHANGED <<slots, snapTime, history, completed, pendingIds>>
  BY DEF engine
<1>3. clock' \in Nat /\ clock <= clock'
  BY <1>1, SchedulerAssumption DEF EngineInv, Tasks, TypeOK
<1>4. \A k \in Collectors : Deferred(k) => Deferred(k)'
  BY <1>1, NoneDeferred
<1>5. PendingKnown'
  BY <1>1, <1>2 DEF EngineInv, PendingKnown
<1> QED BY <1>1, <1>2, <1>3, <1>4, <1>5, Quiet

LEMMA ProbeLocalKeeps ==
    ASSUME EngineInv, NEW id \in Collectors, ProbeLocal(id)
    PROVE  EngineInv'
<1>1. ProbeVisit(id, FALSE, Nil) /\ UNCHANGED <<proxy, engine>>
  BY DEF ProbeLocal
<1>2. /\ UNCHANGED clock /\ \A k \in Collectors : tasks'[k].last_result = tasks[k].last_result
  BY <1>1, ProbeVisitTasks
<1>3. Readings'
  BY <1>1, <1>2, ReadingsKept, SchedulerAssumption DEF EngineInv, Tasks, TypeOK
<1> QED BY <1>1, <1>3, ProbeKeeps

LEMMA ProbeProxiedKeeps ==
    ASSUME EngineInv, NEW id \in Collectors, ProbeProxied(id)
    PROVE  EngineInv'
<1>1. PICK p \in BOOLEAN : ProbeVisit(id, p, PollMs) /\ ProxyProbe(id, p)
  BY DEF ProbeProxied
<1>2. id \in Proxied /\ UNCHANGED <<engine, observed>> /\ Polls(id)
  BY <1>1 DEF ProbeProxied, ProxyProbe, Polls
<1>3. /\ UNCHANGED clock /\ \A k \in Collectors : tasks'[k].last_result = tasks[k].last_result
      /\ phase = "probe"
  BY <1>1, ProbeVisitTasks
<1>4. /\ request' \in [Proxied -> {"idle", "reading", "sent", "answered", "failed"}]
      /\ pendingSince' \in [Proxied -> Times] /\ DOMAIN asked' = Proxied
      /\ \A k \in Proxied : Measured(k)'
  BY <1>2, <1>3, PollMeasured
<1>5. /\ DOMAIN ready' = Proxied
      /\ \A k \in Proxied : Waiting(k)'
  <2>1. /\ DOMAIN ready = Proxied /\ \A k \in Proxied : Measured(k) /\ Waiting(k)
        /\ \A k \in Proxied : tasks'[k].last_result = tasks[k].last_result
        /\ \A k \in Proxied : tasks[k].last_result = NoResult
        /\ clock \in Nat
    BY <1>3, ProxyAssumption, SchedulerAssumption
    DEF EngineInv, Readings, Reading, Tasks, TypeOK
  <2>2. CASE UNCHANGED ready
    BY <1>3, <2>1, <2>2 DEF Waiting
  <2>3. CASE PollFindsReply(id) /\ \E status \in ReplyStatuses :
                  ready' = [ready EXCEPT ![id] = Reply(id, status)]
    <3>1. PICK status \in ReplyStatuses : ready' = [ready EXCEPT ![id] = Reply(id, status)]
      BY <2>3
    <3>2. observed[id] \in Nat /\ observed[id] <= clock
      BY <1>2, <2>1, <2>3 DEF Measured, PollFindsReply, Times
    <3>3. ASSUME NEW k \in Proxied PROVE Waiting(k)'
      BY <1>3, <2>1, <3>1, <3>2 DEF Waiting, Reply
    <3> QED BY <2>1, <3>1, <3>3
  <2> QED BY <1>1, <2>2, <2>3 DEF ProxyProbe
<1>6. Readings'
  BY <1>2, <1>4, <1>5 DEF Readings, Reading, EngineInv
<1> QED BY <1>1, <1>2, <1>6, ProbeKeeps

-----------------------------------------------------------------------------
(* Sampling one collector.                                                  *)

\* What the scheduler makes of a result, and what it hands on.
LEMMA CompletedIs ==
    ASSUME NEW status, NEW quality, NEW pending \in BOOLEAN, NEW retry \in Nat,
           NEW data \in Times, NEW valueTime \in Times, NEW attempt \in Nat, NEW defer \in BOOLEAN,
           NEW r, r = Result(status, quality, pending, retry, data, valueTime, attempt, defer)
    PROVE  /\ Completed(r) \in ResultRecord
           /\ Completed(r).status = "ok" => status = "ok"
           /\ Completed(r).data = data /\ Completed(r).valueTime = valueTime
           /\ Completed(r).attempt = attempt /\ Completed(r).defer = defer
           /\ Completed(r).sampling_pending = pending
           /\ NormalizeResult(r) = [status |-> Completed(r).status, quality |-> Completed(r).quality,
                                    sampling_pending |-> pending]
<1>1. /\ NormalizeResult(r) \in Results
      /\ NormalizeResult(r).status = "ok" => status = "ok"
      /\ NormalizeResult(r).sampling_pending = pending
  BY DEF NormalizeResult, Result, Results, VALID_STATUS, VALID_QUALITY, CURRENT_QUALITY
<1>2. PICK n \in Results : n = NormalizeResult(r)
  BY <1>1
<1>3. Completed(r) = Result(n.status, n.quality, pending, retry, data, valueTime, attempt, defer)
  <2>1. Completed(r) = [r EXCEPT !.status = n.status, !.quality = n.quality]
    BY <1>2 DEF Completed
  <2> QED BY <2>1 DEF Result
<1>4. n = [status |-> n.status, quality |-> n.quality, sampling_pending |-> n.sampling_pending]
  BY DEF Results
<1> QED BY <1>1, <1>2, <1>3, <1>4 DEF Result, ResultRecord, Results

\* A pending read is polled again within the poll interval.
LEMMA PolledSoon ==
    ASSUME TypeOK, NEW task \in Task, NEW raw, raw.sampling_pending \in BOOLEAN,
           raw.retry = PollMs, NormalizeResult(raw).status # "ok"
    PROVE  Sampled(task, raw).next_due_ns <= clock + PollMs * NsPerMs
<1> DEFINE failures == MinOf(task.failures + 1, FailureCap)
           wait     == NextInterval(task, FALSE, failures, PollMs)
<1>1. Sampled(task, raw).next_due_ns = DeadlineNs(clock, wait)
  BY DEF Sampled, Task
<1>2. wait \in 1..MaxInterval /\ wait <= PollMs
  BY SchedulerAssumption, ProxyAssumption DEF NextInterval, ValidInterval, MinOf
<1>3. clock \in 0..MaxClock
  BY DEF TypeOK
<1> HIDE DEF wait
<1>4. DeadlineNs(clock, wait) \in Nat /\ DeadlineNs(clock, wait) <= clock + wait * NsPerMs
  BY <1>2, <1>3, DeadlineBounds, SchedulerAssumption
<1>5. /\ wait * NsPerMs <= PollMs * NsPerMs
      /\ wait * NsPerMs \in Nat /\ PollMs * NsPerMs \in Nat
  BY <1>2, ScaleMonotone, ScaleNat, ProxyAssumption, SchedulerAssumption
<1> QED BY <1>1, <1>3, <1>4, <1>5, SchedulerAssumption

\* What a collector may answer to a poll: it says when its value was measured,
\* and defers only while a read it is still waiting for is young.
Truthful(id, r) ==
    /\ r.sampling_pending \in BOOLEAN /\ r.retry \in Nat /\ r.data \in Times
    /\ r.valueTime \in Times /\ r.attempt \in Nat /\ r.defer \in BOOLEAN
    /\ r.attempt <= clock /\ slots[id].valueTime <= r.attempt
    /\ r.status = "ok" => /\ r.data # NoTime /\ r.data <= r.attempt
                          /\ \/ r.valueTime = r.data
                             \/ r.valueTime = NoTime /\ r.data = r.attempt
    /\ r.defer => /\ id \in Proxied /\ r.sampling_pending /\ r.retry = PollMs
                  /\ r.status # "ok" /\ pendingSince'[id] # NoTime
                  /\ clock - pendingSince'[id] < DeferNs

\* What the poll leaves of the proxies.
Polled(id) ==
    /\ request' \in [Proxied -> {"idle", "reading", "sent", "answered", "failed"}]
    /\ observed' \in [Proxied -> Times] /\ pendingSince' \in [Proxied -> Times]
    /\ DOMAIN asked' = Proxied /\ DOMAIN ready' = Proxied
    /\ \A k \in Proxied : Measured(k)'
    /\ \A k \in Proxied \ {id} : pendingSince'[k] = pendingSince[k]
    /\ \A k \in Proxied : ready'[k] = NoReply \/ (k # id /\ ready'[k] = ready[k])

LEMMA SampleKeeps ==
    ASSUME EngineInv, NEW id \in Collectors, NEW r, Truthful(id, r), Polled(id),
           \E status, quality, pending, retry, data, valueTime, attempt, defer :
               r = Result(status, quality, pending, retry, data, valueTime, attempt, defer),
           TickSample(id, r), Complete(id, r),
           UNCHANGED <<slots, snapTime, history, pendingIds>>
    PROVE  EngineInv'
<1>a. PICK status, quality, pending, retry, data, valueTime, attempt, defer :
               r = Result(status, quality, pending, retry, data, valueTime, attempt, defer)
  OBVIOUS
<1>b. /\ r.status = status /\ r.quality = quality /\ r.sampling_pending = pending
      /\ r.retry = retry /\ r.data = data /\ r.valueTime = valueTime
      /\ r.attempt = attempt /\ r.defer = defer
  BY <1>a DEF Result
<1>c. /\ pending \in BOOLEAN /\ retry \in Nat /\ data \in Times
      /\ valueTime \in Times /\ attempt \in Nat /\ defer \in BOOLEAN
      /\ attempt <= clock /\ slots[id].valueTime <= attempt
      /\ status = "ok" => /\ data # NoTime /\ data <= attempt
                          /\ \/ valueTime = data
                             \/ valueTime = NoTime /\ data = attempt
      /\ defer => /\ id \in Proxied /\ pending /\ retry = PollMs /\ status # "ok"
                  /\ pendingSince'[id] # NoTime /\ clock - pendingSince'[id] < DeferNs
  BY <1>b DEF Truthful
<1>d. /\ request' \in [Proxied -> {"idle", "reading", "sent", "answered", "failed"}]
      /\ observed' \in [Proxied -> Times] /\ pendingSince' \in [Proxied -> Times]
      /\ DOMAIN asked' = Proxied /\ DOMAIN ready' = Proxied
      /\ \A k \in Proxied : Measured(k)'
      /\ \A k \in Proxied \ {id} : pendingSince'[k] = pendingSince[k]
      /\ \A k \in Proxied : ready'[k] = NoReply \/ (k # id /\ ready'[k] = ready[k])
  BY DEF Polled
<1>1. /\ tasks \in [Collectors -> Task] /\ tasks[id] \in Task /\ clock \in Nat /\ TypeOK
      /\ phase = "tick" /\ id \in toVisit /\ id \notin DOMAIN completed
      /\ UNCHANGED <<stopped, closed, clock, phase, roundNow>>
      /\ toVisit' = toVisit \ {id}
      /\ Write(id, Sampled(tasks[id], r))
  BY SchedulerAssumption DEF TickSample, EngineInv, Tasks, TypeOK, Completion
<1>2. r.sampling_pending = pending /\ r.retry = retry
  BY <1>b
<1>3. PICK c : c = Completed(r)
  OBVIOUS
<1>4. /\ c \in ResultRecord /\ (c.status = "ok" => status = "ok")
      /\ c.data = data /\ c.valueTime = valueTime /\ c.attempt = attempt /\ c.defer = defer
      /\ c.sampling_pending = pending
      /\ NormalizeResult(r) = [status |-> c.status, quality |-> c.quality,
                               sampling_pending |-> c.sampling_pending]
  BY <1>a, <1>c, <1>3, CompletedIs
<1>5. PICK after : after = Sampled(tasks[id], r)
  OBVIOUS
<1>6. /\ after \in Task /\ after.last_result = NormalizeResult(r)
      /\ retry = PollMs /\ c.status # "ok" => after.next_due_ns <= clock + PollMs * NsPerMs
  BY <1>1, <1>2, <1>4, <1>5, <1>c, SampledType, PolledSoon
<1>7. /\ tasks' \in [Collectors -> Task]
      /\ tasks'[id] = after /\ \A k \in Collectors \ {id} : tasks'[k] = tasks[k]
  BY <1>1, <1>5, <1>6 DEF Write
<1>8. /\ DOMAIN completed' = DOMAIN completed \cup {id}
      /\ completed'[id] = c /\ \A k \in DOMAIN completed : completed'[k] = completed[k]
  BY <1>1, <1>3 DEF Complete
<1>9. Tasks'
  BY <1>1, <1>7 DEF EngineInv, Tasks, TypeOK
<1>10. Readings'
  <2>1. ASSUME NEW k \in Proxied PROVE Waiting(k)'
    <3>1. CASE ready'[k] = NoReply
      BY <3>1 DEF Waiting
    <3>2. CASE k # id /\ ready'[k] = ready[k]
      <4>1. tasks'[k] = tasks[k] /\ Waiting(k)
        BY <1>7, <3>2, ProxyAssumption DEF EngineInv, Readings, Reading
      <4> QED BY <1>1, <3>2, <4>1 DEF Waiting
    <3> QED BY <1>d, <3>1, <3>2
  <2> QED BY <1>d, <2>1 DEF Readings, Reading
<1>11. after.last_result # NoResult
  BY <1>4, <1>6 DEF ResultRecord, NoResult, VALID_STATUS
<1>12. Slots'
  <2>1. ASSUME NEW k \in Collectors PROVE SlotOK(k)'
    BY <1>7, <1>11 DEF EngineInv, Slots, SlotOK
  <2> QED BY <1>1, <2>1 DEF EngineInv, Slots
<1>13. \A k \in Collectors \ {id} : Deferred(k) => Deferred(k)'
  BY <1>1, <1>7, <1>d DEF Deferred
<1>14. defer => Deferred(id)'
  <2> SUFFICES ASSUME defer PROVE Deferred(id)'
    OBVIOUS
  <2>1. PICK poll \in Nat : poll = PollMs * NsPerMs
    BY SchedulerAssumption, ProxyAssumption, ScaleNat
  <2>2. after.next_due_ns <= clock + poll /\ after.next_due_ns \in Nat
    BY <1>4, <1>6, <1>c, <2>1 DEF Task
  <2>3. PICK since \in Nat : since = pendingSince'[id]
    BY <1>c, <1>d DEF Times
  <2>4. clock + poll <= since + DeferNs + poll
    BY <1>1, <1>c, <2>1, <2>3, ProxyAssumption
  <2>5. after.next_due_ns <= MaxOf(clock, since + DeferNs + poll)
    BY <1>1, <2>2, <2>4, ProxyAssumption DEF MaxOf
  <2>6. after.last_result.sampling_pending
    BY <1>4, <1>6, <1>c
  <2> QED BY <1>1, <1>7, <1>c, <2>1, <2>3, <2>5, <2>6 DEF Deferred
<1>15. Completion'
  <2>1. ASSUME NEW k \in DOMAIN completed, k # id PROVE ResultOK(k)'
    <3>1. /\ k \in Collectors /\ ResultOK(k) /\ completed'[k] = completed[k]
          /\ tasks'[k] = tasks[k] /\ (Deferred(k) => Deferred(k)')
      BY <1>7, <1>8, <1>13, <2>1 DEF EngineInv, Completion
    <3> QED BY <1>1, <3>1 DEF ResultOK
  <2>2. ResultOK(id)'
    BY <1>1, <1>4, <1>6, <1>7, <1>8, <1>14, <1>c DEF ResultOK
  <2> QED BY <1>1, <1>8, <2>1, <2>2 DEF EngineInv, Completion
<1>16. Freshness'
  <2>1. ASSUME NEW k \in Collectors, slots[k].quality \in CURRENT_QUALITY
        PROVE  \/ tasks'[k].last_result.status = "ok"
               \/ Deferred(k)'
               \/ k \in DOMAIN completed' /\ ~completed'[k].defer
    <3>1. CASE k = id
      BY <1>4, <1>8, <1>14, <1>c, <3>1
    <3>2. CASE k # id
      BY <1>7, <1>8, <1>13, <2>1, <3>2 DEF EngineInv, Freshness
    <3> QED BY <3>1, <3>2
  <2> QED BY <2>1 DEF Freshness
<1>17. PendingKnown'
  BY <1>1, <1>7, <1>8 DEF EngineInv, PendingKnown
<1>18. Histories'
  BY DEF EngineInv, Histories
<1> QED BY <1>9, <1>10, <1>12, <1>15, <1>16, <1>17, <1>18 DEF EngineInv

LEMMA SlotBefore ==
    ASSUME EngineInv, NEW id \in Collectors
    PROVE  clock \in Nat /\ slots[id].valueTime <= clock
<1>1. /\ slots[id].valueTime \in Times /\ slots[id].attempt \in Times /\ snapTime \in 0..clock
      /\ SlotOK(id) /\ clock \in Nat
  BY SchedulerAssumption DEF EngineInv, Slots, SlotRecord, Tasks, TypeOK
<1> QED BY <1>1 DEF SlotOK, Times, NoTime

LEMMA SampleLocalKeeps ==
    ASSUME EngineInv, NEW id \in Collectors, SampleLocal(id)
    PROVE  EngineInv'
<1>1. PICK status \in RawStatuses, quality \in RawQualities :
        LET r == Result(status, quality, FALSE, Nil, IF status = "ok" THEN clock ELSE NoTime,
                        NoTime, clock, FALSE)
        IN  TickSample(id, r) /\ Complete(id, r)
  BY DEF SampleLocal
<1>2. PICK data : data = IF status = "ok" THEN clock ELSE NoTime
  OBVIOUS
<1>3. PICK r : r = Result(status, quality, FALSE, Nil, data, NoTime, clock, FALSE)
  OBVIOUS
<1>4. TickSample(id, r) /\ Complete(id, r)
  BY <1>1, <1>2, <1>3
<1>5. /\ id \notin Proxied
      /\ UNCHANGED <<request, asked, observed, pendingSince, ready>>
      /\ UNCHANGED <<slots, snapTime, history, pendingIds, clock>>
  BY <1>4 DEF SampleLocal, TickSample, proxy
<1>6. clock \in Nat /\ slots[id].valueTime <= clock
  BY SlotBefore
<1>7. Truthful(id, r)
  BY <1>2, <1>3, <1>6 DEF Truthful, Result, Nil, Times, NoTime
<1>8. Polled(id)
  BY <1>5 DEF Polled, EngineInv, Readings, Reading, Measured
<1> QED BY <1>3, <1>4, <1>5, <1>7, <1>8, SampleKeeps

LEMMA SampleProxiedKeeps ==
    ASSUME EngineInv, NEW id \in Collectors, SampleProxied(id)
    PROVE  EngineInv'
<1>1. PICK r \in ProxyResults(id) : ProxySample(id, r) /\ TickSample(id, r) /\ Complete(id, r)
  BY DEF SampleProxied
<1>2. /\ id \in Proxied
      /\ UNCHANGED <<slots, snapTime, history, pendingIds, clock, observed>>
  BY <1>1 DEF SampleProxied, TickSample, ProxySample
<1>3. /\ clock \in Nat /\ slots[id].valueTime <= clock
      /\ NoTime \in Times /\ DOMAIN ready = Proxied
      /\ Measured(id) /\ Waiting(id) /\ observed[id] \in Times
      /\ RetryMs \in Nat /\ PollMs \in Nat
  BY <1>2, SlotBefore, ProxyAssumption DEF Times, EngineInv, Readings, Reading
<1>4. ASSUME TakesReady(id) PROVE Truthful(id, r) /\ Polled(id)
  <2>1. /\ r = ReplyResult(ready[id]) /\ ready' = [ready EXCEPT ![id] = NoReply]
        /\ UNCHANGED <<request, asked, pendingSince>>
    BY <1>1, <1>4 DEF ProxySample
  <2>2. PICK reply : reply = ready[id]
    OBVIOUS
  <2>3. /\ reply.received \in Nat /\ reply.received <= clock
        /\ reply.observed \in Nat /\ reply.observed <= reply.received
        /\ slots[id] = EmptySlot
    BY <1>2, <1>3, <1>4, <2>2, ProxyAssumption DEF TakesReady, Waiting, EngineInv, Slots, SlotOK
  <2>4. slots[id].valueTime <= reply.received
    BY <2>3 DEF EmptySlot, NoTime
  <2>5. Truthful(id, r)
    BY <2>1, <2>2, <2>3, <2>4 DEF Truthful, ReplyResult, Result, Times, NoTime
  <2>6. Polled(id)
    BY <1>2, <1>3, <2>1 DEF Polled, EngineInv, Readings, Reading, Measured
  <2> QED BY <2>5, <2>6
<1>5. ASSUME ~TakesReady(id) PROVE Truthful(id, r) /\ Polled(id)
  <2>1. ready' = ready /\ ready[id] = NoReply /\ Polls(id)
    BY <1>1, <1>5 DEF ProxySample, TakesReady, Polls
  <2>2. Polled(id)
    <3>1. \A k \in Proxied : ready'[k] = NoReply \/ (k # id /\ ready'[k] = ready[k])
      BY <2>1
    <3>2. /\ request' \in [Proxied -> {"idle", "reading", "sent", "answered", "failed"}]
          /\ pendingSince' \in [Proxied -> Times] /\ DOMAIN asked' = Proxied
          /\ \A k \in Proxied : Measured(k)'
          /\ \A k \in Proxied \ {id} : pendingSince'[k] = pendingSince[k]
      BY <1>2, <2>1, PollMeasured
    <3>3. observed' \in [Proxied -> Times] /\ DOMAIN ready' = Proxied
      BY <1>2, <1>3, <2>1 DEF EngineInv, Readings
    <3> QED BY <3>1, <3>2, <3>3 DEF Polled
  <2>3. CASE PollFindsReply(id) /\ \E status \in ReplyStatuses : r = ReplyResult(Reply(id, status))
    <3>1. PICK status \in ReplyStatuses : r = ReplyResult(Reply(id, status))
      BY <2>3
    <3>2. observed[id] \in Nat /\ observed[id] <= clock
      BY <1>2, <1>3, <2>3 DEF Measured, PollFindsReply, Times
    <3>3. Truthful(id, r)
      BY <1>3, <3>1, <3>2 DEF Truthful, ReplyResult, Reply, Result, Times, NoTime
    <3> QED BY <2>2, <3>3
  <2>4. CASE r = FailedResult
    <3>1. Truthful(id, r)
      BY <1>3, <2>4 DEF Truthful, FailedResult, Result
    <3> QED BY <2>2, <3>1
  <2>5. CASE PollFindsPending(id) /\ r = PendingResult(Since(id))
    <3>1. PICK since : since = Since(id)
      OBVIOUS
    <3>2. pendingSince'[id] = since /\ since # NoTime
      BY <1>2, <1>3, <2>5, <3>1 DEF PollFindsPending, Since, NoTime, EngineInv, Readings
    <3>3. PICK defer \in BOOLEAN : defer = (clock - since < DeferNs)
      <4>1. (clock - since < DeferNs) \in BOOLEAN
        OBVIOUS
      <4> QED BY <4>1, Zenon
    <3>4. r = Result("error", "stale", TRUE, PollMs, NoTime, NoTime, clock, defer)
      BY <2>5, <3>1, <3>3, Zenon DEF PendingResult, StillPrompt
    <3>5. defer => clock - pendingSince'[id] < DeferNs
      BY <3>2, <3>3
    <3>6. Truthful(id, r)
      BY <1>2, <1>3, <3>2, <3>4, <3>5 DEF Truthful, Result
    <3> QED BY <2>2, <3>6
  <2> QED BY <1>1, <1>5, <2>3, <2>4, <2>5 DEF ProxySample
<1>6. \E status, quality, pending, retry, data, valueTime, attempt, defer :
          r = Result(status, quality, pending, retry, data, valueTime, attempt, defer)
  BY <1>1 DEF ProxyResults, ReplyResult, FailedResult, PendingResult
<1> QED BY <1>1, <1>2, <1>4, <1>5, <1>6, SampleKeeps

-----------------------------------------------------------------------------
(* The end of a tick.                                                       *)

\* What a result says of its measurement.
Measurement(c) ==
    /\ c \in ResultRecord /\ c.attempt <= clock
    /\ c.status = "ok" =>
         /\ c.data # NoTime /\ c.data <= c.attempt
         /\ \/ c.valueTime = c.data
            \/ c.valueTime = NoTime /\ c.data = c.attempt

\* A slot that shows a value measured no later than `time'.
ShowsBefore(slot, time) ==
    slot \in SlotRecord /\ slot.valueTime = slot.value /\ slot.valueTime <= time

\* Merging a result replaces the value and its time together, or keeps both;
\* a kept value is not labelled current.
LEMMA MergedShows ==
    ASSUME clock \in Nat, NEW slot, NEW c, Measurement(c), ShowsBefore(slot, c.attempt)
    PROVE  /\ ShowsBefore(Merged(slot, c, clock), c.attempt)
           /\ Merged(slot, c, clock).attempt = c.attempt
           /\ Merged(slot, c, clock).quality \in CURRENT_QUALITY => c.status = "ok"
           /\ c.status = "ok" => Merged(slot, c, clock).value = c.data
<1>1. /\ c.status \in VALID_STATUS /\ c.quality \in VALID_QUALITY /\ c.data \in Times
      /\ c.valueTime \in Times /\ c.attempt \in Nat /\ c.attempt <= clock
  BY DEF Measurement, ResultRecord
<1>2. /\ slot.value \in Times /\ slot.valueTime = slot.value /\ slot.valueTime <= c.attempt
  BY DEF ShowsBefore, SlotRecord
<1>3. /\ RetainedQuality(c) \in VALID_QUALITY /\ RetainedQuality(c) \notin CURRENT_QUALITY
  BY <1>1 DEF RetainedQuality, VALID_STATUS, VALID_QUALITY, CURRENT_QUALITY
<1>4. CASE Installs(c)
  <2>1. /\ c.status = "ok" /\ c.data \in Nat /\ c.data <= c.attempt
        /\ MinOf(ObservedTime(c), clock) = c.data
    BY <1>1, <1>4 DEF Installs, Measurement, ObservedTime, MinOf, Times, NoTime
  <2>2. Merged(slot, c, clock) =
          [status |-> c.status, quality |-> c.quality, value |-> c.data,
           valueTime |-> c.data, attempt |-> c.attempt]
    BY <1>4, <2>1 DEF Merged
  <2> QED BY <1>1, <2>1, <2>2 DEF ShowsBefore, SlotRecord, Times
<1>5. CASE ~Installs(c)
  <2>1. c.status # "ok" /\ slot.valueTime <= clock
    BY <1>1, <1>2, <1>5 DEF Installs, Measurement, Times, NoTime
  <2>2. Merged(slot, c, clock) =
          [status |-> c.status, quality |-> RetainedQuality(c), value |-> slot.value,
           valueTime |-> slot.valueTime, attempt |-> c.attempt]
    BY <1>5, <2>1 DEF Merged
  <2> QED BY <1>1, <1>2, <1>3, <2>1, <2>2 DEF ShowsBefore, SlotRecord, Times
<1> QED BY <1>4, <1>5

\* The point of a merged result is a gap, or stands where it was measured.
LEMMA PointHonest ==
    ASSUME clock \in Nat, NEW slot, NEW c, Measurement(c),
           c.status = "ok" => slot.value = c.data
    PROVE  Point(slot, c, clock) \in HonestPoint
<1>1. c.data \in Times /\ c.valueTime \in Times /\ c.attempt \in Nat /\ c.attempt <= clock
  BY DEF Measurement, ResultRecord
<1>2. PICK time : time = MinOf(IF c.valueTime # NoTime THEN c.valueTime ELSE c.attempt, clock)
  OBVIOUS
<1>3. time \in Nat /\ (c.status = "ok" => time = c.data /\ slot.value = c.data)
  BY <1>1, <1>2 DEF Measurement, MinOf, Times, NoTime
<1>4. PICK value : value = IF c.status = "ok" THEN slot.value ELSE NoTime
  OBVIOUS
<1>5. value \in Times /\ (value # NoTime => time = value)
  BY <1>1, <1>3, <1>4 DEF Times
<1>6. Point(slot, c, clock) = [value |-> value, time |-> time]
  BY <1>2, <1>4 DEF Point
<1> QED BY <1>3, <1>5, <1>6 DEF HonestPoint

LEMMA PushedFits ==
    ASSUME NEW S, NEW points \in Seq(S), Len(points) <= HistoryCapacity, NEW point \in S
    PROVE  Pushed(points, point) \in Seq(S) /\ Len(Pushed(points, point)) <= HistoryCapacity
<1>1. HistoryCapacity \in Nat \ {0} /\ Len(points) \in Nat
  BY EngineAssumption
<1>2. CASE Len(points) < HistoryCapacity
  BY <1>1, <1>2, AppendProperties DEF Pushed
<1>3. CASE ~(Len(points) < HistoryCapacity)
  <2>1. points # <<>> /\ Len(points) = HistoryCapacity
    BY <1>1, <1>3
  <2>2. Tail(points) \in Seq(S) /\ Len(Tail(points)) = HistoryCapacity - 1
    BY <2>1, HeadTailProperties
  <2>3. /\ Append(Tail(points), point) \in Seq(S)
        /\ Len(Append(Tail(points), point)) = HistoryCapacity
    BY <1>1, <2>2, AppendProperties
  <2> QED BY <1>1, <1>3, <2>3 DEF Pushed
<1> QED BY <1>2, <1>3

LEMMA EndTickKeeps ==
    ASSUME EngineInv, EndTick
    PROVE  EngineInv'
<1>1. PICK published : published = {id \in DOMAIN completed : ~completed[id].defer}
  OBVIOUS
<1>2. PICK merged : merged = [id \in Collectors |->
                                IF id \in published THEN Merged(slots[id], completed[id], clock)
                                ELSE slots[id]]
  OBVIOUS
<1>3. /\ slots' = merged /\ snapTime' = IF published = {} THEN snapTime ELSE clock
      /\ history' = [id \in Collectors |->
                       IF id \in published
                       THEN Pushed(history[id], Point(merged[id], completed[id], clock))
                       ELSE history[id]]
      /\ pendingIds' = PendingAfter /\ completed' = NothingCompleted
      /\ UNCHANGED <<tasks, stopped, closed, clock, toVisit, proxy>>
      /\ UNCHANGED <<request, asked, observed, pendingSince, ready>>
      /\ phase' = "idle" /\ roundNow' = 0 /\ toVisit = {} /\ ~stopped /\ clock \in Nat
  BY <1>1, <1>2, SchedulerAssumption DEF EndTick, RoundEnd, proxy, EngineInv, Tasks, TypeOK
<1>4. DOMAIN completed \subseteq Collectors /\ published \subseteq DOMAIN completed
  BY <1>1 DEF EngineInv, Completion
<1>5. /\ slots \in [Collectors -> SlotRecord] /\ snapTime \in Nat /\ snapTime <= clock
      /\ history \in [Collectors -> Seq(HonestPoint)]
  BY <1>3 DEF EngineInv, Slots, Histories
<1>6. Tasks'
  BY <1>3, SchedulerAssumption DEF EngineInv, Tasks, TypeOK
<1>7. Readings'
  BY <1>3 DEF EngineInv, Readings, Reading, Measured, Waiting
<1>8. DOMAIN completed' = {}
  BY <1>3 DEF NothingCompleted
<1>9. ASSUME NEW id \in published
      PROVE  /\ Measurement(completed[id]) /\ ShowsBefore(slots[id], completed[id].attempt)
             /\ tasks[id].last_result.status = completed[id].status
             /\ tasks[id].last_result # NoResult
  <2>1. id \in Collectors /\ ResultOK(id) /\ SlotOK(id) /\ slots[id] \in SlotRecord
    BY <1>4, <1>5, <1>9 DEF EngineInv, Completion, Slots
  <2>2. PICK c : c = completed[id]
    OBVIOUS
  <2>3. c \in ResultRecord /\ tasks[id].last_result = [status |-> c.status, quality |-> c.quality,
                                                   sampling_pending |-> c.sampling_pending]
    BY <2>1, <2>2 DEF ResultOK
  <2>4. Measurement(c) /\ ShowsBefore(slots[id], c.attempt)
    BY <2>1, <2>2 DEF ResultOK, SlotOK, Measurement, ShowsBefore
  <2>5. tasks[id].last_result.status = c.status /\ tasks[id].last_result # NoResult
    BY <2>3 DEF ResultRecord, VALID_STATUS, NoResult
  <2> QED BY <2>2, <2>4, <2>5
<1>10. ASSUME NEW id \in published
       PROVE  /\ merged[id] = Merged(slots[id], completed[id], clock)
              /\ ShowsBefore(merged[id], merged[id].attempt)
              /\ merged[id].attempt <= clock
              /\ merged[id].quality \in CURRENT_QUALITY => tasks[id].last_result.status = "ok"
              /\ Point(merged[id], completed[id], clock) \in HonestPoint
  <2>1. merged[id] = Merged(slots[id], completed[id], clock)
    BY <1>2, <1>4
  <2>2. PICK c : c = completed[id]
    OBVIOUS
  <2>3. Measurement(c) /\ ShowsBefore(slots[id], c.attempt) /\ tasks[id].last_result.status = c.status
    BY <1>9, <2>2
  <2>4. /\ ShowsBefore(merged[id], c.attempt) /\ merged[id].attempt = c.attempt
        /\ merged[id].quality \in CURRENT_QUALITY => c.status = "ok"
        /\ c.status = "ok" => merged[id].value = c.data
    BY <1>3, <2>1, <2>2, <2>3, MergedShows
  <2>5. Point(merged[id], c, clock) \in HonestPoint
    BY <1>3, <2>3, <2>4, PointHonest
  <2>6. c.attempt <= clock
    BY <2>3 DEF Measurement
  <2> QED BY <2>1, <2>2, <2>3, <2>4, <2>5, <2>6
<1>11. \A id \in Collectors \ published : merged[id] = slots[id]
  BY <1>2
<1>12. Slots'
  <2>1. slots' \in [Collectors -> SlotRecord]
    <3>1. \A id \in Collectors : merged[id] \in SlotRecord
      BY <1>5, <1>10, <1>11 DEF ShowsBefore
    <3>2. merged = [id \in Collectors |-> merged[id]]
      BY <1>2
    <3> QED BY <1>3, <3>1, <3>2
  <2>2. snapTime' \in 0..clock' /\ snapTime <= snapTime' /\ (published # {} => snapTime' = clock)
    BY <1>3, <1>5
  <2>3. ASSUME NEW id \in published PROVE SlotOK(id)'
    <3>1. /\ merged[id].valueTime = merged[id].value /\ merged[id].valueTime <= merged[id].attempt
          /\ merged[id].attempt <= clock
      BY <1>10, <2>3 DEF ShowsBefore
    <3>2. snapTime' = clock /\ tasks'[id].last_result # NoResult
      BY <1>3, <1>9, <2>2, <2>3
    <3> QED BY <1>3, <3>1, <3>2 DEF SlotOK
  <2>4. ASSUME NEW id \in Collectors \ published PROVE SlotOK(id)'
    <3>1. SlotOK(id) /\ slots'[id] = slots[id] /\ slots[id].attempt \in Times
      BY <1>3, <1>5, <1>11 DEF EngineInv, Slots, SlotRecord
    <3>2. slots[id].attempt <= snapTime'
      BY <1>3, <1>5, <2>2, <3>1 DEF SlotOK, Times, NoTime
    <3> QED BY <1>3, <3>1, <3>2 DEF SlotOK
  <2> QED BY <2>1, <2>2, <2>3, <2>4 DEF Slots
<1>13. Completion'
  BY <1>8 DEF Completion
<1>14. Freshness'
  <2>1. ASSUME NEW id \in Collectors, slots'[id].quality \in CURRENT_QUALITY
        PROVE  tasks'[id].last_result.status = "ok" \/ Deferred(id)'
    <3>1. CASE id \in published
      BY <1>3, <1>10, <2>1, <3>1
    <3>2. CASE id \notin published
      <4>1. slots[id].quality \in CURRENT_QUALITY
        BY <1>3, <1>11, <2>1, <3>2
      <4>2. tasks[id].last_result.status = "ok" \/ Deferred(id)
        BY <1>1, <3>2, <4>1 DEF EngineInv, Freshness
      <4> QED BY <1>3, <4>2 DEF Deferred
    <3> QED BY <3>1, <3>2
  <2> QED BY <2>1 DEF Freshness
<1>15. PendingKnown'
  <2>1. /\ pendingIds \subseteq Collectors
        /\ \A id \in Collectors \ DOMAIN completed :
               id \in pendingIds <=> tasks[id].last_result.sampling_pending
    BY <1>3 DEF EngineInv, PendingKnown
  <2>2. ASSUME NEW id \in DOMAIN completed
        PROVE  tasks[id].last_result.sampling_pending = completed[id].sampling_pending
    <3>1. ResultOK(id)
      BY <2>2 DEF EngineInv, Completion
    <3> QED BY <3>1 DEF ResultOK
  <2> QED BY <1>3, <1>4, <1>8, <2>1, <2>2 DEF PendingKnown, PendingAfter
<1>16. Histories'
  <2>1. ASSUME NEW id \in Collectors
        PROVE  history'[id] \in Seq(HonestPoint) /\ Len(history'[id]) <= HistoryCapacity
    <3>1. history[id] \in Seq(HonestPoint) /\ Len(history[id]) <= HistoryCapacity
      BY DEF EngineInv, Histories
    <3>2. CASE id \in published
      <4>1. PICK point \in HonestPoint : point = Point(merged[id], completed[id], clock)
        BY <1>10, <3>2
      <4>2. history'[id] = Pushed(history[id], point)
        BY <1>3, <3>2, <4>1
      <4> QED BY <3>1, <4>1, <4>2, PushedFits
    <3>3. CASE id \notin published
      BY <1>3, <3>1, <3>3
    <3> QED BY <3>2, <3>3
  <2>2. history' = [id \in Collectors |-> history'[id]]
    BY <1>3
  <2> QED BY <2>1, <2>2 DEF Histories
<1> QED BY <1>6, <1>7, <1>12, <1>13, <1>14, <1>15, <1>16 DEF EngineInv

-----------------------------------------------------------------------------
(* The invariant, and what follows from it.                                 *)

LEMMA InitEngine ==
    ASSUME EngineInit
    PROVE  EngineInv
<1> USE DEF EngineInit
<1>1. Tasks
  <2>1. \A id \in Collectors : /\ Foreground(id, StartInterval) \in 1..MaxInterval
                               /\ Background(id, StartInterval) \in 0..MaxInterval
    BY EngineAssumption, SchedulerAssumption DEF Foreground, Background, MaxOf, Nil
  <2>2. \A id \in Collectors : tasks[id] \in Task
    BY <2>1, SchedulerAssumption DEF Task
  <2>3. tasks \in [Collectors -> Task]
    BY <2>2
  <2>4. /\ stopped = FALSE /\ closed = {} /\ clock = 0 /\ phase = "idle" /\ roundNow = 0
        /\ toVisit = {} /\ DOMAIN tasks = Collectors
    OBVIOUS
  <2> HIDE DEF EngineInit
  <2>5. clock \in 0..MaxClock /\ roundNow \in 0..clock
    BY <2>4, SchedulerAssumption
  <2>6. TypeOK
    BY <2>3, <2>4, <2>5 DEF TypeOK
  <2> QED BY <2>4, <2>6 DEF Tasks
<1>2. Readings
  BY DEF Readings, Reading, Measured, Waiting, ProxyInit, Times, NoTime
<1>3. Slots
  BY DEF Slots, SlotOK, SlotRecord, EmptySlot, Times, NoTime
<1>4. Completion /\ Freshness
  BY DEF Completion, Freshness, NothingCompleted, EmptySlot, CURRENT_QUALITY
<1>5. PendingKnown
  BY DEF PendingKnown, NoResult
<1>6. Histories
  <2>1. <<>> \in Seq(HonestPoint) /\ Len(<<>>) <= HistoryCapacity
    BY EngineAssumption
  <2> QED BY <2>1 DEF Histories
<1> QED BY <1>1, <1>2, <1>3, <1>4, <1>5, <1>6 DEF EngineInv

LEMMA NextEngine ==
    ASSUME EngineInv, [EngineNext]_all
    PROVE  EngineInv'
<1>1. CASE \E p \in BOOLEAN : SetPaused(p)
  BY <1>1, SetPausedKeeps
<1>2. CASE \E ms \in Intervals : ChangeInterval(ms)
  BY <1>2, ChangeIntervalKeeps
<1>3. CASE \E visible \in SUBSET Collectors, scans \in SUBSET Detail : ActivateTab(visible, scans)
  BY <1>3, ActivateTabKeeps
<1>4. CASE EngineStop
  BY <1>4, EngineStopKeeps
<1>5. CASE EngineProbeStart \/ EndProbe \/ (\E id \in Collectors : SkipVisit(id))
  BY <1>5, RoundKeeps
<1>6. CASE \E id \in Collectors : ProbeLocal(id) \/ ProbeProxied(id)
  BY <1>6, ProbeLocalKeeps, ProbeProxiedKeeps
<1>7. CASE \E force \in {"all", "visible", "none"} : EngineTick(force)
  BY <1>7, EngineTickKeeps
<1>8. CASE \E id \in Collectors : SampleLocal(id) \/ SampleProxied(id)
  BY <1>8, SampleLocalKeeps, SampleProxiedKeeps
<1>9. CASE EndTick
  BY <1>9, EndTickKeeps
<1>10. CASE Environment
  BY <1>10, ReaderKeeps, AdvanceKeeps DEF Environment
<1>11. CASE UNCHANGED all
  <2>1. UNCHANGED <<tasks, proxy, slots, snapTime, history, completed, pendingIds>>
    BY <1>11 DEF all, vars, engine
  <2>2. /\ UNCHANGED <<stopped, closed, clock, phase, roundNow, toVisit>>
        /\ clock \in Nat /\ clock <= clock' /\ clock' \in Nat
    BY <1>11, SchedulerAssumption DEF all, vars, EngineInv, Tasks, TypeOK
  <2>3. /\ Readings'
        /\ \A id \in Collectors : tasks'[id].last_result = tasks[id].last_result
        /\ \A id \in Collectors : Deferred(id) => Deferred(id)'
    BY <2>1, <2>2, TasksKept
  <2>4. Tasks' /\ PendingKnown'
    BY <2>1, <2>2 DEF EngineInv, Tasks, TypeOK, PendingKnown
  <2>5. DOMAIN completed = {} \/ (phase' = "tick" /\ toVisit' \subseteq toVisit)
    BY <2>2 DEF EngineInv, Completion
  <2> QED BY <2>1, <2>2, <2>3, <2>4, <2>5, Quiet
<1> QED BY <1>1, <1>2, <1>3, <1>4, <1>5, <1>6, <1>7, <1>8, <1>9, <1>10, <1>11 DEF EngineNext

\* The invariant holds from the first tick of the engine to its stop.
THEOREM EngineInvariant == EngineSpec => []EngineInv
<1>1. EngineInit => EngineInv
  BY InitEngine
<1>2. EngineInv /\ [EngineNext]_all => EngineInv'
  BY NextEngine
<1> QED BY <1>1, <1>2, PTL DEF EngineSpec

\* A published value carries the time it was measured, which lies before the
\* last attempt and the snapshot, through every order of replies, failures,
\* deferrals and pauses (Snapshot.merge).
THEOREM ValuesHaveProvenance == EngineSpec => []Provenance
<1>1. EngineInv => Provenance
  BY DEF EngineInv, Slots, SlotOK, Provenance
<1> QED BY <1>1, EngineInvariant, PTL

\* Between ticks a slot is labelled current only after a success, or while a
\* read is under way whose poll is due by the end of the deferral.
THEOREM FreshnessEnds == EngineSpec => []FreshnessBounded
<1>1. EngineInv => FreshnessBounded
  <2> SUFFICES ASSUME EngineInv, phase = "idle", NEW id \in DOMAIN tasks,
                      slots[id].quality \in CURRENT_QUALITY,
                      tasks[id].last_result.status # "ok"
               PROVE  Deferred(id)
    BY DEF FreshnessBounded, Deferred
  <2>1. id \in Collectors /\ DOMAIN completed = {}
    BY DEF EngineInv, Tasks, Completion
  <2> QED BY <2>1 DEF EngineInv, Freshness
<1> QED BY <1>1, EngineInvariant, PTL

\* Between ticks pending_collectors holds exactly the collectors whose last
\* result left a read pending (has_pending_samples).
THEOREM PendingIsExact == EngineSpec => []PendingExact
<1>1. EngineInv => PendingExact
  BY DEF EngineInv, Tasks, Completion, PendingKnown, PendingExact
<1> QED BY <1>1, EngineInvariant, PTL

\* A number in a history stands at the time it was measured, in every history
\* of every capacity (_record_history, Ring:push).
THEOREM HistoriesAreHonest == EngineSpec => []HistoryHonest
<1>1. EngineInv => HistoryHonest
  <2> SUFFICES ASSUME EngineInv, NEW id \in Collectors, NEW i \in DOMAIN history[id]
               PROVE  history[id][i].value # NoTime => history[id][i].time = history[id][i].value
    BY DEF HistoryHonest
  <2>1. history[id] \in Seq(HonestPoint)
    BY DEF EngineInv, Histories
  <2>2. history[id][i] \in HonestPoint
    BY <2>1
  <2> QED BY <2>2 DEF HonestPoint
<1> QED BY <1>1, EngineInvariant, PTL

\* The engine sleeps until the first deadline and no longer, under its own
\* calls of the scheduler.
THEOREM EngineSleeps == EngineSpec => []SleepIsExact
<1>1. EngineInv => SleepIsExact
  BY TypedSleeps DEF EngineInv, Tasks
<1> QED BY <1>1, EngineInvariant, PTL

-----------------------------------------------------------------------------
(* The scheduler's promises under the engine's calls.  set_interval,        *)
(* set_active_tab and a forced tick each run several scheduler operations   *)
(* on every task in one step, with cadences, hints and results of the       *)
(* engine's own, so that Scheduler's theorems do not carry over: its        *)
(* inductive invariant is preserved by the engine's actions.                *)

\* A method that replaces any number of tasks by sound ones.
LEMMA MethodSound ==
    ASSUME IInv, ~stopped, phase = "idle", UNCHANGED <<stopped, closed, clock>>,
           DOMAIN tasks' = DOMAIN tasks, tasks' = [id \in DOMAIN tasks |-> tasks'[id]],
           \A id \in DOMAIN tasks : Sound(tasks'[id]),
           \/ phase' = "idle" /\ roundNow' = roundNow /\ toVisit' = toVisit
           \/ phase' = "tick" /\ roundNow' = clock /\ toVisit' = DOMAIN tasks
    PROVE  IInv'
<1>1. \A id \in DOMAIN tasks' : tasks'[id] \in Task
  BY DEF Sound
<1>2. TypeOK'
  <2>1. tasks' \in [DOMAIN tasks' -> Task]
    BY <1>1
  <2>2. clock \in 0..clock
    BY SchedulerAssumption DEF IInv, TypeOK
  <2> QED BY <2>1, <2>2 DEF IInv, TypeOK
<1>3. DueBounded' /\ HonestResult'
  BY DEF DueBounded, HonestResult, Sound
<1>4. VisitedNotDue' /\ StopClosesAll'
  BY DEF VisitedNotDue, StopClosesAll
<1> QED BY <1>2, <1>3, <1>4 DEF IInv

\* A deadline brought to now, or to zero, keeps a task sound.
LEMMA DueSound ==
    ASSUME TypeOK, NEW task, Sound(task), NEW due \in {0, clock}
    PROVE  Sound([task EXCEPT !.next_due_ns = due])
<1> DEFINE after == [task EXCEPT !.next_due_ns = due]
<1>1. task \in Task /\ due \in 0..MaxInteger /\ clock \in Nat /\ due <= clock
  BY SchedulerAssumption DEF Sound, TypeOK
<1>2. /\ after \in Task /\ after.next_due_ns = due
      /\ after.failures = task.failures /\ after.last_result = task.last_result
  BY <1>1 DEF Task
<1> HIDE DEF after
<1>3. due <= clock + Reach(after)
  BY <1>1, <1>2, ReachType
<1>4. Sound(after)
  BY <1>2, <1>3, Reshaped
<1> QED BY <1>4 DEF after

\* set_interval: both cadences of every collector, one after the other.
LEMMA ChangeIntervalSound ==
    ASSUME IInv, NEW ms \in Intervals, ChangeInterval(ms), DOMAIN tasks = Collectors
    PROVE  IInv' /\ PendingNotPostponedStep
<1> DEFINE New(id) == WithBackgroundInterval(WithInterval(tasks[id], Foreground(id, ms)),
                                             Background(id, ms))
<1>1. /\ UNCHANGED <<clock, stopped, closed, phase, roundNow, toVisit>>
      /\ ~stopped /\ phase = "idle" /\ ms \in 1..MaxInterval
      /\ tasks' = [id \in DOMAIN tasks |-> New(id)] /\ TypeOK
  BY DEF ChangeInterval, Idle, engine, round, ValidInterval, IInv
<1>2. ASSUME NEW id \in DOMAIN tasks PROVE Sound(New(id)) /\ KeptTask(tasks[id], New(id))
  <2>1. Foreground(id, ms) \in 1..MaxInterval /\ Background(id, ms) \in 0..MaxInterval
    BY <1>1, EngineAssumption, SchedulerAssumption DEF Foreground, Background, MaxOf, Nil
  <2>2. PICK mid : mid = WithInterval(tasks[id], Foreground(id, ms))
    OBVIOUS
  <2>3. Sound(tasks[id]) /\ tasks[id] \in Task
    BY SoundTasks DEF Sound
  <2>4. Sound(mid) /\ mid \in Task /\ KeptTask(tasks[id], mid)
    BY <1>1, <2>1, <2>2, <2>3, IntervalSound, IntervalKept DEF Sound
  <2>5. Sound(New(id)) /\ KeptTask(mid, New(id))
    BY <1>1, <2>1, <2>2, <2>4, BackgroundSound, BackgroundKept
  <2> QED BY <1>1, <2>3, <2>4, <2>5, KeptTwice
<1> HIDE DEF New
<1>3. /\ DOMAIN tasks' = DOMAIN tasks /\ tasks' = [id \in DOMAIN tasks |-> tasks'[id]]
      /\ \A id \in DOMAIN tasks : tasks'[id] = New(id)
  BY <1>1
<1>4. PendingNotPostponedStep
  BY <1>2, <1>3 DEF PendingNotPostponedStep, KeptTask
<1> QED BY <1>1, <1>2, <1>3, <1>4, MethodSound

\* set_active_tab: the visibility of every collector, then the detail scans.
LEMMA ActivateTabSound ==
    ASSUME IInv, NEW visible, NEW scans, ActivateTab(visible, scans)
    PROVE  IInv' /\ PendingNotPostponedStep
<1> DEFINE Shown(id) == WithVisible(tasks[id], id \in visible)
           New(id) == IF id \in scans \ scanning
                      THEN [Shown(id) EXCEPT !.next_due_ns = clock] ELSE Shown(id)
<1>1. /\ UNCHANGED <<clock, stopped, closed, phase, roundNow, toVisit>>
      /\ ~stopped /\ phase = "idle"
      /\ tasks' = [id \in DOMAIN tasks |-> New(id)] /\ TypeOK
  BY DEF ActivateTab, Idle, round, IInv
<1>2. ASSUME NEW id \in DOMAIN tasks PROVE Sound(New(id)) /\ KeptTask(tasks[id], New(id))
  <2>1. PICK mid : mid = Shown(id)
    OBVIOUS
  <2>2. Sound(tasks[id]) /\ tasks[id] \in Task
    BY SoundTasks DEF Sound
  <2>3. Sound(mid) /\ mid \in Task /\ KeptTask(tasks[id], mid)
    <3>1. (id \in visible) \in BOOLEAN
      OBVIOUS
    <3> QED BY <1>1, <2>1, <2>2, <3>1, VisibleSound, VisibleKept DEF Sound
  <2>4. /\ Sound([mid EXCEPT !.next_due_ns = clock])
        /\ KeptTask(mid, [mid EXCEPT !.next_due_ns = clock])
    <3>1. clock \in 0..MaxInteger /\ clock <= MaxOf(mid.next_due_ns, clock)
      BY <1>1, <2>3, SchedulerAssumption DEF TypeOK, Task, MaxOf
    <3> QED BY <1>1, <2>3, <3>1, DueSound, Retimed
  <2>5. New(id) = IF id \in scans \ scanning THEN [mid EXCEPT !.next_due_ns = clock] ELSE mid
    BY <2>1
  <2> QED BY <1>1, <2>2, <2>3, <2>4, <2>5, KeptTwice
<1> HIDE DEF New
<1>3. /\ DOMAIN tasks' = DOMAIN tasks /\ tasks' = [id \in DOMAIN tasks |-> tasks'[id]]
      /\ \A id \in DOMAIN tasks : tasks'[id] = New(id)
  BY <1>1
<1>4. PendingNotPostponedStep
  BY <1>2, <1>3 DEF PendingNotPostponedStep, KeptTask
<1> QED BY <1>1, <1>2, <1>3, <1>4, MethodSound

\* tick(force): the forced collectors become due, then the round begins.
LEMMA EngineTickSound ==
    ASSUME IInv, NEW force, EngineTick(force)
    PROVE  IInv' /\ PendingNotPostponedStep
<1> DEFINE New(id) == IF id \in ForcedIds(force) THEN [tasks[id] EXCEPT !.next_due_ns = 0]
                      ELSE tasks[id]
<1>1. /\ UNCHANGED <<clock, stopped, closed>> /\ ~stopped /\ phase = "idle"
      /\ phase' = "tick" /\ roundNow' = clock /\ toVisit' = DOMAIN tasks
      /\ tasks' = [id \in DOMAIN tasks |-> New(id)] /\ TypeOK
  BY DEF EngineTick, Idle, engine, IInv
<1>2. ASSUME NEW id \in DOMAIN tasks
      PROVE  Sound(New(id)) /\ New(id).next_due_ns <= MaxOf(tasks[id].next_due_ns, clock)
  <2>1. Sound(tasks[id]) /\ tasks[id] \in Task
    BY SoundTasks DEF Sound
  <2>2. tasks[id].next_due_ns \in Nat /\ clock \in Nat
    BY <1>1, <2>1, SchedulerAssumption DEF Task, TypeOK
  <2>3. /\ Sound([tasks[id] EXCEPT !.next_due_ns = 0])
        /\ [tasks[id] EXCEPT !.next_due_ns = 0].next_due_ns = 0
    BY <1>1, <2>1, DueSound DEF Task
  <2> QED BY <2>1, <2>2, <2>3 DEF MaxOf
<1> HIDE DEF New
<1>3. /\ DOMAIN tasks' = DOMAIN tasks /\ tasks' = [id \in DOMAIN tasks |-> tasks'[id]]
      /\ \A id \in DOMAIN tasks : tasks'[id] = New(id)
  BY <1>1
<1>4. PendingNotPostponedStep
  BY <1>2, <1>3 DEF PendingNotPostponedStep
<1> QED BY <1>1, <1>2, <1>3, <1>4, MethodSound

\* Whatever a local collector or a proxy hands the scheduler is a result it
\* takes: a pending flag and a retry hint.
LEMMA SampleSound ==
    ASSUME IInv, NEW id \in Collectors, SampleLocal(id) \/ SampleProxied(id)
    PROVE  IInv' /\ PendingNotPostponedStep
<1>1. PICK r : TickSample(id, r) /\ r.sampling_pending \in BOOLEAN /\ r.retry \in Nat
  <2>1. CASE SampleLocal(id)
    <3>1. PICK r, status, quality, data :
            /\ r = Result(status, quality, FALSE, Nil, data, NoTime, clock, FALSE)
            /\ TickSample(id, r)
      BY <2>1 DEF SampleLocal
    <3>2. r.sampling_pending \in BOOLEAN
      BY <3>1 DEF Result
    <3>3. r.retry = 0
      BY <3>1 DEF Result, Nil
    <3>4. TickSample(id, r)
      BY <3>1
    <3>5. r.retry \in Nat
      BY <3>3
    <3> QED BY <3>2, <3>4, <3>5, Zenon
  <2>2. CASE SampleProxied(id)
    <3>1. PICK r \in ProxyResults(id) : TickSample(id, r)
      BY <2>2 DEF SampleProxied
    <3>2. /\ RetryMs \in Nat /\ PollMs \in Nat
          /\ \A reply : /\ ReplyResult(reply).sampling_pending \in BOOLEAN
                       /\ ReplyResult(reply).retry = 0
          /\ FailedResult.sampling_pending \in BOOLEAN /\ FailedResult.retry = RetryMs
          /\ \A since : /\ PendingResult(since).sampling_pending \in BOOLEAN
                       /\ PendingResult(since).retry = PollMs
      BY ProxyAssumption, SchedulerAssumption
      DEF ReplyResult, FailedResult, PendingResult, Result
    <3>3. r.sampling_pending \in BOOLEAN /\ r.retry \in Nat
      <4>1. \/ \E reply : r = ReplyResult(reply)
            \/ r = FailedResult
            \/ r = PendingResult(Since(id))
        BY <3>1 DEF ProxyResults
      <4> QED BY <3>2, <4>1
    <3> QED BY <3>1, <3>3
  <2> QED BY <2>1, <2>2
<1> QED BY <1>1, TickSampleKeeps, TickSampleRespectsPending DEF IInv

\* Every step of the engine, for the tasks, is one of the scheduler's own or
\* one of the above.
LEMMA EngineStepSound ==
    ASSUME IInv, DOMAIN tasks = Collectors, [EngineNext]_all
    PROVE  IInv' /\ [PendingNotPostponedStep]_vars
<1> USE DEF IInv
<1>0. ASSUME [Next]_vars PROVE IInv' /\ [PendingNotPostponedStep]_vars
  BY <1>0, NextKeeps, StepRespectsPending
<1>1. CASE \E p \in BOOLEAN : SetPaused(p)
  BY <1>0, <1>1 DEF SetPaused
<1>2. CASE \E ms \in Intervals : ChangeInterval(ms)
  BY <1>2, ChangeIntervalSound
<1>3. CASE \E visible \in SUBSET Collectors, scans \in SUBSET Detail : ActivateTab(visible, scans)
  BY <1>3, ActivateTabSound
<1>4. CASE EngineStop \/ EngineProbeStart \/ EndTick \/ EndProbe
           \/ (\E id \in Collectors : SkipVisit(id))
  BY <1>0, <1>4 DEF EngineStop, EngineProbeStart, EndTick, EndProbe, SkipVisit, Next
<1>5. CASE \E id \in Collectors : ProbeLocal(id) \/ ProbeProxied(id)
  <2>1. PICK id \in Collectors, p \in BOOLEAN, r \in {Nil, PollMs} : ProbeVisit(id, p, r)
    BY <1>5 DEF ProbeLocal, ProbeProxied
  <2> QED BY <2>1, ProbeVisitKeeps, ProbeVisitRespectsPending
<1>6. CASE \E force \in {"all", "visible", "none"} : EngineTick(force)
  BY <1>6, EngineTickSound
<1>7. CASE \E id \in Collectors : SampleLocal(id) \/ SampleProxied(id)
  BY <1>7, SampleSound
<1>8. CASE Environment
  BY <1>0, <1>8 DEF Environment, Next
<1>9. CASE UNCHANGED all
  BY <1>0, <1>9 DEF all
<1> QED BY <1>1, <1>2, <1>3, <1>4, <1>5, <1>6, <1>7, <1>8, <1>9 DEF EngineNext

LEMMA InitSound ==
    ASSUME EngineInit
    PROVE  IInv
<1>1. TypeOK /\ tasks \in [Collectors -> Task]
  BY InitEngine DEF EngineInv, Tasks, TypeOK
<1>2. /\ \A id \in DOMAIN tasks :
            /\ tasks[id].next_due_ns = 0 /\ tasks[id].failures = 0
            /\ tasks[id].last_result = NoResult
      /\ phase = "idle" /\ clock = 0 /\ stopped = FALSE
  BY DEF EngineInit
<1>3. DueBounded
  BY <1>1, <1>2, ReachType DEF DueBounded
<1>4. HonestResult
  BY <1>2 DEF HonestResult, NoResult, CURRENT_QUALITY
<1> QED BY <1>1, <1>2, <1>3, <1>4 DEF IInv, VisitedNotDue, StopClosesAll

LEMMA SchedulerInEngine == EngineSpec => []IInv
<1>1. EngineInit => IInv
  BY InitSound
<1>2. EngineInv /\ IInv /\ [EngineNext]_all => IInv'
  BY EngineStepSound DEF EngineInv, Tasks
<1> QED BY <1>1, <1>2, EngineInvariant, PTL DEF EngineSpec

\* Driven by the engine, with its floors, background cadences, detail scans,
\* forced ticks and the proxies' retry hints, the scheduler still starves no
\* collector, moves on from every collector a tick has visited, stores honest
\* verdicts, and closes every collector when it stops.
THEOREM EngineKeepsSchedule ==
    EngineSpec => [](DueBounded /\ VisitedNotDue /\ HonestResult /\ StopClosesAll)
<1>1. IInv => DueBounded /\ VisitedNotDue /\ HonestResult /\ StopClosesAll
  BY DEF IInv
<1> QED BY <1>1, SchedulerInEngine, PTL

\* No call of the engine postpones the poll of a pending read: a tab change,
\* an interval change and a forced tick only bring it forward.
THEOREM EngineDoesNotPostpone == EngineSpec => PendingNotPostponed
<1>1. IInv /\ EngineInv /\ [EngineNext]_all => [PendingNotPostponedStep]_vars
  BY EngineStepSound DEF EngineInv, Tasks
<1> QED BY <1>1, SchedulerInEngine, EngineInvariant, PTL DEF EngineSpec, PendingNotPostponed

-----------------------------------------------------------------------------
(* The numbers of a history.                                                *)

\* The numbers of a sequence of points rise, none beyond a bound.
Rising(points, bound) ==
    /\ \A i, j \in DOMAIN points :
           i < j /\ points[i].value # NoTime /\ points[j].value # NoTime
               => points[i].value <= points[j].value
    /\ \A i \in DOMAIN points : points[i].value <= bound

OnItsWay(id) == request[id] \in {"sent", "answered"}

\* Every value of a collector comes after those that went further: history,
\* slot, result of the present tick or probe's reply, reading on its way.
InOrder(id) ==
    /\ Rising(history[id], slots[id].value)
    /\ id \in Proxied /\ OnItsWay(id) =>
         /\ slots[id].value <= observed[id]
         /\ ready[id] # NoReply => ready[id].observed <= observed[id]
    /\ id \in DOMAIN completed /\ completed[id].status = "ok" =>
         /\ slots[id].value <= completed[id].data
         /\ id \in Proxied /\ OnItsWay(id) => completed[id].data <= observed[id]

Ordering == \A id \in Collectors : InOrder(id)

\* A reading that leaves, and a reply that is dropped, disturb nothing.
LEMMA OrderLeft ==
    ASSUME Ordering, UNCHANGED <<slots, history, completed, observed>>,
           \A k \in Proxied : OnItsWay(k)' =>
               OnItsWay(k) /\ (ready'[k] = ready[k] \/ ready'[k] = NoReply)
    PROVE  Ordering'
<1>1. ASSUME NEW id \in Collectors PROVE InOrder(id)'
  <2>1. InOrder(id)
    BY DEF Ordering
  <2>2. Rising(history[id], slots[id].value)'
    BY <2>1 DEF InOrder, Rising
  <2>3. id \in Proxied /\ OnItsWay(id)' =>
          /\ slots[id].value <= observed[id]
          /\ ready'[id] # NoReply => ready'[id].observed <= observed[id]
    BY <2>1 DEF InOrder
  <2>4. id \in DOMAIN completed /\ completed[id].status = "ok" =>
          /\ slots[id].value <= completed[id].data
          /\ id \in Proxied /\ OnItsWay(id)' => completed[id].data <= observed[id]
    BY <2>1 DEF InOrder
  <2> QED BY <2>2, <2>3, <2>4 DEF InOrder
<1> QED BY <1>1 DEF Ordering

LEMMA OrderKept ==
    ASSUME Ordering, UNCHANGED <<slots, history, completed, proxy>>
    PROVE  Ordering'
<1>1. UNCHANGED <<request, observed, ready>>
  BY DEF proxy
<1> QED BY <1>1, OrderLeft DEF OnItsWay

\* A poll takes a reading away or leaves it where it is.
LEMMA PollLeaves ==
    ASSUME EngineInv, NEW id \in Proxied, Polls(id)
    PROVE  /\ \A k \in Proxied : OnItsWay(k)' => OnItsWay(k)
           /\ PollFindsReply(id) => ~OnItsWay(id)'
<1>1. request \in [Proxied -> {"idle", "reading", "sent", "answered", "failed"}]
  BY DEF EngineInv, Readings
<1>2. request' = request \/ (\E w \in {"idle", "reading"} : request' = [request EXCEPT ![id] = w])
  BY DEF Polls, PollFindsReply, PollFindsError, PollThrows, PollFindsPending, Asks, Settles
<1>3. PollFindsReply(id) => request'[id] = "idle"
  BY <1>1 DEF PollFindsReply, Settles
<1> QED BY <1>1, <1>2, <1>3 DEF OnItsWay

LEMMA ProbeProxiedOrder ==
    ASSUME EngineInv, Ordering, NEW id \in Collectors, ProbeProxied(id)
    PROVE  Ordering'
<1>1. PICK p \in BOOLEAN : ProxyProbe(id, p)
  BY DEF ProbeProxied
<1>2. id \in Proxied /\ UNCHANGED <<slots, history, completed, observed>> /\ Polls(id)
  BY <1>1 DEF ProbeProxied, ProxyProbe, Polls, engine
<1>3. /\ \A k \in Proxied : OnItsWay(k)' => OnItsWay(k)
      /\ PollFindsReply(id) => ~OnItsWay(id)'
  BY <1>2, PollLeaves
<1>4. \A k \in Proxied : OnItsWay(k)' => ready'[k] = ready[k]
  <2>1. DOMAIN ready = Proxied
    BY DEF EngineInv, Readings
  <2>2. \/ ready' = ready
        \/ ~OnItsWay(id)' /\ \E reply : ready' = [ready EXCEPT ![id] = reply]
    BY <1>1, <1>3 DEF ProxyProbe
  <2> QED BY <2>1, <2>2
<1> QED BY <1>2, <1>3, <1>4, OrderLeft

LEMMA StopOrder ==
    ASSUME Ordering, EngineStop
    PROVE  Ordering'
<1>1. /\ UNCHANGED <<slots, history, completed, observed>>
      /\ request' = [id \in Proxied |-> "idle"]
  BY DEF EngineStop, ProxyClose
<1> QED BY <1>1, OrderLeft DEF OnItsWay

\* A new reading comes after everything: it is measured now.
LEMMA ReaderOrder ==
    ASSUME EngineInv, Ordering, NEW id \in Proxied, ReaderStep(id), UNCHANGED <<vars, engine>>
    PROVE  Ordering'
<1>1. /\ UNCHANGED <<slots, history, completed, ready>>
      /\ id \in Collectors /\ clock \in Nat /\ slots[id].value <= clock
      /\ request \in [Proxied -> {"idle", "reading", "sent", "answered", "failed"}]
      /\ observed \in [Proxied -> Times]
  BY SlotBefore, ProxyAssumption
  DEF engine, ReaderStep, ReaderMeasures, ReplyArrives, ReaderFails, EngineInv, Readings, Slots, SlotOK
<1>2. CASE ReplyArrives(id) \/ ReaderFails(id)
  <2>1. /\ observed' = observed
        /\ \A k \in Proxied : OnItsWay(k)' => OnItsWay(k)
    BY <1>1, <1>2 DEF ReplyArrives, ReaderFails, OnItsWay
  <2> QED BY <1>1, <2>1, OrderLeft
<1>3. CASE ReaderMeasures(id)
  <2>1. /\ request' = [request EXCEPT ![id] = "sent"] /\ observed' = [observed EXCEPT ![id] = clock]
    BY <1>3 DEF ReaderMeasures
  <2>2. ASSUME NEW k \in Collectors PROVE InOrder(k)'
    <3>1. InOrder(k) /\ Rising(history[k], slots[k].value)'
      BY <1>1 DEF Ordering, InOrder, Rising
    <3>2. CASE k # id
      <4>1. k \in Proxied => /\ request'[k] = request[k] /\ observed'[k] = observed[k]
                             /\ ready'[k] = ready[k]
        BY <1>1, <2>1, <3>2
      <4>2. /\ k \in Proxied /\ OnItsWay(k)' =>
                 /\ slots'[k].value <= observed'[k]
                 /\ ready'[k] # NoReply => ready'[k].observed <= observed'[k]
            /\ k \in DOMAIN completed' /\ completed'[k].status = "ok" =>
                 /\ slots'[k].value <= completed'[k].data
                 /\ k \in Proxied /\ OnItsWay(k)' => completed'[k].data <= observed'[k]
        BY <1>1, <3>1, <4>1 DEF InOrder, OnItsWay
      <4> QED BY <3>1, <4>2 DEF InOrder
    <3>3. CASE k = id
      <4>1. observed'[k] = clock
        BY <1>1, <2>1, <3>3
      <4>2. ready[k] # NoReply => ready[k].observed <= clock
        BY <1>1, <3>3 DEF EngineInv, Readings, Reading, Waiting
      <4>3. k \in DOMAIN completed /\ completed[k].status = "ok" => completed[k].data <= clock
        <5>1. k \in DOMAIN completed => ResultOK(k)
          BY DEF EngineInv, Completion
        <5> QED BY <1>1, <5>1 DEF ResultOK, ResultRecord, Times, NoTime
      <4>4. k \in DOMAIN completed /\ completed[k].status = "ok" =>
              slots[k].value <= completed[k].data
        BY <3>1 DEF InOrder
      <4> QED BY <1>1, <3>1, <3>3, <4>1, <4>2, <4>3, <4>4 DEF InOrder
    <3> QED BY <3>2, <3>3
  <2> QED BY <2>2 DEF Ordering
<1> QED BY <1>2, <1>3 DEF ReaderStep

\* A result of the present tick comes after what the slot shows and before the
\* reading that is on its way.
LEMMA SampleOrder ==
    ASSUME EngineInv, Ordering, NEW id \in Collectors, NEW r, Complete(id, r),
           UNCHANGED <<slots, history, observed>>,
           \A k \in Proxied : OnItsWay(k)' =>
               OnItsWay(k) /\ (ready'[k] = ready[k] \/ ready'[k] = NoReply),
           Completed(r).status = "ok" =>
               /\ slots[id].value <= Completed(r).data
               /\ id \in Proxied /\ OnItsWay(id)' => Completed(r).data <= observed[id]
    PROVE  Ordering'
<1>1. /\ DOMAIN completed' = DOMAIN completed \cup {id}
      /\ completed'[id] = Completed(r)
      /\ \A k \in DOMAIN completed \ {id} : completed'[k] = completed[k]
  BY DEF Complete
<1>2. ASSUME NEW k \in Collectors PROVE InOrder(k)'
  <2>1. InOrder(k)
    BY DEF Ordering
  <2>2. Rising(history[k], slots[k].value)'
    BY <2>1 DEF InOrder, Rising
  <2>3. k \in Proxied /\ OnItsWay(k)' =>
          /\ slots[k].value <= observed[k]
          /\ ready'[k] # NoReply => ready'[k].observed <= observed[k]
    BY <2>1 DEF InOrder
  <2>4. k \in DOMAIN completed' /\ completed'[k].status = "ok" =>
          /\ slots[k].value <= completed'[k].data
          /\ k \in Proxied /\ OnItsWay(k)' => completed'[k].data <= observed[k]
    BY <1>1, <2>1 DEF InOrder
  <2> QED BY <2>2, <2>3, <2>4 DEF InOrder
<1> QED BY <1>2 DEF Ordering

LEMMA SampleLocalOrder ==
    ASSUME EngineInv, Ordering, NEW id \in Collectors, SampleLocal(id)
    PROVE  Ordering'
<1>1. PICK status \in RawStatuses, quality \in RawQualities :
        LET r == Result(status, quality, FALSE, Nil, IF status = "ok" THEN clock ELSE NoTime,
                        NoTime, clock, FALSE)
        IN  TickSample(id, r) /\ Complete(id, r)
  BY DEF SampleLocal
<1>2. PICK data : data = IF status = "ok" THEN clock ELSE NoTime
  OBVIOUS
<1>3. PICK r : r = Result(status, quality, FALSE, Nil, data, NoTime, clock, FALSE)
  OBVIOUS
<1>4. Complete(id, r)
  BY <1>1, <1>2, <1>3
<1>5. /\ id \notin Proxied /\ UNCHANGED <<request, ready, slots, history, observed>>
  BY DEF SampleLocal, proxy
<1>6. clock \in Nat /\ slots[id].value <= clock
  BY SlotBefore DEF EngineInv, Slots, SlotOK
<1>7. data \in Times /\ NoTime \in Times
  BY <1>2, <1>6 DEF Times
<1>8. (Completed(r).status = "ok" => status = "ok") /\ Completed(r).data = data
  <2>1. PICK pending \in BOOLEAN, retry \in Nat, defer \in BOOLEAN :
          pending = FALSE /\ retry = Nil /\ defer = FALSE
    BY DEF Nil
  <2>2. r = Result(status, quality, pending, retry, data, NoTime, clock, defer)
    BY <1>3, <2>1
  <2> QED BY <1>6, <1>7, <2>2, CompletedIs
<1>9. Completed(r).status = "ok" => slots[id].value <= Completed(r).data
  BY <1>2, <1>6, <1>8
<1> QED BY <1>4, <1>5, <1>9, SampleOrder DEF OnItsWay

LEMMA SampleProxiedOrder ==
    ASSUME EngineInv, Ordering, NEW id \in Collectors, SampleProxied(id)
    PROVE  Ordering'
<1>1. PICK r \in ProxyResults(id) : ProxySample(id, r) /\ Complete(id, r)
  BY DEF SampleProxied
<1>2. id \in Proxied /\ UNCHANGED <<slots, history, observed>>
  BY <1>1 DEF SampleProxied, ProxySample
<1>3. /\ clock \in Nat /\ slots[id].value <= clock /\ slots[id].value \in Times
      /\ NoTime \in Times /\ Since(id) \in Times
      /\ Measured(id) /\ Waiting(id) /\ observed[id] \in Times
      /\ RetryMs \in Nat /\ PollMs \in Nat /\ DOMAIN ready = Proxied /\ InOrder(id)
      /\ tasks[id].last_result = NoResult => slots[id] = EmptySlot
  BY <1>2, SlotBefore, ProxyAssumption
  DEF Times, EngineInv, Readings, Reading, Measured, Slots, SlotRecord, SlotOK, Since, Ordering
<1> DEFINE Fits ==
      /\ \A k \in Proxied : OnItsWay(k)' =>
             OnItsWay(k) /\ (ready'[k] = ready[k] \/ ready'[k] = NoReply)
      /\ Completed(r).status = "ok" =>
             /\ slots[id].value <= Completed(r).data
             /\ id \in Proxied /\ OnItsWay(id)' => Completed(r).data <= observed[id]
<1>4. ASSUME NEW reply, r = ReplyResult(reply), reply.received \in Nat, reply.observed \in Nat
      PROVE  Completed(r).status = "ok" => Completed(r).data = reply.observed
  <2>1. PICK data : data = IF reply.status = "ok" THEN reply.observed ELSE NoTime
    OBVIOUS
  <2>2. PICK quality : quality = IF reply.status = "ok" THEN "fresh" ELSE reply.status
    OBVIOUS
  <2>3. PICK pending \in BOOLEAN, retry \in Nat, defer \in BOOLEAN :
          pending = FALSE /\ retry = 0 /\ defer = FALSE
    OBVIOUS
  <2>4. r = Result(reply.status, quality, pending, retry, data, reply.observed,
                   reply.received, defer)
    BY <1>4, <2>1, <2>2, <2>3 DEF ReplyResult
  <2>5. data \in Times /\ reply.observed \in Times
    BY <1>3, <1>4, <2>1 DEF Times
  <2>6. /\ Completed(r).status = "ok" => reply.status = "ok"
        /\ Completed(r).data = data
    BY <1>4, <2>4, <2>5, CompletedIs
  <2> QED BY <2>1, <2>6
<1>5. ASSUME TakesReady(id) PROVE Fits
  <2>1. /\ r = ReplyResult(ready[id]) /\ ready' = [ready EXCEPT ![id] = NoReply]
        /\ UNCHANGED request
    BY <1>1, <1>5 DEF ProxySample
  <2>2. /\ ready[id] # NoReply /\ ready[id].received \in Nat /\ ready[id].observed \in Nat
        /\ slots[id].value = NoTime
    BY <1>3, <1>5 DEF TakesReady, Waiting, EmptySlot
  <2>3. Completed(r).status = "ok" => Completed(r).data = ready[id].observed
    BY <1>4, <2>1, <2>2
  <2>4. OnItsWay(id) => ready[id].observed <= observed[id]
    BY <1>2, <1>3, <2>2 DEF InOrder
  <2>5. \A k \in Proxied : ready'[k] = ready[k] \/ ready'[k] = NoReply
    BY <1>3, <2>1
  <2> QED BY <2>1, <2>2, <2>3, <2>4, <2>5 DEF OnItsWay, NoTime
<1>6. ASSUME ~TakesReady(id) PROVE Fits
  <2>1. ready' = ready /\ Polls(id)
    BY <1>1, <1>6 DEF ProxySample, Polls
  <2>2. /\ \A k \in Proxied : OnItsWay(k)' => OnItsWay(k)
        /\ PollFindsReply(id) => ~OnItsWay(id)'
    BY <1>2, <2>1, PollLeaves
  <2>3. CASE PollFindsReply(id) /\ \E status \in ReplyStatuses : r = ReplyResult(Reply(id, status))
    <3>1. PICK status \in ReplyStatuses : r = ReplyResult(Reply(id, status))
      BY <2>3
    <3>2. OnItsWay(id) /\ observed[id] \in Nat
      BY <1>2, <1>3, <2>3 DEF Measured, PollFindsReply, Times, OnItsWay
    <3>3. Reply(id, status).received \in Nat /\ Reply(id, status).observed = observed[id]
      BY <1>3 DEF Reply
    <3>4. Completed(r).status = "ok" => Completed(r).data = observed[id]
      BY <1>4, <3>1, <3>2, <3>3
    <3>5. slots[id].value <= observed[id]
      BY <1>2, <1>3, <3>2 DEF InOrder
    <3> QED BY <2>1, <2>2, <2>3, <3>4, <3>5
  <2>4. CASE r = FailedResult \/ r = PendingResult(Since(id))
    <3>1. PICK pending \in BOOLEAN, retry \in Nat, defer \in BOOLEAN :
            r = Result("error", "stale", pending, retry, NoTime, NoTime, clock, defer)
      <4>1. CASE r = FailedResult
        BY <1>3, <4>1 DEF FailedResult
      <4>2. CASE r = PendingResult(Since(id))
        <5>1. StillPrompt(Since(id)) \in BOOLEAN
          BY DEF StillPrompt
        <5> QED BY <1>3, <4>2, <5>1, Zenon DEF PendingResult
      <4> QED BY <2>4, <4>1, <4>2
    <3>2. Completed(r).status # "ok"
      BY <1>3, <3>1, CompletedIs
    <3> QED BY <2>1, <2>2, <3>2
  <2> QED BY <1>1, <1>6, <2>3, <2>4 DEF ProxySample
<1>7. Fits
  BY <1>5, <1>6
<1> QED BY <1>1, <1>2, <1>7, SampleOrder

\* A ring that takes a point no older than its numbers still rises.
LEMMA PushedRises ==
    ASSUME NEW points \in Seq(HonestPoint), NEW bound \in Times, Rising(points, bound),
           NEW point \in HonestPoint, NEW last \in Times, bound <= last,
           point.value = NoTime \/ point.value = last
    PROVE  Rising(Pushed(points, point), last)
<1>1. \A p \in HonestPoint : p.value \in Int
  BY DEF HonestPoint, Times, NoTime
<1>2. /\ bound \in Int /\ last \in Int /\ NoTime \in Int /\ NoTime <= last
      /\ point.value <= last /\ point.value \in Int
  BY <1>1 DEF Times, NoTime
<1>3. ASSUME NEW old \in Seq(HonestPoint), Rising(old, bound)
      PROVE  Rising(Append(old, point), last)
  <2>1. /\ Len(old) \in Nat /\ DOMAIN old = 1..Len(old)
        /\ \A i \in DOMAIN old : old[i] \in HonestPoint /\ old[i].value \in Int
    BY <1>1
  <2>2. /\ DOMAIN Append(old, point) = 1..(Len(old) + 1)
        /\ \A i \in 1..Len(old) : Append(old, point)[i] = old[i]
        /\ Append(old, point)[Len(old) + 1] = point
    BY <2>1, AppendProperties
  <2>3. \A i \in DOMAIN old : old[i].value <= last
    BY <1>2, <1>3, <2>1 DEF Rising
  <2>4. ASSUME NEW i \in DOMAIN Append(old, point)
        PROVE  i = Len(old) + 1 \/ i \in DOMAIN old
    BY <2>1, <2>2
  <2>5. ASSUME NEW i \in DOMAIN Append(old, point), NEW j \in DOMAIN Append(old, point), i < j,
               Append(old, point)[i].value # NoTime, Append(old, point)[j].value # NoTime
        PROVE  Append(old, point)[i].value <= Append(old, point)[j].value
    <3>1. i \in DOMAIN old
      BY <2>1, <2>2, <2>5
    <3>2. CASE j \in DOMAIN old
      BY <1>3, <2>1, <2>2, <2>5, <3>1, <3>2 DEF Rising
    <3>3. CASE j = Len(old) + 1
      BY <2>1, <2>2, <2>3, <2>5, <3>1, <3>3
    <3> QED BY <2>4, <3>2, <3>3
  <2>6. \A i \in DOMAIN Append(old, point) : Append(old, point)[i].value <= last
    BY <1>2, <2>1, <2>2, <2>3, <2>4
  <2> QED BY <2>5, <2>6 DEF Rising
<1>4. CASE Len(points) < HistoryCapacity
  BY <1>3, <1>4 DEF Pushed
<1>5. CASE ~(Len(points) < HistoryCapacity)
  <2>1. points # <<>>
    BY <1>5, EngineAssumption
  <2>2. /\ Len(points) \in Nat \ {0} /\ DOMAIN points = 1..Len(points)
        /\ Tail(points) \in Seq(HonestPoint) /\ Len(Tail(points)) = Len(points) - 1
        /\ \A i \in 1..Len(Tail(points)) : Tail(points)[i] = points[i + 1]
    BY <2>1, HeadTailProperties, EmptySeq
  <2>3. DOMAIN Tail(points) = 1..(Len(points) - 1)
    BY <2>2
  <2>4. Rising(Tail(points), bound)
    <3>1. \A i \in DOMAIN Tail(points) : /\ i + 1 \in DOMAIN points /\ i \in Int
                                         /\ Tail(points)[i] = points[i + 1]
      BY <2>2, <2>3
    <3>2. ASSUME NEW i \in DOMAIN Tail(points), NEW j \in DOMAIN Tail(points), i < j
          PROVE  i + 1 < j + 1
      BY <3>1, <3>2
    <3> QED BY <3>1, <3>2 DEF Rising
  <2> QED BY <1>3, <1>5, <2>2, <2>4 DEF Pushed
<1> QED BY <1>4, <1>5

LEMMA EndTickOrder ==
    ASSUME EngineInv, Ordering, EndTick
    PROVE  Ordering'
<1>1. PICK published : published = {id \in DOMAIN completed : ~completed[id].defer}
  OBVIOUS
<1>2. PICK merged : merged = [id \in Collectors |->
                                IF id \in published THEN Merged(slots[id], completed[id], clock)
                                ELSE slots[id]]
  OBVIOUS
<1>3. /\ slots' = merged
      /\ history' = [id \in Collectors |->
                       IF id \in published
                       THEN Pushed(history[id], Point(merged[id], completed[id], clock))
                       ELSE history[id]]
      /\ completed' = NothingCompleted
      /\ UNCHANGED <<request, observed, ready>>
      /\ clock \in Nat
  BY <1>1, <1>2, SchedulerAssumption DEF EndTick, proxy, EngineInv, Tasks, TypeOK
<1>4. DOMAIN completed' = {}
  BY <1>3 DEF NothingCompleted
<1>5. ASSUME NEW id \in Collectors, id \notin published PROVE InOrder(id)'
  <2>1. slots'[id] = slots[id] /\ history'[id] = history[id]
    BY <1>2, <1>3, <1>5
  <2>2. InOrder(id)
    BY DEF Ordering
  <2>3. Rising(history[id], slots[id].value)'
    BY <2>1, <2>2 DEF InOrder, Rising
  <2>4. id \in Proxied /\ OnItsWay(id)' =>
          /\ slots'[id].value <= observed'[id]
          /\ ready'[id] # NoReply => ready'[id].observed <= observed'[id]
    BY <1>3, <2>1, <2>2 DEF InOrder, OnItsWay
  <2> QED BY <1>4, <2>3, <2>4 DEF InOrder
<1>6. ASSUME NEW id \in Collectors, id \in published PROVE InOrder(id)'
  <2>1. id \in DOMAIN completed /\ ResultOK(id) /\ SlotOK(id) /\ slots[id] \in SlotRecord
        /\ InOrder(id) /\ history[id] \in Seq(HonestPoint)
    BY <1>1, <1>6 DEF EngineInv, Completion, Slots, Ordering, Histories
  <2>2. PICK c : c = completed[id]
    OBVIOUS
  <2>3. Measurement(c) /\ ShowsBefore(slots[id], c.attempt)
    BY <2>1, <2>2 DEF ResultOK, SlotOK, Measurement, ShowsBefore
  <2>4. PICK slot : slot = Merged(slots[id], c, clock)
    OBVIOUS
  <2>5. PICK point : point = Point(slot, c, clock)
    OBVIOUS
  <2>6. slots'[id] = slot /\ history'[id] = Pushed(history[id], point)
    BY <1>2, <1>3, <1>6, <2>2, <2>4, <2>5
  <2>7. /\ ShowsBefore(slot, c.attempt)
        /\ c.status = "ok" => slot.value = c.data
    BY <1>3, <2>3, <2>4, MergedShows
  <2>8. point \in HonestPoint
    BY <1>3, <2>3, <2>5, <2>7, PointHonest
  <2>9. c.status # "ok" => slot.value = slots[id].value
    BY <2>4 DEF Merged, Installs
  <2>10. point.value = IF c.status = "ok" THEN slot.value ELSE NoTime
    BY <2>5 DEF Point
  <2>11. /\ slots[id].value \in Times /\ slot.value \in Times
    BY <2>1, <2>7 DEF SlotRecord, ShowsBefore
  <2>12. slots[id].value <= slot.value
    BY <2>1, <2>2, <2>7, <2>9, <2>11 DEF InOrder, Times, NoTime
  <2>13. Rising(history[id], slots[id].value)
    BY <2>1 DEF InOrder
  <2>14. Rising(Pushed(history[id], point), slot.value)
    BY <2>1, <2>8, <2>10, <2>11, <2>12, <2>13, PushedRises
  <2>15. Rising(history[id], slots[id].value)'
    <3>1. Rising(history'[id], slots'[id].value)
      BY <2>6, <2>14
    <3> QED BY <3>1 DEF Rising
  <2>16. id \in Proxied /\ OnItsWay(id) =>
           /\ slot.value <= observed[id]
           /\ ready[id] # NoReply => ready[id].observed <= observed[id]
    BY <2>1, <2>2, <2>7, <2>9 DEF InOrder
  <2> QED BY <1>3, <1>4, <2>6, <2>15, <2>16 DEF InOrder, OnItsWay
<1> QED BY <1>5, <1>6 DEF Ordering

LEMMA NextOrder ==
    ASSUME EngineInv, Ordering, [EngineNext]_all
    PROVE  Ordering'
<1>1. CASE \/ \E p \in BOOLEAN : SetPaused(p)
           \/ \E ms \in Intervals : ChangeInterval(ms)
           \/ \E visible \in SUBSET Collectors, scans \in SUBSET Detail : ActivateTab(visible, scans)
           \/ EngineProbeStart \/ EndProbe
           \/ \E id \in Collectors : ProbeLocal(id) \/ SkipVisit(id)
           \/ \E force \in {"all", "visible", "none"} : EngineTick(force)
           \/ Advance /\ UNCHANGED <<proxy, engine>>
           \/ UNCHANGED all
  <2>1. UNCHANGED <<slots, history, completed, proxy>>
    BY <1>1 DEF SetPaused, ChangeInterval, ActivateTab, EngineProbeStart, EndProbe, ProbeLocal,
                SkipVisit, EngineTick, all, engine
  <2> QED BY <2>1, OrderKept
<1>2. CASE EngineStop
  BY <1>2, StopOrder
<1>3. CASE \E id \in Collectors : ProbeProxied(id)
  BY <1>3, ProbeProxiedOrder
<1>4. CASE \E id \in Collectors : SampleLocal(id) \/ SampleProxied(id)
  BY <1>4, SampleLocalOrder, SampleProxiedOrder
<1>5. CASE EndTick
  BY <1>5, EndTickOrder
<1>6. CASE \E id \in Proxied : ReaderStep(id) /\ UNCHANGED <<vars, engine>>
  BY <1>6, ReaderOrder
<1> QED BY <1>1, <1>2, <1>3, <1>4, <1>5, <1>6 DEF EngineNext, Environment

LEMMA InitOrder ==
    ASSUME EngineInit
    PROVE  Ordering
<1>1. ASSUME NEW id \in Collectors PROVE InOrder(id)
  <2>1. /\ history[id] = <<>> /\ DOMAIN completed = {}
        /\ id \in Proxied => request[id] = "idle"
    BY DEF EngineInit, ProxyInit, NothingCompleted
  <2>2. Rising(history[id], slots[id].value)
    BY <2>1 DEF Rising
  <2> QED BY <2>1, <2>2 DEF InOrder, OnItsWay
<1> QED BY <1>1 DEF Ordering

\* The numbers of a history stand in the order they were measured, however
\* probes, deferrals, timeouts and late answers meet the ticks
\* (_record_history, Proxy:sample): where a history goes back in time, a gap does.
THEOREM NumbersStayInOrder == EngineSpec => []NumbersInOrder
<1>1. EngineInv /\ Ordering => NumbersInOrder
  <2> SUFFICES ASSUME EngineInv, Ordering, NEW id \in Collectors,
                      NEW i \in DOMAIN history[id], NEW j \in DOMAIN history[id], i < j,
                      history[id][i].value # NoTime, history[id][j].value # NoTime
               PROVE  history[id][i].time <= history[id][j].time
    BY DEF NumbersInOrder
  <2>1. history[id] \in Seq(HonestPoint)
    BY DEF EngineInv, Histories
  <2>2. history[id][i] \in HonestPoint /\ history[id][j] \in HonestPoint
    BY <2>1
  <2>3. history[id][i].value <= history[id][j].value
    BY DEF Ordering, InOrder, Rising
  <2> QED BY <2>2, <2>3 DEF HonestPoint
<1>2. EngineInit => Ordering
  BY InitOrder
<1>3. EngineInv /\ Ordering /\ [EngineNext]_all => Ordering'
  BY NextOrder
<1> QED BY <1>1, <1>2, <1>3, EngineInvariant, PTL DEF EngineSpec

-----------------------------------------------------------------------------
(* The proxies use the client through ReaderSession.                        *)

OpenSessions == IF stopped THEN {} ELSE Proxied
Requests     == [id \in Proxied |-> SessionPhase[request[id]]]

SessionStep == Session!Next \/ UNCHANGED <<OpenSessions, Requests>>

\* How one request may change.
Turns == {<<"idle", "reading">>, <<"answered", "reading">>, <<"failed", "reading">>,
          <<"answered", "idle">>, <<"reading", "sent">>, <<"sent", "answered">>,
          <<"reading", "failed">>, <<"sent", "failed">>}

\* A request that turns is a step of its session's contract.
LEMMA RequestTurns ==
    ASSUME EngineInv, ~stopped, UNCHANGED stopped, NEW id \in Proxied, NEW to,
           <<request[id], to>> \in Turns, request' = [request EXCEPT ![id] = to]
    PROVE  SessionStep
<1>1. /\ request \in [Proxied -> {"idle", "reading", "sent", "answered", "failed"}]
      /\ OpenSessions' = OpenSessions /\ id \in OpenSessions
  BY DEF EngineInv, Readings, OpenSessions
<1>2. /\ Requests' = [Requests EXCEPT ![id] = SessionPhase[to]]
      /\ Requests[id] = SessionPhase[request[id]] /\ DOMAIN Requests = Proxied
  BY <1>1 DEF Requests
<1>3. \/ Requests[id] \in {"idle", "answered", "failed"} /\ SessionPhase[to] = "asked"
      \/ Requests[id] \in {"answered"} /\ SessionPhase[to] = "idle"
      \/ Requests[id] = SessionPhase[to]
      \/ Requests[id] \in {"asked"} /\ SessionPhase[to] = "answered"
      \/ Requests[id] \in {"asked"} /\ SessionPhase[to] = "failed"
  BY <1>2 DEF Turns, SessionPhase
<1>4. CASE Requests[id] = SessionPhase[to]
  <2>1. Requests' = Requests
    BY <1>2, <1>4 DEF Requests
  <2> QED BY <1>1, <2>1 DEF SessionStep
<1>5. CASE Requests[id] # SessionPhase[to]
  <2>1. Session!Ask(id) \/ Session!Take(id) \/ Session!Answer(id) \/ Session!Fail(id)
    BY <1>1, <1>2, <1>3, <1>5
    DEF Session!Ask, Session!Take, Session!Answer, Session!Fail, Session!Becomes,
        OpenSessions, Requests
  <2>2. id \in Session!Sessions
    BY <1>2 DEF Session!Sessions, Requests
  <2> QED BY <2>1, <2>2 DEF SessionStep, Session!Next
<1> QED BY <1>4, <1>5

\* One poll, of a probe or of a sample.
LEMMA PollTurns ==
    ASSUME EngineInv, ~stopped, UNCHANGED stopped, NEW id \in Proxied, Polls(id)
    PROVE  SessionStep
<1>1. request[id] \in {"idle", "reading", "sent", "answered", "failed"}
  BY DEF EngineInv, Readings
<1>2. CASE UNCHANGED request
  BY <1>2 DEF SessionStep, OpenSessions, Requests
<1>3. CASE request' = [request EXCEPT ![id] = "idle"] /\ request[id] = "answered"
  <2>1. <<request[id], "idle">> \in Turns
    BY <1>3 DEF Turns
  <2> QED BY <1>3, <2>1, RequestTurns
<1>4. CASE request' = [request EXCEPT ![id] = "reading"] /\ ~UnderWay(id)
  <2>1. <<request[id], "reading">> \in Turns
    BY <1>1, <1>4 DEF Turns, UnderWay
  <2> QED BY <1>4, <2>1, RequestTurns
<1> QED BY <1>2, <1>3, <1>4
    DEF Polls, PollFindsReply, PollFindsError, PollThrows, PollFindsPending, Settles, Asks

LEMMA ReaderTurns ==
    ASSUME EngineInv, ~stopped, UNCHANGED stopped, NEW id \in Proxied, ReaderStep(id)
    PROVE  SessionStep
<1>1. CASE ReaderMeasures(id)
  <2>1. <<request[id], "sent">> \in Turns /\ request' = [request EXCEPT ![id] = "sent"]
    BY <1>1 DEF Turns, ReaderMeasures
  <2> QED BY <2>1, RequestTurns
<1>2. CASE ReplyArrives(id)
  <2>1. <<request[id], "answered">> \in Turns /\ request' = [request EXCEPT ![id] = "answered"]
    BY <1>2 DEF Turns, ReplyArrives
  <2> QED BY <2>1, RequestTurns
<1>3. CASE ReaderFails(id)
  <2>1. <<request[id], "failed">> \in Turns /\ request' = [request EXCEPT ![id] = "failed"]
    BY <1>3 DEF Turns, ReaderFails, UnderWay
  <2> QED BY <2>1, RequestTurns
<1> QED BY <1>1, <1>2, <1>3 DEF ReaderStep

LEMMA SessionSteps ==
    ASSUME EngineInv, [EngineNext]_all
    PROVE  SessionStep
<1>1. CASE \/ \E p \in BOOLEAN : SetPaused(p)
           \/ \E ms \in Intervals : ChangeInterval(ms)
           \/ \E visible \in SUBSET Collectors, scans \in SUBSET Detail : ActivateTab(visible, scans)
           \/ EngineProbeStart \/ EndProbe
           \/ \E id \in Collectors : ProbeLocal(id) \/ SkipVisit(id) \/ SampleLocal(id)
           \/ \E force \in {"all", "visible", "none"} : EngineTick(force)
           \/ EndTick
           \/ Advance /\ UNCHANGED <<proxy, engine>>
           \/ UNCHANGED all
  <2>1. UNCHANGED <<stopped, request>>
    BY <1>1 DEF SetPaused, ChangeInterval, ActivateTab, EngineProbeStart, ProbeStart, EndProbe,
                ProbeLocal, ProbeVisit, SkipVisit, TickSkip, SampleLocal, TickSample, EngineTick,
                EndTick, RoundEnd, Advance, all, vars, proxy
  <2> QED BY <2>1 DEF SessionStep, OpenSessions, Requests
<1>2. CASE EngineStop
  <2>1. stopped' /\ request' = [id \in Proxied |-> "idle"]
    BY <1>2 DEF EngineStop, Stop, ProxyClose
  <2>2. OpenSessions' = OpenSessions \ Proxied
    BY <2>1 DEF OpenSessions
  <2>3. Requests' = [id \in Proxied |-> IF id \in Proxied THEN "idle" ELSE Requests[id]]
    BY <2>1 DEF Requests, SessionPhase
  <2>4. Session!Sessions = Proxied
    BY DEF Session!Sessions
  <2>5. Session!Close(Proxied)
    BY <2>2, <2>3, <2>4 DEF Session!Close, OpenSessions, Requests
  <2> QED BY <2>4, <2>5 DEF SessionStep, Session!Next
<1>3. CASE \E id \in Collectors : ProbeProxied(id) \/ SampleProxied(id)
  <2>1. PICK id \in Collectors : ProbeProxied(id) \/ SampleProxied(id)
    BY <1>3
  <2>2. /\ id \in Proxied /\ UNCHANGED stopped /\ phase # "idle"
        /\ Polls(id) \/ UNCHANGED request
    BY <2>1 DEF ProbeProxied, ProbeVisit, ProxyProbe, SampleProxied, TickSample, ProxySample, Polls
  <2>3. ~stopped
    BY <2>2 DEF EngineInv, Tasks
  <2>4. CASE Polls(id)
    BY <2>2, <2>3, <2>4, PollTurns
  <2>5. CASE UNCHANGED request
    BY <2>2, <2>5 DEF SessionStep, OpenSessions, Requests
  <2> QED BY <2>2, <2>4, <2>5
<1>4. CASE \E id \in Proxied : ~stopped /\ ReaderStep(id) /\ UNCHANGED <<vars, engine>>
  BY <1>4, ReaderTurns DEF vars
<1> QED BY <1>1, <1>2, <1>3, <1>4 DEF EngineNext, Environment

\* The proxies keep the contract of the reader client's sessions (ReaderSession,
\* which WorkerClient implements): no order of probes, ticks, deferrals, timeouts
\* and a stop makes one ask again while its read is under way or take what was
\* not answered (_read, Proxy:probe, Proxy:sample, Proxy:close).
THEOREM EngineKeepsSession == EngineSpec => KeepsSession
<1>1. EngineInit => Session!Init
  <2> SUFFICES ASSUME EngineInit PROVE Session!Init
    OBVIOUS
  <2>1. \A id \in Proxied : SessionPhase[request[id]] = "idle"
    BY DEF EngineInit, ProxyInit, SessionPhase
  <2> QED BY <2>1 DEF Session!Init, Session!Sessions
<1>2. EngineInv /\ [EngineNext]_all => SessionStep
  BY SessionSteps
<1>3. SessionStep => [Session!Next]_(Session!session)
  BY DEF SessionStep, OpenSessions, Requests, Session!session
<1> QED BY <1>1, <1>2, <1>3, EngineInvariant, PTL DEF EngineSpec, KeepsSession, Session!Spec
==============================================================================
