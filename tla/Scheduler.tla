------------------------------ MODULE Scheduler ------------------------------
(***************************************************************************)
(* The collector scheduler, src/src/wtop/core/scheduler.lua.               *)
(*                                                                         *)
(* One Lua thread owns the scheduler.  The application calls its methods   *)
(* (Add, SetVisible, SetInterval, ...) between ticks; a tick reads the     *)
(* clock once, visits every registered collector and samples the enabled   *)
(* ones whose deadline has passed.  Sampling takes time, so the clock may  *)
(* advance between two visits of one tick: a tick and a probe round are    *)
(* one action per collector here.                                          *)
(*                                                                         *)
(* Abstractions.  A result keeps its status, its quality and its           *)
(* sampling_pending flag; payload, reason and duration are left out, and   *)
(* so are the run counter and last_success, which no decision reads.  The  *)
(* order in which a round visits the collectors is left open, which allows *)
(* every registration order.  0 stands for a nil or an invalid interval:   *)
(* valid_interval rejects both alike.                                      *)
(***************************************************************************)
EXTENDS Integers, FiniteSets, Quality

CONSTANTS
    Collectors,     \* collector ids
    Intervals,      \* interval arguments the callers pass, in milliseconds
    Retries,        \* retry_after_ms values a collector or probe may return
    RawStatuses,    \* status words collectors return, published or not
    RawQualities,   \* quality words collectors return, published or not
    NsPerMs,        \* nanoseconds per millisecond (1000000 in the code)
    MaxBackoff,     \* max_backoff_ms (30000)
    MaxInterval,    \* MAX_INTERVAL_MS (2147483647)
    DefaultRetry,   \* poll interval of a probe without a hint (25)
    FailureCap,     \* ceiling of the failure counter (1000000)
    MaxInteger,     \* math.maxinteger, where a deadline saturates
    MaxClock        \* bound: the clock stops advancing here

ASSUME SchedulerAssumption ==
    /\ Intervals \subseteq Nat /\ Retries \subseteq Nat
    /\ NsPerMs \in Nat \ {0}
    /\ MaxInterval \in Nat \ {0}
    /\ MaxBackoff \in 1..MaxInterval
    /\ DefaultRetry \in 1..MaxInterval
    /\ FailureCap \in Nat \ {0}
    /\ MaxClock \in Nat /\ MaxInteger \in Nat /\ MaxClock < MaxInteger

VARIABLES
    tasks,      \* id -> task record; the domain is the set of registered ids
    stopped,    \* Scheduler:stop has run
    closed,     \* ids whose close() the scheduler has called
    clock,      \* what the clock's now_ns() returns next
    phase,      \* "idle", or inside a "tick" or a "probe" round
    roundNow,   \* the clock reading taken when the tick began
    toVisit     \* ids the current round has not visited yet

round == <<phase, roundNow, toVisit>>
vars  == <<tasks, stopped, closed, clock, phase, roundNow, toVisit>>

-----------------------------------------------------------------------------
(* Pure helpers.                                                            *)

MinOf(a, b) == IF a <= b THEN a ELSE b
MaxOf(a, b) == IF a >= b THEN a ELSE b

\* Mutant: zero counts as an interval.
ValidIntervalWithZero(ms) == ms \in 0..MaxInterval

ValidInterval(ms) == ms \in 1..MaxInterval

\* An absent optional argument.
Nil == 0

\* now + interval, saturating at the largest integer.
DeadlineNs(now, ms) ==
    LET delta == ms * NsPerMs
    IN  IF now >= MaxInteger - delta THEN MaxInteger ELSE now + delta

NoResult == [status |-> "none", quality |-> "none", sampling_pending |-> FALSE]
Results  == [status : VALID_STATUS, quality : VALID_QUALITY, sampling_pending : BOOLEAN]

\* What a sample() call may hand back: any words, published or not.  An
\* exception and a non-table reach normalize_result as an error/error record.
RawResults == [status : RawStatuses, quality : RawQualities,
               sampling_pending : BOOLEAN, retry : Retries]

Task == [interval_ms : 1..MaxInterval, background_interval_ms : 0..MaxInterval,
         enabled : BOOLEAN, visible : BOOLEAN, next_due_ns : 0..MaxInteger,
         failures : 0..FailureCap, probe_pending : BOOLEAN,
         last_result : Results \cup {NoResult}]

\* An asynchronous probe or sample has been started and not yet answered.
Pending(task) == task.probe_pending \/ task.last_result.sampling_pending

\* Mutant: a failed result keeps the quality it claims.
NormalizeResultTrusting(raw) ==
    IF raw.status \in VALID_STATUS /\ raw.quality \in VALID_QUALITY
    THEN [status |-> raw.status, quality |-> raw.quality, sampling_pending |-> raw.sampling_pending]
    ELSE [status |-> "error", quality |-> "error", sampling_pending |-> raw.sampling_pending]

\* An unpublished word turns the whole result into an error; a result that is
\* not ok may not keep a quality that claims a current measurement.
NormalizeResult(raw) ==
    LET published == raw.status \in VALID_STATUS /\ raw.quality \in VALID_QUALITY
        status    == IF published THEN raw.status ELSE "error"
        quality   == IF published THEN raw.quality ELSE "error"
    IN  [status |-> status,
         quality |-> IF status # "ok" /\ quality \in CURRENT_QUALITY THEN status ELSE quality,
         sampling_pending |-> raw.sampling_pending]

\* 2 ^ min(failures - 1, 10)
BackoffFactor(failures) ==
    <<1, 2, 4, 8, 16, 32, 64, 128, 256, 512, 1024>>[MinOf(failures, 11)]

\* The cadence in force: the background one only while hidden.
Cadence(task) ==
    IF ~task.visible /\ task.background_interval_ms # Nil
    THEN task.background_interval_ms ELSE task.interval_ms

\* Mutant: the back-off has no ceiling.
NextIntervalUncapped(task, ok, failures, retry) ==
    IF ok
    THEN IF ValidInterval(retry) THEN MinOf(Cadence(task), retry) ELSE Cadence(task)
    ELSE IF ValidInterval(retry) THEN MinOf(retry, MaxBackoff)
         ELSE MinOf(Cadence(task) * BackoffFactor(failures), MaxInterval)

\* How long after the end of a sample the collector is due again.
NextInterval(task, ok, failures, retry) ==
    IF ok
    THEN IF ValidInterval(retry) THEN MinOf(Cadence(task), retry) ELSE Cadence(task)
    ELSE IF ValidInterval(retry) THEN MinOf(retry, MaxBackoff)
         ELSE MinOf(Cadence(task) * BackoffFactor(failures), MaxBackoff)

\* Everything tick() writes into a task whose sample just finished.
Sampled(task, raw) ==
    LET result   == NormalizeResult(raw)
        ok       == result.status = "ok"
        failures == IF ok THEN 0 ELSE MinOf(task.failures + 1, FailureCap)
    IN  [task EXCEPT !.last_result = result,
                     !.probe_pending = FALSE,
                     !.failures = failures,
                     !.next_due_ns =
                        DeadlineNs(clock, NextInterval(task, ok, failures, raw.retry))]

\* Mutant: a cadence change ignores a pending read.
RescheduledBlindly(task, ms) == DeadlineNs(clock, ms)

\* A cadence change reschedules the task, but only ever forwards a deadline
\* that a pending asynchronous read is waiting for.
Rescheduled(task, ms) ==
    LET due == DeadlineNs(clock, ms)
    IN  IF Pending(task) THEN MinOf(task.next_due_ns, due) ELSE due

DueNow(task) == task.enabled /\ roundNow >= task.next_due_ns

(* What the setters write into a task.                                      *)

\* Becoming visible makes the task due now.  Becoming hidden applies the
\* background cadence, unless an asynchronous read is pending, and never
\* brings a later deadline forward.
WithVisible(task, visible) ==
    LET hides == /\ ~visible /\ task.visible
                 /\ task.background_interval_ms # Nil
                 /\ ~Pending(task)
    IN  [task EXCEPT
           !.visible = visible,
           !.next_due_ns =
              IF visible /\ ~task.visible THEN clock
              ELSE IF hides
                   THEN MaxOf(@, DeadlineNs(clock, task.background_interval_ms))
                   ELSE @]

WithInterval(task, ms) ==
    [task EXCEPT !.interval_ms = ms, !.next_due_ns = Rescheduled(task, ms)]

WithBackgroundInterval(task, ms) ==
    LET reach == IF ms = Nil THEN task.interval_ms ELSE ms
    IN  [task EXCEPT
           !.background_interval_ms = ms,
           !.next_due_ns = IF task.visible THEN @ ELSE Rescheduled(task, reach)]

-----------------------------------------------------------------------------
Init ==
    /\ tasks = [id \in {} |-> NoResult]
    /\ stopped = FALSE
    /\ closed = {}
    /\ clock = 0
    /\ phase = "idle"
    /\ roundNow = 0
    /\ toVisit = {}

\* A caller's method runs to completion between rounds.
Idle == phase = "idle"

Registered(id) == id \in DOMAIN tasks

Write(id, task) == tasks' = [tasks EXCEPT ![id] = task]

Add(id, interval, background, enabled, visible, immediate) ==
    /\ Idle /\ ~stopped /\ ~Registered(id)
    /\ ValidInterval(interval)
    /\ background = Nil \/ ValidInterval(background)
    /\ LET task == [interval_ms |-> interval, background_interval_ms |-> background,
                    enabled |-> enabled, visible |-> visible,
                    next_due_ns |-> IF immediate THEN clock ELSE DeadlineNs(clock, interval),
                    failures |-> 0, probe_pending |-> FALSE, last_result |-> NoResult]
       IN  tasks' = [k \in DOMAIN tasks \cup {id} |-> IF k = id THEN task ELSE tasks[k]]
    /\ UNCHANGED <<stopped, closed, clock, round>>

\* remove() forgets the task; it does not close the collector.
Remove(id) ==
    /\ Idle /\ Registered(id)
    /\ tasks' = [k \in DOMAIN tasks \ {id} |-> tasks[k]]
    /\ UNCHANGED <<stopped, closed, clock, round>>

SetEnabled(id, enabled) ==
    /\ Idle /\ Registered(id)
    /\ Write(id, [tasks[id] EXCEPT
                    !.enabled = enabled,
                    !.next_due_ns = IF enabled THEN clock ELSE @])
    /\ UNCHANGED <<stopped, closed, clock, round>>

SetVisible(id, visible) ==
    /\ Idle /\ Registered(id)
    /\ Write(id, WithVisible(tasks[id], visible))
    /\ UNCHANGED <<stopped, closed, clock, round>>

SetInterval(id, ms) ==
    /\ Idle /\ Registered(id) /\ ValidInterval(ms)
    /\ Write(id, WithInterval(tasks[id], ms))
    /\ UNCHANGED <<stopped, closed, clock, round>>

SetBackgroundInterval(id, ms) ==
    /\ Idle /\ Registered(id)
    /\ ms = Nil \/ ValidInterval(ms)
    /\ Write(id, WithBackgroundInterval(tasks[id], ms))
    /\ UNCHANGED <<stopped, closed, clock, round>>

-----------------------------------------------------------------------------
(* probe_all: one visit per collector, in one caller's call.                *)

ProbeStart ==
    /\ Idle
    /\ phase' = "probe" /\ toVisit' = DOMAIN tasks
    /\ UNCHANGED <<tasks, stopped, closed, clock, roundNow>>

\* The probe's answer says whether an asynchronous read is under way; a
\* missing retry hint becomes DefaultRetry.
ProbeVisit(id, sampling_pending, retry) ==
    /\ phase = "probe" /\ id \in toVisit
    /\ LET wait == IF ValidInterval(retry) THEN retry ELSE DefaultRetry
       IN  Write(id, [tasks[id] EXCEPT
                        !.probe_pending = sampling_pending,
                        !.next_due_ns = IF sampling_pending
                                        THEN MinOf(@, DeadlineNs(clock, wait)) ELSE @])
    /\ toVisit' = toVisit \ {id}
    /\ UNCHANGED <<stopped, closed, clock, phase, roundNow>>

(* tick: reads the clock once, then visits every collector.                 *)

TickStart ==
    /\ Idle /\ ~stopped
    /\ phase' = "tick" /\ roundNow' = clock /\ toVisit' = DOMAIN tasks
    /\ UNCHANGED <<tasks, stopped, closed, clock>>

TickSample(id, raw) ==
    /\ phase = "tick" /\ id \in toVisit
    /\ DueNow(tasks[id])
    /\ Write(id, Sampled(tasks[id], raw))
    /\ toVisit' = toVisit \ {id}
    /\ UNCHANGED <<stopped, closed, clock, phase, roundNow>>

TickSkip(id) ==
    /\ phase = "tick" /\ id \in toVisit
    /\ ~DueNow(tasks[id])
    /\ toVisit' = toVisit \ {id}
    /\ UNCHANGED <<tasks, stopped, closed, clock, phase, roundNow>>

RoundEnd ==
    /\ phase # "idle" /\ toVisit = {}
    /\ phase' = "idle" /\ roundNow' = 0
    /\ UNCHANGED <<tasks, stopped, closed, clock, toVisit>>

Stop ==
    /\ Idle /\ ~stopped
    /\ stopped' = TRUE
    /\ closed' = closed \cup DOMAIN tasks
    /\ UNCHANGED <<tasks, clock, round>>

\* Time passes: between rounds, and while a collector is sampling.
Advance ==
    /\ clock < MaxClock
    /\ clock' = clock + 1
    /\ UNCHANGED <<tasks, stopped, closed, round>>

Next ==
    \/ \E id \in Collectors, i \in Intervals, b \in Intervals \cup {Nil},
          e, v, now \in BOOLEAN : Add(id, i, b, e, v, now)
    \/ \E id \in Collectors : Remove(id)
    \/ \E id \in Collectors, e \in BOOLEAN : SetEnabled(id, e)
    \/ \E id \in Collectors, v \in BOOLEAN : SetVisible(id, v)
    \/ \E id \in Collectors, i \in Intervals : SetInterval(id, i)
    \/ \E id \in Collectors, b \in Intervals \cup {Nil} : SetBackgroundInterval(id, b)
    \/ ProbeStart
    \/ \E id \in Collectors, p \in BOOLEAN, r \in Retries : ProbeVisit(id, p, r)
    \/ TickStart
    \/ \E id \in Collectors, raw \in RawResults : TickSample(id, raw)
    \/ \E id \in Collectors : TickSkip(id)
    \/ RoundEnd
    \/ Stop
    \/ Advance

Spec == Init /\ [][Next]_vars

-----------------------------------------------------------------------------
(* next_delay_ms: what the event loop may sleep.  -1 stands for nil: there  *)
(* is nothing to wait for.                                                  *)

EnabledIds == {id \in DOMAIN tasks : tasks[id].enabled}

RemainingNs(id) == MaxOf(tasks[id].next_due_ns - clock, 0)

\* Mutant: rounds the remaining time down.
NextDelayMsFloor ==
    IF stopped \/ EnabledIds = {} THEN -1
    ELSE LET first == CHOOSE id \in EnabledIds :
                        \A other \in EnabledIds : RemainingNs(id) <= RemainingNs(other)
         IN  RemainingNs(first) \div NsPerMs

NextDelayMs ==
    IF stopped \/ EnabledIds = {} THEN -1
    ELSE LET first == CHOOSE id \in EnabledIds :
                        \A other \in EnabledIds : RemainingNs(id) <= RemainingNs(other)
         IN  (RemainingNs(first) + NsPerMs - 1) \div NsPerMs

-----------------------------------------------------------------------------
(* Properties.                                                              *)

\* Every variable has its type; a round only visits registered collectors.
TypeOK ==
    /\ DOMAIN tasks \subseteq Collectors
    /\ tasks \in [DOMAIN tasks -> Task]
    /\ stopped \in BOOLEAN
    /\ closed \subseteq Collectors
    /\ clock \in 0..MaxClock
    /\ phase \in {"idle", "tick", "probe"}
    /\ roundNow \in 0..clock
    /\ toVisit \subseteq DOMAIN tasks
    /\ phase = "idle" => toVisit = {}

\* The furthest ahead of the clock a task's deadline may ever lie.
Reach(task) == MaxOf(MaxOf(task.interval_ms, Cadence(task)), MaxBackoff) * NsPerMs

\* No starvation: whatever sequence of visibility, cadence, probe and failure
\* events a collector goes through, its deadline never lies further ahead than
\* its present cadences (the background one only while it is hidden) or the
\* failure back-off ceiling.  A hidden period, a longer interval or a failure
\* streak leaves nothing behind once it has ended.
DueBounded == \A id \in DOMAIN tasks : tasks[id].next_due_ns <= clock + Reach(tasks[id])

\* A tick makes progress: once it has visited an enabled collector, that
\* collector's deadline lies strictly beyond the time the tick read, so no
\* result (an invalid retry hint, a failure count, a saturated deadline) makes
\* the event loop sample the same collector again at the same instant.
VisitedNotDue ==
    phase = "tick" =>
        \A id \in DOMAIN tasks \ toVisit : tasks[id].enabled => tasks[id].next_due_ns > roundNow

\* The stored verdict and the failure streak agree: a collector counts
\* failures exactly while its last result is not ok, and no failed result is
\* stored with a quality that claims a current measurement.
HonestResult ==
    \A id \in DOMAIN tasks :
        LET task == tasks[id] IN
        /\ task.failures > 0 <=> task.last_result.status \notin {"ok", "none"}
        /\ task.last_result.quality \in CURRENT_QUALITY => task.last_result.status = "ok"

\* Sleeping for next_delay_ms is exact to the millisecond: after it some
\* enabled collector is due (the loop does not wake to do nothing), and one
\* millisecond less would have been too early (no deadline is overslept).
SleepIsExact ==
    ~stopped /\ EnabledIds # {} =>
        LET wake == clock + NextDelayMs * NsPerMs
            waiting == {id \in DOMAIN tasks : tasks[id].enabled} IN
        /\ \E id \in waiting : tasks[id].next_due_ns <= wake
        /\ \A id \in waiting : tasks[id].next_due_ns <= clock
                                  \/ wake - NsPerMs < tasks[id].next_due_ns

\* A pending asynchronous read is never postponed: hiding its page, changing
\* a cadence or probing again may bring its poll forward (or to now), never
\* push it later.  Only the sample that polls it sets a new deadline.
PendingNotPostponedStep ==
    \A id \in DOMAIN tasks \cap DOMAIN tasks' :
        Pending(tasks[id]) /\ ~(phase = "tick" /\ DueNow(tasks[id]))
            => tasks'[id].next_due_ns <= MaxOf(tasks[id].next_due_ns, clock)
PendingNotPostponed == [][PendingNotPostponedStep]_vars

\* stop() leaves nothing open: a collector that is registered once the
\* scheduler has stopped is one that stop() closed.
StopClosesAll == stopped => DOMAIN tasks \subseteq closed

=============================================================================
