--------------------------- MODULE SchedulerProofs ---------------------------
(***************************************************************************)
(* Theorems about Scheduler, for every set of collectors, intervals, retry *)
(* hints, vocabularies of raw results and bounds.                          *)
(***************************************************************************)
EXTENDS Scheduler, WellFoundedInduction, TLAPS

\* Scaling by the nanoseconds of a millisecond keeps naturals and their order.
LEMMA ScaleNat == \A a \in Nat : a * NsPerMs \in Nat
BY SchedulerAssumption

LEMMA ScaleMonotone == \A a, b \in Nat : a <= b => a * NsPerMs <= b * NsPerMs
BY SchedulerAssumption

\* A deadline is a time, not before now, and never further than asked for;
\* it is strictly after now, because the clock stays below the saturation point.
LEMMA DeadlineBounds ==
    ASSUME NEW now \in 0..MaxClock, NEW ms \in 1..MaxInterval
    PROVE  /\ DeadlineNs(now, ms) \in 0..MaxInteger
           /\ now < DeadlineNs(now, ms)
           /\ DeadlineNs(now, ms) <= now + ms * NsPerMs
<1>1. ms * NsPerMs \in Nat /\ ms * NsPerMs >= 1
  <2>1. 1 * NsPerMs <= ms * NsPerMs
    BY ScaleMonotone, SchedulerAssumption
  <2> QED BY <2>1, ScaleNat, SchedulerAssumption
<1> DEFINE delta == ms * NsPerMs
<1>2. delta \in Nat /\ delta >= 1
  BY <1>1
<1>3. DeadlineNs(now, ms) = IF now >= MaxInteger - delta THEN MaxInteger ELSE now + delta
  BY DEF DeadlineNs
<1> HIDE DEF delta
<1>4. /\ DeadlineNs(now, ms) \in 0..MaxInteger
      /\ now < DeadlineNs(now, ms)
      /\ DeadlineNs(now, ms) <= now + delta
  BY <1>2, <1>3, SchedulerAssumption
<1> QED BY <1>4 DEF delta

\* The back-off factor is one of eleven powers of two.
LEMMA BackoffFactorType == \A f \in Nat \ {0} : BackoffFactor(f) \in 1..1024
BY DEF BackoffFactor, MinOf

\* What normalize_result stores is always a published, honest record.
LEMMA NormalizeType ==
    ASSUME NEW raw, raw.sampling_pending \in BOOLEAN
    PROVE  /\ NormalizeResult(raw) \in Results
           /\ NormalizeResult(raw).quality \in CURRENT_QUALITY
                => NormalizeResult(raw).status = "ok"
BY DEF NormalizeResult, Results, VALID_STATUS, VALID_QUALITY, CURRENT_QUALITY

\* The next interval is valid and stays within the cadences and the ceiling.
LEMMA NextIntervalBounds ==
    ASSUME NEW task \in Task, NEW ok \in BOOLEAN, NEW failures \in 0..FailureCap,
           ok \/ failures > 0, NEW retry \in Nat
    PROVE  /\ NextInterval(task, ok, failures, retry) \in 1..MaxInterval
           /\ NextInterval(task, ok, failures, retry) <= MaxOf(Cadence(task), MaxBackoff)
<1>1. Cadence(task) \in 1..MaxInterval
  BY SchedulerAssumption DEF Cadence, Task, Nil
<1>2. CASE ok
  BY <1>1, <1>2, SchedulerAssumption DEF NextInterval, MinOf, MaxOf, ValidInterval
<1>3. CASE ~ok
  <2>1. BackoffFactor(failures) \in 1..1024
    BY <1>3, BackoffFactorType, SchedulerAssumption
  <2> DEFINE backoff == Cadence(task) * BackoffFactor(failures)
  <2>2. backoff \in Nat /\ backoff >= 1
    BY <1>1, <2>1, SchedulerAssumption
  <2>3. NextInterval(task, ok, failures, retry) =
          IF ValidInterval(retry) THEN MinOf(retry, MaxBackoff) ELSE MinOf(backoff, MaxBackoff)
    BY <1>3 DEF NextInterval
  <2> HIDE DEF backoff
  <2> QED BY <1>1, <2>2, <2>3, SchedulerAssumption DEF MinOf, MaxOf, ValidInterval
<1> QED BY <1>2, <1>3

-----------------------------------------------------------------------------
(* One visit of a due collector.                                            *)

LEMMA SampledType ==
    ASSUME TypeOK, NEW task \in Task,
           NEW raw, raw.sampling_pending \in BOOLEAN, raw.retry \in Nat
    PROVE  /\ Sampled(task, raw) \in Task
           /\ Sampled(task, raw).last_result = NormalizeResult(raw)
           /\ Sampled(task, raw).next_due_ns > clock
           /\ Sampled(task, raw).next_due_ns <= clock + Reach(Sampled(task, raw))
           /\ Sampled(task, raw).enabled = task.enabled
           /\ Sampled(task, raw).failures > 0
                <=> Sampled(task, raw).last_result.status \notin {"ok", "none"}
           /\ Sampled(task, raw).last_result.quality \in CURRENT_QUALITY
                => Sampled(task, raw).last_result.status = "ok"
<1> DEFINE result   == NormalizeResult(raw)
           ok       == result.status = "ok"
           failures == IF ok THEN 0 ELSE MinOf(task.failures + 1, FailureCap)
           next     == NextInterval(task, ok, failures, raw.retry)
           after    == Sampled(task, raw)
<1>1. /\ result \in Results
      /\ result.quality \in CURRENT_QUALITY => result.status = "ok"
  BY NormalizeType
<1>2. failures \in 0..FailureCap /\ (failures > 0 <=> ~ok) /\ ok \in BOOLEAN
  BY SchedulerAssumption DEF Task, MinOf
<1>3. raw.retry \in Nat
  OBVIOUS
<1>4. next \in 1..MaxInterval /\ next <= MaxOf(Cadence(task), MaxBackoff)
  <2> HIDE DEF failures, ok
  <2> QED BY <1>2, <1>3, NextIntervalBounds
<1>5. after = [task EXCEPT !.last_result = result, !.probe_pending = FALSE,
                           !.failures = failures, !.next_due_ns = DeadlineNs(clock, next)]
  BY DEF Sampled
<1> HIDE DEF result, ok, failures, next, after
<1>6. clock \in 0..MaxClock
  BY DEF TypeOK
<1>7. /\ DeadlineNs(clock, next) \in 0..MaxInteger
      /\ clock < DeadlineNs(clock, next)
      /\ DeadlineNs(clock, next) <= clock + next * NsPerMs
  BY <1>4, <1>6, DeadlineBounds
<1>8. /\ after \in Task
      /\ after.last_result = result /\ after.failures = failures
      /\ after.next_due_ns = DeadlineNs(clock, next)
      /\ after.enabled = task.enabled
      /\ after.interval_ms = task.interval_ms
      /\ Cadence(after) = Cadence(task)
  BY <1>1, <1>2, <1>5, <1>7 DEF Task, Cadence
<1>9. next * NsPerMs <= Reach(after)
  <2>1. task.interval_ms \in Nat /\ Cadence(task) \in Nat /\ MaxBackoff \in Nat
    BY SchedulerAssumption DEF Task, Cadence
  <2> DEFINE far == MaxOf(MaxOf(task.interval_ms, Cadence(task)), MaxBackoff)
  <2>2. far \in Nat /\ next <= far /\ next \in Nat
    BY <1>4, <2>1, SchedulerAssumption DEF MaxOf
  <2>3. Reach(after) = far * NsPerMs
    BY <1>8 DEF Reach
  <2> HIDE DEF far
  <2> QED BY <2>2, <2>3, ScaleMonotone
<1>10. Reach(after) \in Nat /\ next * NsPerMs \in Nat
  <2>1. MaxOf(MaxOf(after.interval_ms, Cadence(after)), MaxBackoff) \in Nat
    BY <1>8, SchedulerAssumption DEF Task, Cadence, MaxOf
  <2> QED BY <2>1, <1>4, ScaleNat, SchedulerAssumption DEF Reach
<1>11. after.next_due_ns <= clock + Reach(after)
  BY <1>6, <1>7, <1>8, <1>9, <1>10, SchedulerAssumption
<1>12. after.failures > 0 <=> after.last_result.status \notin {"ok", "none"}
  BY <1>1, <1>2, <1>8 DEF ok, Results, VALID_STATUS
<1> QED BY <1>1, <1>7, <1>8, <1>11, <1>12, SchedulerAssumption DEF after, result

-----------------------------------------------------------------------------
(* The inductive invariant: the checked invariants, together.  DueBounded   *)
(* needs the types of the cadences; VisitedNotDue needs roundNow <= clock.  *)

IInv == TypeOK /\ DueBounded /\ HonestResult /\ VisitedNotDue /\ StopClosesAll

\* What the invariant says of one task.
Sound(task) ==
    /\ task \in Task
    /\ task.next_due_ns <= clock + Reach(task)
    /\ task.failures > 0 <=> task.last_result.status \notin {"ok", "none"}
    /\ task.last_result.quality \in CURRENT_QUALITY => task.last_result.status = "ok"

LEMMA ReachType == \A task \in Task : Reach(task) \in Nat
<1> TAKE task \in Task
<1>1. MaxOf(MaxOf(task.interval_ms, Cadence(task)), MaxBackoff) \in Nat
  BY SchedulerAssumption DEF Task, Cadence, MaxOf
<1> QED BY <1>1, ScaleNat DEF Reach

\* Asking for any of a task's own cadences stays within its reach.
LEMMA WithinReach ==
    ASSUME NEW task \in Task, NEW now \in 0..MaxClock,
           NEW ms \in {task.interval_ms, Cadence(task), MaxBackoff}
    PROVE  /\ DeadlineNs(now, ms) \in 0..MaxInteger
           /\ DeadlineNs(now, ms) <= now + Reach(task)
<1> DEFINE far == MaxOf(MaxOf(task.interval_ms, Cadence(task)), MaxBackoff)
<1>1. ms \in 1..MaxInterval /\ far \in Nat /\ ms <= far
  BY SchedulerAssumption DEF Task, Cadence, MaxOf, Nil
<1>2. Reach(task) = far * NsPerMs
  BY DEF Reach
<1> HIDE DEF far
<1>3. ms * NsPerMs <= Reach(task) /\ ms * NsPerMs \in Nat /\ Reach(task) \in Nat
  BY <1>1, <1>2, ScaleMonotone, ScaleNat, SchedulerAssumption
<1> QED BY <1>1, <1>3, DeadlineBounds, SchedulerAssumption

\* The invariant, task by task.
LEMMA SoundTasks == IInv => \A id \in DOMAIN tasks : Sound(tasks[id])
BY DEF IInv, TypeOK, DueBounded, HonestResult, Sound

\* A caller's method that replaces one task by a sound one keeps the invariant.
LEMMA WriteKeeps ==
    ASSUME IInv, NEW id \in DOMAIN tasks, NEW task, Sound(task), Write(id, task),
           UNCHANGED <<stopped, closed, clock, roundNow, phase>>,
           toVisit' \subseteq toVisit,
           phase = "tick" =>
             /\ \A k \in toVisit \ toVisit' : k = id
             /\ task.enabled => task.next_due_ns > roundNow
    PROVE  IInv'
<1>1. /\ DOMAIN tasks' = DOMAIN tasks
      /\ \A k \in DOMAIN tasks : tasks'[k] = IF k = id THEN task ELSE tasks[k]
      /\ tasks' \in [DOMAIN tasks' -> Task]
  BY DEF Write, IInv, TypeOK, Sound
<1>2. TypeOK'
  BY <1>1 DEF IInv, TypeOK
<1>3. \A k \in DOMAIN tasks' : Sound(tasks'[k])
  BY <1>1, SoundTasks
<1>4. DueBounded' /\ HonestResult'
  BY <1>3 DEF DueBounded, HonestResult, Sound
<1>5. VisitedNotDue'
  BY <1>1 DEF IInv, VisitedNotDue
<1>6. StopClosesAll'
  BY <1>1 DEF IInv, StopClosesAll
<1> QED BY <1>2, <1>4, <1>5, <1>6 DEF IInv

-----------------------------------------------------------------------------
(* What each caller's method makes of a sound task is sound.                *)

\* Changing only the deadline, the cadences or a flag keeps a task sound when
\* the new deadline is within the new reach.
LEMMA Reshaped ==
    ASSUME NEW old, Sound(old), NEW after \in Task,
           after.failures = old.failures,
           after.last_result = old.last_result,
           after.next_due_ns <= clock + Reach(after)
    PROVE  Sound(after)
BY DEF Sound

LEMMA SetEnabledKeeps ==
    ASSUME IInv, NEW id \in Collectors, NEW e \in BOOLEAN, SetEnabled(id, e)
    PROVE  IInv'
<1> DEFINE task  == tasks[id]
           due   == IF e THEN clock ELSE task.next_due_ns
           after == [task EXCEPT !.enabled = e, !.next_due_ns = due]
<1>1. /\ id \in DOMAIN tasks /\ task \in Task /\ clock \in 0..MaxClock
      /\ task.next_due_ns <= clock + Reach(task) /\ Reach(task) \in Nat
  BY SoundTasks, ReachType DEF SetEnabled, Registered, IInv, TypeOK, Sound
<1>2. Write(id, after) /\ phase = "idle"
      /\ UNCHANGED <<stopped, closed, clock, roundNow, phase, toVisit>>
  BY DEF SetEnabled, Idle, round
<1>3. due \in 0..MaxInteger /\ due <= clock + Reach(task)
  BY <1>1, SchedulerAssumption DEF Task
<1> HIDE DEF due
<1>4. /\ after \in Task /\ after.next_due_ns = due
      /\ after.failures = task.failures /\ after.last_result = task.last_result
      /\ after.interval_ms = task.interval_ms /\ Cadence(after) = Cadence(task)
  BY <1>1, <1>3 DEF Task, Cadence
<1>5. Reach(after) = Reach(task)
  BY <1>4 DEF Reach
<1> HIDE DEF after
<1>6. Sound(after)
  BY <1>1, <1>3, <1>4, <1>5, SoundTasks, Reshaped
<1> QED BY <1>1, <1>2, <1>6, WriteKeeps

\* A longer cadence in force never shortens a task's reach.
LEMMA ReachMonotone ==
    ASSUME NEW a \in Task, NEW b \in Task, a.interval_ms = b.interval_ms,
           Cadence(a) \in {a.interval_ms, Cadence(b)}
    PROVE  Reach(a) <= Reach(b)
<1> DEFINE far(t) == MaxOf(MaxOf(t.interval_ms, Cadence(t)), MaxBackoff)
<1>1. far(a) \in Nat /\ far(b) \in Nat /\ far(a) <= far(b)
  BY SchedulerAssumption DEF Task, Cadence, MaxOf
<1>2. Reach(a) = far(a) * NsPerMs /\ Reach(b) = far(b) * NsPerMs
  BY DEF Reach
<1> HIDE DEF far
<1> QED BY <1>1, <1>2, ScaleMonotone

LEMMA VisibleSound ==
    ASSUME TypeOK, NEW task, Sound(task), NEW v \in BOOLEAN
    PROVE  Sound(WithVisible(task, v))
<1> DEFINE hides == /\ ~v /\ task.visible
                    /\ task.background_interval_ms # Nil
                    /\ ~Pending(task)
           due   == IF v /\ ~task.visible THEN clock
                    ELSE IF hides
                         THEN MaxOf(task.next_due_ns,
                                    DeadlineNs(clock, task.background_interval_ms))
                         ELSE task.next_due_ns
           after == [task EXCEPT !.visible = v, !.next_due_ns = due]
<1>1. /\ task \in Task /\ clock \in 0..MaxClock
      /\ task.next_due_ns <= clock + Reach(task)
      /\ Reach(task) \in Nat /\ task.next_due_ns \in 0..MaxInteger
  BY ReachType DEF TypeOK, Sound, Task
<1>2. WithVisible(task, v) = after
  BY DEF WithVisible
<1>3. SUFFICES after \in Task /\ after.next_due_ns <= clock + Reach(after)
  <2>1. after.failures = task.failures /\ after.last_result = task.last_result
    BY <1>1 DEF Task
  <2> HIDE DEF after
  <2> QED BY <1>2, <1>3, <2>1, Reshaped
<1>4. ASSUME due \in 0..MaxInteger
      PROVE  /\ after \in Task
             /\ after.next_due_ns = due
             /\ after.visible = v
             /\ after.interval_ms = task.interval_ms
             /\ after.background_interval_ms = task.background_interval_ms
  <2> HIDE DEF due
  <2> QED BY <1>1, <1>4 DEF Task
<1>5. CASE v /\ ~task.visible
  <2>1. due = clock /\ clock \in 0..MaxInteger
    BY <1>1, <1>5, SchedulerAssumption
  <2>2. after \in Task /\ after.next_due_ns = clock
    BY <1>4, <2>1
  <2> HIDE DEF after
  <2> QED BY <1>1, <2>2, ReachType, SchedulerAssumption
<1>6. CASE ~(v /\ ~task.visible) /\ ~hides
  <2>1. due = task.next_due_ns
    BY <1>6
  <2>2. /\ after \in Task /\ after.next_due_ns = task.next_due_ns
        /\ after.visible = v /\ after.interval_ms = task.interval_ms
        /\ after.background_interval_ms = task.background_interval_ms
    BY <1>1, <1>4, <2>1
  <2> HIDE DEF after, due
  <2>3. Cadence(task) \in {task.interval_ms, Cadence(after)}
    BY <1>6, <2>2 DEF Cadence
  <2>4. Reach(task) <= Reach(after) /\ Reach(after) \in Nat
    BY <1>1, <2>2, <2>3, ReachMonotone, ReachType
  <2> QED BY <1>1, <2>2, <2>4, SchedulerAssumption
<1>7. CASE hides
  <2> DEFINE back == DeadlineNs(clock, task.background_interval_ms)
  <2>1. due = MaxOf(task.next_due_ns, back)
    BY <1>7
  <2>2. task.background_interval_ms \in 1..MaxInterval
    BY <1>1, <1>7, SchedulerAssumption DEF Task, Nil
  <2>3. back \in 0..MaxInteger
    BY <1>1, <2>2, DeadlineBounds
  <2>4. due \in 0..MaxInteger
    BY <1>1, <2>1, <2>3 DEF MaxOf
  <2>5. /\ after \in Task /\ after.next_due_ns = MaxOf(task.next_due_ns, back)
        /\ ~after.visible /\ after.interval_ms = task.interval_ms
        /\ after.background_interval_ms = task.background_interval_ms
    BY <1>4, <1>7, <2>1, <2>4
  <2> HIDE DEF after, due, back
  <2>6. /\ Cadence(task) \in {task.interval_ms, Cadence(after)}
        /\ Cadence(after) = task.background_interval_ms
    BY <1>7, <2>5 DEF Cadence
  <2>7. Reach(task) <= Reach(after) /\ Reach(after) \in Nat
    BY <1>1, <2>5, <2>6, ReachMonotone, ReachType
  <2>8. back <= clock + Reach(after)
    BY <1>1, <2>5, <2>6, WithinReach DEF back
  <2> QED BY <1>1, <2>3, <2>5, <2>7, <2>8, SchedulerAssumption DEF MaxOf
<1> QED BY <1>5, <1>6, <1>7

\* Rescheduled(task, ms) lies within the reach of any task with cadence ms.
LEMMA RescheduledBounds ==
    ASSUME TypeOK, NEW task \in Task, NEW after \in Task,
           NEW ms \in {after.interval_ms, Cadence(after)}
    PROVE  /\ Rescheduled(task, ms) \in 0..MaxInteger
           /\ Rescheduled(task, ms) <= clock + Reach(after)
<1>1. clock \in 0..MaxClock /\ task.next_due_ns \in 0..MaxInteger
  BY DEF TypeOK, Task
<1>2. /\ DeadlineNs(clock, ms) \in 0..MaxInteger
      /\ DeadlineNs(clock, ms) <= clock + Reach(after)
      /\ Reach(after) \in Nat
  BY <1>1, WithinReach, ReachType
<1> QED BY <1>1, <1>2, SchedulerAssumption DEF Rescheduled, MinOf

LEMMA IntervalSound ==
    ASSUME TypeOK, NEW task, Sound(task), NEW ms \in 1..MaxInterval
    PROVE  Sound(WithInterval(task, ms))
<1> DEFINE plain == [task EXCEPT !.interval_ms = ms]
           due   == Rescheduled(task, ms)
           after == [task EXCEPT !.interval_ms = ms, !.next_due_ns = due]
<1>1. task \in Task
  BY DEF Sound
<1>2. WithInterval(task, ms) = after
  BY DEF WithInterval
<1>3. plain \in Task /\ plain.interval_ms = ms
  BY <1>1 DEF Task
<1>4. due \in 0..MaxInteger /\ due <= clock + Reach(plain)
  <2> HIDE DEF plain
  <2> QED BY <1>1, <1>3, RescheduledBounds
<1> HIDE DEF due
<1>5. /\ after \in Task /\ after.next_due_ns = due
      /\ after.failures = task.failures /\ after.last_result = task.last_result
      /\ after.interval_ms = plain.interval_ms /\ Cadence(after) = Cadence(plain)
  BY <1>1, <1>4 DEF Task, Cadence
<1>6. Reach(after) = Reach(plain)
  BY <1>5 DEF Reach
<1> HIDE DEF after, plain
<1> QED BY <1>2, <1>4, <1>5, <1>6, Reshaped

LEMMA BackgroundSound ==
    ASSUME TypeOK, NEW task, Sound(task), NEW ms \in 0..MaxInterval
    PROVE  Sound(WithBackgroundInterval(task, ms))
<1> DEFINE reach == IF ms = Nil THEN task.interval_ms ELSE ms
           plain == [task EXCEPT !.background_interval_ms = ms]
           due   == IF task.visible THEN task.next_due_ns ELSE Rescheduled(task, reach)
           after == [task EXCEPT !.background_interval_ms = ms, !.next_due_ns = due]
<1>1. /\ task \in Task
      /\ task.next_due_ns <= clock + Reach(task) /\ task.next_due_ns \in 0..MaxInteger
  BY DEF Sound, Task
<1>2. WithBackgroundInterval(task, ms) = after
  BY DEF WithBackgroundInterval
<1>3. /\ plain \in Task /\ plain.interval_ms = task.interval_ms
      /\ plain.visible = task.visible /\ plain.background_interval_ms = ms
  BY <1>1 DEF Task
<1>4. due \in 0..MaxInteger /\ due <= clock + Reach(plain)
  <2>1. CASE task.visible
    <3>1. Cadence(plain) = Cadence(task)
      BY <1>3, <2>1 DEF Cadence
    <3>2. Reach(plain) = Reach(task)
      BY <1>3, <3>1 DEF Reach
    <3> QED BY <1>1, <2>1, <3>2
  <2>2. CASE ~task.visible
    <3>1. reach \in {plain.interval_ms, Cadence(plain)}
      BY <1>3, <2>2 DEF Cadence
    <3> HIDE DEF plain, reach
    <3>2. /\ Rescheduled(task, reach) \in 0..MaxInteger
          /\ Rescheduled(task, reach) <= clock + Reach(plain)
      BY <1>1, <1>3, <3>1, RescheduledBounds
    <3> QED BY <2>2, <3>2
  <2> QED BY <2>1, <2>2
<1> HIDE DEF due
<1>5. /\ after \in Task /\ after.next_due_ns = due
      /\ after.failures = task.failures /\ after.last_result = task.last_result
      /\ after.interval_ms = plain.interval_ms /\ Cadence(after) = Cadence(plain)
  BY <1>1, <1>4 DEF Task, Cadence
<1>6. Reach(after) = Reach(plain)
  BY <1>5 DEF Reach
<1> HIDE DEF after, plain
<1> QED BY <1>2, <1>4, <1>5, <1>6, Reshaped

\* The setters hand WriteKeeps what they make of a sound task.
LEMMA SetterKeeps ==
    ASSUME IInv, NEW id, Idle, Registered(id), NEW after, Write(id, after),
           Sound(tasks[id]) => Sound(after),
           UNCHANGED <<stopped, closed, clock, round>>
    PROVE  IInv'
<1>1. Sound(after) /\ phase = "idle" /\ id \in DOMAIN tasks
  BY SoundTasks DEF Idle, Registered
<1>2. UNCHANGED <<stopped, closed, clock, roundNow, phase, toVisit>>
  BY DEF round
<1> QED BY <1>1, <1>2, WriteKeeps

LEMMA SetVisibleKeeps ==
    ASSUME IInv, NEW id \in Collectors, NEW v \in BOOLEAN, SetVisible(id, v)
    PROVE  IInv'
BY VisibleSound, SetterKeeps DEF SetVisible, IInv

LEMMA SetIntervalKeeps ==
    ASSUME IInv, NEW id \in Collectors, NEW ms \in Intervals, SetInterval(id, ms)
    PROVE  IInv'
BY IntervalSound, SetterKeeps DEF SetInterval, IInv, ValidInterval

LEMMA SetBackgroundIntervalKeeps ==
    ASSUME IInv, NEW id \in Collectors, NEW ms \in Intervals \cup {Nil},
           SetBackgroundInterval(id, ms)
    PROVE  IInv'
<1>1. ms \in 0..MaxInterval
  BY SchedulerAssumption DEF SetBackgroundInterval, ValidInterval, Nil
<1> QED BY <1>1, BackgroundSound, SetterKeeps DEF SetBackgroundInterval, IInv

LEMMA ProbeVisitKeeps ==
    ASSUME IInv, NEW id \in Collectors, NEW p \in BOOLEAN, NEW r, ProbeVisit(id, p, r)
    PROVE  IInv'
<1> DEFINE task  == tasks[id]
           wait  == IF ValidInterval(r) THEN r ELSE DefaultRetry
           due   == IF p THEN MinOf(task.next_due_ns, DeadlineNs(clock, wait))
                         ELSE task.next_due_ns
           after == [task EXCEPT !.probe_pending = p, !.next_due_ns = due]
<1>1. /\ id \in DOMAIN tasks /\ task \in Task /\ clock \in 0..MaxClock
      /\ task.next_due_ns <= clock + Reach(task) /\ Reach(task) \in Nat
      /\ task.next_due_ns \in 0..MaxInteger
  BY SoundTasks, ReachType DEF ProbeVisit, IInv, TypeOK, Sound, Task
<1>2. /\ Write(id, after) /\ phase = "probe" /\ toVisit' \subseteq toVisit
      /\ UNCHANGED <<stopped, closed, clock, roundNow, phase>>
  BY DEF ProbeVisit
<1>3. due \in 0..MaxInteger /\ due <= clock + Reach(task)
  <2>1. wait \in 1..MaxInterval
    BY SchedulerAssumption DEF ValidInterval
  <2> HIDE DEF wait
  <2> QED BY <1>1, <2>1, DeadlineBounds, SchedulerAssumption DEF MinOf
<1> HIDE DEF due
<1>4. /\ after \in Task /\ after.next_due_ns = due
      /\ after.failures = task.failures /\ after.last_result = task.last_result
      /\ after.interval_ms = task.interval_ms /\ Cadence(after) = Cadence(task)
  BY <1>1, <1>3 DEF Task, Cadence
<1>5. Reach(after) = Reach(task)
  BY <1>4 DEF Reach
<1> HIDE DEF after
<1>6. Sound(after)
  BY <1>1, <1>3, <1>4, <1>5, SoundTasks, Reshaped
<1> QED BY <1>1, <1>2, <1>6, WriteKeeps

LEMMA TickSampleKeeps ==
    ASSUME IInv, NEW id \in Collectors, NEW raw, TickSample(id, raw),
           raw.sampling_pending \in BOOLEAN, raw.retry \in Nat
    PROVE  IInv'
<1> DEFINE after == Sampled(tasks[id], raw)
<1>1. id \in DOMAIN tasks /\ tasks[id] \in Task /\ TypeOK
      /\ roundNow \in 0..clock /\ clock \in 0..MaxClock
  BY SoundTasks DEF TickSample, IInv, TypeOK, Sound
<1>2. Sound(after) /\ after.next_due_ns > clock
  BY <1>1, SampledType DEF Sound
<1>3. /\ Write(id, after) /\ toVisit' = toVisit \ {id}
      /\ UNCHANGED <<stopped, closed, clock, roundNow, phase>>
  BY DEF TickSample
<1>4. after.next_due_ns > roundNow
  BY <1>1, <1>2, SchedulerAssumption DEF Sound, Task
<1> HIDE DEF after
<1> QED BY <1>1, <1>2, <1>3, <1>4, WriteKeeps

LEMMA AddKeeps ==
    ASSUME IInv, NEW id \in Collectors, NEW i \in Intervals, NEW b \in Intervals \cup {Nil},
           NEW e \in BOOLEAN, NEW v \in BOOLEAN, NEW now \in BOOLEAN,
           Add(id, i, b, e, v, now)
    PROVE  IInv'
<1> DEFINE due  == IF now THEN clock ELSE DeadlineNs(clock, i)
           task == [interval_ms |-> i, background_interval_ms |-> b,
                    enabled |-> e, visible |-> v, next_due_ns |-> due,
                    failures |-> 0, probe_pending |-> FALSE, last_result |-> NoResult]
           bare == [task EXCEPT !.next_due_ns = 0]
<1>1. /\ i \in 1..MaxInterval /\ b \in 0..MaxInterval /\ clock \in 0..MaxClock
      /\ id \notin DOMAIN tasks /\ ~stopped /\ phase = "idle"
      /\ tasks' = [k \in DOMAIN tasks \cup {id} |-> IF k = id THEN task ELSE tasks[k]]
      /\ UNCHANGED <<stopped, closed, clock, roundNow, phase, toVisit>>
  BY SchedulerAssumption DEF Add, Registered, Idle, ValidInterval, Nil, round, IInv, TypeOK
<1>2. due \in 0..MaxInteger
  BY <1>1, DeadlineBounds, SchedulerAssumption
<1> HIDE DEF due
<1>3. task \in Task /\ task.interval_ms = i /\ task.next_due_ns = due
  BY <1>1, <1>2, SchedulerAssumption DEF Task
<1>4. /\ task.failures = 0
      /\ task.last_result.status = "none" /\ task.last_result.quality = "none"
  BY DEF NoResult
<1> HIDE DEF task
<1>5. due <= clock + Reach(task)
  BY <1>1, <1>3, WithinReach, ReachType, SchedulerAssumption DEF due
<1>6. Sound(task)
  BY <1>3, <1>4, <1>5 DEF Sound, CURRENT_QUALITY
<1>7. \A k \in DOMAIN tasks' : Sound(tasks'[k])
  BY <1>1, <1>6, SoundTasks
<1>8. TypeOK'
  <2>1. tasks' \in [DOMAIN tasks' -> Task]
    BY <1>1, <1>3 DEF IInv, TypeOK
  <2> QED BY <1>1, <2>1 DEF IInv, TypeOK
<1>9. DueBounded' /\ HonestResult'
  BY <1>1, <1>7 DEF DueBounded, HonestResult, Sound
<1>10. VisitedNotDue' /\ StopClosesAll'
  BY <1>1 DEF VisitedNotDue, StopClosesAll
<1> QED BY <1>8, <1>9, <1>10 DEF IInv

\* Steps that leave the surviving tasks as they are.
LEMMA ForgetKeeps ==
    ASSUME IInv, tasks' = [k \in DOMAIN tasks' |-> tasks[k]],
           DOMAIN tasks' \subseteq DOMAIN tasks,
           clock' \in clock..MaxClock, TypeOK', VisitedNotDue', StopClosesAll'
    PROVE  IInv'
<1>1. ASSUME NEW k \in DOMAIN tasks'
      PROVE  tasks'[k] = tasks[k] /\ k \in DOMAIN tasks
  BY <1>1
<1>2. HonestResult'
  BY <1>1 DEF IInv, HonestResult
<1>3. DueBounded'
  <2> SUFFICES ASSUME NEW k \in DOMAIN tasks'
               PROVE  tasks'[k].next_due_ns <= clock' + Reach(tasks'[k])
    BY DEF DueBounded
  <2>1. /\ tasks'[k] = tasks[k] /\ tasks[k] \in Task /\ clock \in 0..MaxClock
        /\ tasks[k].next_due_ns <= clock + Reach(tasks[k])
        /\ tasks[k].next_due_ns \in 0..MaxInteger
    BY <1>1, SoundTasks DEF Sound, IInv, TypeOK, Task
  <2>2. Reach(tasks[k]) \in Nat
    BY <2>1, ReachType
  <2> QED BY <2>1, <2>2, SchedulerAssumption
<1> QED BY <1>2, <1>3 DEF IInv

-----------------------------------------------------------------------------
LEMMA InitInv == Init => IInv
<1> SUFFICES ASSUME Init PROVE IInv
  OBVIOUS
<1>1. DOMAIN tasks = {} /\ tasks \in [DOMAIN tasks -> Task]
  BY DEF Init
<1>2. TypeOK
  <2>1. clock \in 0..MaxClock /\ roundNow \in 0..clock
    BY SchedulerAssumption DEF Init
  <2>2. stopped \in BOOLEAN /\ closed = {} /\ phase = "idle" /\ toVisit = {}
    BY DEF Init
  <2> QED BY <1>1, <2>1, <2>2 DEF TypeOK
<1>3. DueBounded /\ HonestResult /\ VisitedNotDue /\ StopClosesAll
  BY <1>1 DEF Init, DueBounded, HonestResult, VisitedNotDue, StopClosesAll
<1> QED BY <1>2, <1>3 DEF IInv

LEMMA NextKeeps == IInv /\ [Next]_vars => IInv'
<1> SUFFICES ASSUME IInv, [Next]_vars PROVE IInv'
  OBVIOUS
<1> USE SchedulerAssumption
<1>1. ASSUME NEW id \in Collectors, NEW i \in Intervals, NEW b \in Intervals \cup {Nil},
             NEW e \in BOOLEAN, NEW v \in BOOLEAN, NEW now \in BOOLEAN,
             Add(id, i, b, e, v, now)
      PROVE  IInv'
  BY <1>1, AddKeeps
<1>2. ASSUME NEW id \in Collectors, Remove(id) PROVE IInv'
  <2>1. /\ tasks' = [k \in DOMAIN tasks \ {id} |-> tasks[k]]
        /\ phase = "idle" /\ toVisit = {}
        /\ UNCHANGED <<stopped, closed, clock, roundNow, phase, toVisit>>
    BY <1>2 DEF Remove, Idle, round, IInv, TypeOK
  <2>2. /\ DOMAIN tasks' = DOMAIN tasks \ {id}
        /\ tasks' = [k \in DOMAIN tasks' |-> tasks[k]]
        /\ TypeOK' /\ VisitedNotDue' /\ StopClosesAll'
    BY <2>1 DEF IInv, TypeOK, VisitedNotDue, StopClosesAll
  <2> QED BY <2>1, <2>2, ForgetKeeps DEF IInv, TypeOK
<1>3. ASSUME NEW id \in Collectors, NEW e \in BOOLEAN, SetEnabled(id, e) PROVE IInv'
  BY <1>3, SetEnabledKeeps
<1>4. ASSUME NEW id \in Collectors, NEW v \in BOOLEAN, SetVisible(id, v) PROVE IInv'
  BY <1>4, SetVisibleKeeps
<1>5. ASSUME NEW id \in Collectors, NEW i \in Intervals, SetInterval(id, i) PROVE IInv'
  BY <1>5, SetIntervalKeeps
<1>6. ASSUME NEW id \in Collectors, NEW b \in Intervals \cup {Nil},
             SetBackgroundInterval(id, b)
      PROVE  IInv'
  BY <1>6, SetBackgroundIntervalKeeps
<1>7. ASSUME NEW id \in Collectors, NEW p \in BOOLEAN, NEW r \in Retries,
             ProbeVisit(id, p, r)
      PROVE  IInv'
  BY <1>7, ProbeVisitKeeps
<1>8. ASSUME NEW id \in Collectors, NEW raw \in RawResults, TickSample(id, raw) PROVE IInv'
  <2>1. raw.sampling_pending \in BOOLEAN /\ raw.retry \in Nat
    BY DEF RawResults
  <2> QED BY <1>8, <2>1, TickSampleKeeps
<1>9. ASSUME NEW id \in Collectors, TickSkip(id) PROVE IInv'
  <2>1. /\ UNCHANGED <<tasks, stopped, closed, clock, phase, roundNow>>
        /\ toVisit' = toVisit \ {id} /\ phase = "tick"
        /\ tasks[id].enabled => roundNow < tasks[id].next_due_ns
    BY <1>9 DEF TickSkip, DueNow, IInv, TypeOK, Task
  <2>2. TypeOK' /\ VisitedNotDue' /\ StopClosesAll'
    BY <2>1 DEF IInv, TypeOK, VisitedNotDue, StopClosesAll
  <2> QED BY <2>1, <2>2, ForgetKeeps DEF IInv, TypeOK
<1>10. ASSUME ProbeStart \/ TickStart \/ RoundEnd \/ Stop PROVE IInv'
  <2>1. UNCHANGED <<tasks, clock>>
    BY <1>10 DEF ProbeStart, TickStart, RoundEnd, Stop
  <2>2. TypeOK'
    <3> USE DEF IInv, TypeOK
    <3>1. CASE ProbeStart
      BY <3>1 DEF ProbeStart
    <3>2. CASE TickStart
      BY <3>2 DEF TickStart
    <3>3. CASE RoundEnd
      BY <3>3 DEF RoundEnd
    <3>4. CASE Stop
      BY <3>4 DEF Stop, round
    <3> QED BY <1>10, <3>1, <3>2, <3>3, <3>4
  <2>3. VisitedNotDue'
    BY <1>10 DEF ProbeStart, TickStart, RoundEnd, Stop, IInv, VisitedNotDue, round, Idle
  <2>4. StopClosesAll'
    BY <1>10 DEF ProbeStart, TickStart, RoundEnd, Stop, IInv, StopClosesAll, round
  <2> QED BY <2>1, <2>2, <2>3, <2>4, ForgetKeeps DEF IInv, TypeOK
<1>11. CASE Advance
  <2>1. UNCHANGED <<tasks, stopped, closed, phase, roundNow, toVisit>> /\ clock' \in clock..MaxClock
    BY <1>11 DEF Advance, round, IInv, TypeOK
  <2>2. TypeOK' /\ VisitedNotDue' /\ StopClosesAll'
    BY <2>1 DEF IInv, TypeOK, VisitedNotDue, StopClosesAll
  <2> QED BY <2>1, <2>2, ForgetKeeps DEF IInv, TypeOK
<1>12. CASE UNCHANGED vars
  <2>1. UNCHANGED <<tasks, stopped, closed, clock, phase, roundNow, toVisit>>
    BY <1>12 DEF vars
  <2> QED BY <2>1 DEF IInv, TypeOK, DueBounded, HonestResult, VisitedNotDue, StopClosesAll,
                      Reach, Cadence
<1> QED
  BY <1>1, <1>2, <1>3, <1>4, <1>5, <1>6, <1>7, <1>8, <1>9, <1>10, <1>11, <1>12 DEF Next

\* Each checked invariant of the scheduler, for every value of the constants:
\* types; no starvation; progress of a tick; the verdict agrees with the
\* failure streak; stop closes what is registered.
THEOREM InvariantsHold == Spec => []IInv
<1> QED BY InitInv, NextKeeps, PTL DEF Spec

\* Every variable keeps its type (the scheduler's tables hold only tasks with
\* valid intervals and deadlines, whatever results collectors return).
THEOREM TypeCorrect == Spec => []TypeOK
<1>1. IInv => TypeOK
  BY DEF IInv
<1> QED BY <1>1, InvariantsHold, PTL

\* No collector's deadline drifts beyond its present cadence or the back-off
\* ceiling, whatever sequence of methods and results led there.
THEOREM NoStarvation == Spec => []DueBounded
<1>1. IInv => DueBounded
  BY DEF IInv
<1> QED BY <1>1, InvariantsHold, PTL

\* A tick never leaves a collector it visited due at the instant it read.
THEOREM TickMakesProgress == Spec => []VisitedNotDue
<1>1. IInv => VisitedNotDue
  BY DEF IInv
<1> QED BY <1>1, InvariantsHold, PTL

\* No failed result is stored as a current measurement, and the failure
\* streak says whether the last result failed.
THEOREM ResultsAreHonest == Spec => []HonestResult
<1>1. IInv => HonestResult
  BY DEF IInv
<1> QED BY <1>1, InvariantsHold, PTL

\* Once stopped, every registered collector has been closed.
THEOREM StopIsComplete == Spec => []StopClosesAll
<1>1. IInv => StopClosesAll
  BY DEF IInv
<1> QED BY <1>1, InvariantsHold, PTL

-----------------------------------------------------------------------------
(* What the callers' methods do to one task.                                *)

\* The task stays a task with the same last result; while a read is pending,
\* its poll is only ever brought forward, or to now.
KeptTask(old, new) ==
    /\ new \in Task
    /\ new.last_result = old.last_result /\ new.probe_pending = old.probe_pending
    /\ Pending(old) => new.next_due_ns <= MaxOf(old.next_due_ns, clock)

LEMMA TaskTyped ==
    ASSUME TypeOK, NEW id \in DOMAIN tasks
    PROVE  /\ tasks[id] \in Task /\ clock \in 0..MaxClock
           /\ tasks[id].next_due_ns \in Nat
           /\ clock \in 0..MaxInteger
BY SchedulerAssumption DEF TypeOK, Task

\* A new deadline, and nothing else of a task, changes.
LEMMA Retimed ==
    ASSUME NEW old \in Task, NEW due \in 0..MaxInteger,
           Pending(old) => due <= MaxOf(old.next_due_ns, clock)
    PROVE  KeptTask(old, [old EXCEPT !.next_due_ns = due])
BY DEF KeptTask, Task, Pending

LEMMA KeptTwice ==
    ASSUME TypeOK, NEW a \in Task, NEW b, NEW c, KeptTask(a, b), KeptTask(b, c)
    PROVE  KeptTask(a, c)
<1>1. /\ a.next_due_ns \in Nat /\ b.next_due_ns \in Nat /\ c.next_due_ns \in Nat /\ clock \in Nat
      /\ c \in Task /\ c.last_result = a.last_result /\ c.probe_pending = a.probe_pending
      /\ Pending(b) = Pending(a)
  BY SchedulerAssumption DEF KeptTask, Task, TypeOK, Pending
<1>2. Pending(a) => c.next_due_ns <= MaxOf(a.next_due_ns, clock)
  BY <1>1 DEF KeptTask, MaxOf
<1> QED BY <1>1, <1>2 DEF KeptTask

LEMMA VisibleKept ==
    ASSUME TypeOK, NEW old \in Task, NEW v \in BOOLEAN
    PROVE  KeptTask(old, WithVisible(old, v))
<1> DEFINE hides == /\ ~v /\ old.visible
                    /\ old.background_interval_ms # Nil
                    /\ ~Pending(old)
           back  == DeadlineNs(clock, old.background_interval_ms)
           due   == IF v /\ ~old.visible THEN clock
                    ELSE IF hides THEN MaxOf(old.next_due_ns, back) ELSE old.next_due_ns
           new   == [old EXCEPT !.visible = v, !.next_due_ns = due]
<1>1. /\ clock \in 0..MaxClock /\ clock \in 0..MaxInteger
      /\ old.next_due_ns \in 0..MaxInteger
  BY SchedulerAssumption DEF TypeOK, Task
<1>2. hides => back \in 0..MaxInteger
  <2>1. hides => old.background_interval_ms \in 1..MaxInterval
    BY SchedulerAssumption DEF Task, Nil
  <2> QED BY <1>1, <2>1, DeadlineBounds
<1>3. hides => ~Pending(old)
  BY DEF Pending
<1>4. WithVisible(old, v) = new
  BY DEF WithVisible
<1> HIDE DEF hides, back
<1>5. due \in 0..MaxInteger
  BY <1>1, <1>2 DEF MaxOf
<1>6. Pending(old) => due <= MaxOf(old.next_due_ns, clock)
  BY <1>1, <1>3 DEF MaxOf
<1> HIDE DEF due
<1>7. /\ new \in Task /\ new.last_result = old.last_result
      /\ new.probe_pending = old.probe_pending /\ new.next_due_ns = due
  BY <1>5 DEF Task
<1> HIDE DEF new
<1> QED BY <1>4, <1>6, <1>7 DEF KeptTask

LEMMA RescheduledKept ==
    ASSUME TypeOK, NEW old \in Task, NEW ms \in 1..MaxInterval
    PROVE  /\ Rescheduled(old, ms) \in 0..MaxInteger
           /\ Pending(old) =>
                 Rescheduled(old, ms) <= MaxOf(old.next_due_ns, clock)
<1>1. /\ clock \in 0..MaxClock /\ old.next_due_ns \in 0..MaxInteger
      /\ DeadlineNs(clock, ms) \in 0..MaxInteger
  BY DeadlineBounds DEF TypeOK, Task
<1> QED BY <1>1, SchedulerAssumption DEF Rescheduled, Pending, MinOf, MaxOf

LEMMA IntervalKept ==
    ASSUME TypeOK, NEW old \in Task, NEW ms \in 1..MaxInterval
    PROVE  KeptTask(old, WithInterval(old, ms))
<1> DEFINE due == Rescheduled(old, ms)
           new == [old EXCEPT !.interval_ms = ms, !.next_due_ns = due]
<1>1. WithInterval(old, ms) = new
  BY DEF WithInterval
<1>2. /\ due \in 0..MaxInteger
      /\ Pending(old) => due <= MaxOf(old.next_due_ns, clock)
  BY RescheduledKept
<1> HIDE DEF due
<1>3. /\ new \in Task /\ new.last_result = old.last_result
      /\ new.probe_pending = old.probe_pending /\ new.next_due_ns = due
  BY <1>2 DEF Task
<1> HIDE DEF new
<1> QED BY <1>1, <1>2, <1>3 DEF KeptTask

LEMMA BackgroundKept ==
    ASSUME TypeOK, NEW old \in Task, NEW ms \in 0..MaxInterval
    PROVE  KeptTask(old, WithBackgroundInterval(old, ms))
<1> DEFINE reach == IF ms = Nil THEN old.interval_ms ELSE ms
           due   == IF old.visible THEN old.next_due_ns ELSE Rescheduled(old, reach)
           new   == [old EXCEPT !.background_interval_ms = ms, !.next_due_ns = due]
<1>1. WithBackgroundInterval(old, ms) = new
  BY DEF WithBackgroundInterval
<1>2. reach \in 1..MaxInterval
  BY SchedulerAssumption DEF Task, Nil
<1> HIDE DEF reach
<1>3. /\ due \in 0..MaxInteger
      /\ Pending(old) => due <= MaxOf(old.next_due_ns, clock)
  <2>1. old.next_due_ns \in 0..MaxInteger /\ clock \in Nat
    BY SchedulerAssumption DEF Task, TypeOK
  <2> QED BY <1>2, <2>1, RescheduledKept, SchedulerAssumption DEF MaxOf
<1> HIDE DEF due
<1>4. /\ new \in Task /\ new.last_result = old.last_result
      /\ new.probe_pending = old.probe_pending /\ new.next_due_ns = due
  BY <1>3 DEF Task
<1> HIDE DEF new
<1> QED BY <1>1, <1>3, <1>4 DEF KeptTask

-----------------------------------------------------------------------------
(* The pending-read guarantee, as an action property.                       *)

\* A write to one pending task whose new deadline is no later than the old one,
\* or is now, respects the guarantee for every task.
LEMMA WriteRespectsPending ==
    ASSUME TypeOK, NEW id \in DOMAIN tasks, NEW task, Write(id, task),
           Pending(tasks[id]) => task.next_due_ns <= MaxOf(tasks[id].next_due_ns, clock)
    PROVE  PendingNotPostponedStep
<1>1. \A k \in DOMAIN tasks : tasks'[k] = IF k = id THEN task ELSE tasks[k]
  BY DEF Write, TypeOK
<1>2. \A k \in DOMAIN tasks : tasks[k].next_due_ns <= MaxOf(tasks[k].next_due_ns, clock)
  BY SchedulerAssumption DEF TypeOK, Task, MaxOf
<1> QED BY <1>1, <1>2 DEF PendingNotPostponedStep

LEMMA KeptRespectsPending ==
    ASSUME TypeOK, NEW id \in DOMAIN tasks, NEW new, Write(id, new), KeptTask(tasks[id], new)
    PROVE  PendingNotPostponedStep
BY WriteRespectsPending DEF KeptTask

LEMMA SurvivorsRespectPending ==
    ASSUME TypeOK, \A k \in DOMAIN tasks \cap DOMAIN tasks' : tasks'[k] = tasks[k]
    PROVE  PendingNotPostponedStep
BY SchedulerAssumption DEF PendingNotPostponedStep, TypeOK, Task, MaxOf

LEMMA ProbeVisitRespectsPending ==
    ASSUME TypeOK, NEW id, NEW p \in BOOLEAN, NEW r, ProbeVisit(id, p, r)
    PROVE  PendingNotPostponedStep
<1> DEFINE task  == tasks[id]
           wait  == IF ValidInterval(r) THEN r ELSE DefaultRetry
           due   == IF p THEN MinOf(task.next_due_ns, DeadlineNs(clock, wait))
                         ELSE task.next_due_ns
           after == [task EXCEPT !.probe_pending = p, !.next_due_ns = due]
<1>1. /\ id \in DOMAIN tasks /\ Write(id, after) /\ task \in Task
      /\ clock \in 0..MaxClock /\ task.next_due_ns \in 0..MaxInteger
  BY DEF ProbeVisit, TypeOK, Task
<1>2. wait \in 1..MaxInterval
  BY SchedulerAssumption DEF ValidInterval
<1>3. due <= MaxOf(task.next_due_ns, clock)
  <2> HIDE DEF wait
  <2> QED BY <1>1, <1>2, DeadlineBounds, SchedulerAssumption DEF MaxOf, MinOf
<1> HIDE DEF due
<1>4. after.next_due_ns = due
  BY <1>1 DEF Task
<1> HIDE DEF after
<1> QED BY <1>1, <1>3, <1>4, WriteRespectsPending

LEMMA TickSampleRespectsPending ==
    ASSUME TypeOK, NEW id, NEW raw, TickSample(id, raw)
    PROVE  PendingNotPostponedStep
<1>1. /\ id \in DOMAIN tasks /\ phase = "tick" /\ DueNow(tasks[id])
      /\ \A k \in DOMAIN tasks \ {id} : tasks'[k] = tasks[k]
  BY DEF TickSample, TypeOK, Write
<1> QED BY <1>1, SchedulerAssumption DEF PendingNotPostponedStep, MaxOf, TypeOK, Task

LEMMA StepRespectsPending == TypeOK /\ [Next]_vars => [PendingNotPostponedStep]_vars
<1> SUFFICES ASSUME TypeOK, Next PROVE PendingNotPostponedStep
  BY DEF vars
<1>0. /\ clock \in 0..MaxClock /\ MaxClock \in Nat /\ MaxInteger \in Nat
      /\ \A k \in DOMAIN tasks : tasks[k] \in Task /\ tasks[k].next_due_ns \in 0..MaxInteger
  BY SchedulerAssumption DEF TypeOK, Task
<1>1. ASSUME NEW id \in Collectors, NEW i, NEW b, NEW e, NEW v, NEW now,
             Add(id, i, b, e, v, now)
      PROVE  PendingNotPostponedStep
  <2>1. \A k \in DOMAIN tasks : tasks'[k] = tasks[k]
    BY <1>1 DEF Add, Registered
  <2> QED BY <2>1, SurvivorsRespectPending
<1>2. ASSUME NEW id \in Collectors, Remove(id) PROVE PendingNotPostponedStep
  <2>1. \A k \in DOMAIN tasks' : tasks'[k] = tasks[k]
    BY <1>2 DEF Remove
  <2> QED BY <2>1, SurvivorsRespectPending
<1>3. ASSUME NEW id \in Collectors, NEW e \in BOOLEAN, SetEnabled(id, e)
      PROVE  PendingNotPostponedStep
  <2> DEFINE due   == IF e THEN clock ELSE tasks[id].next_due_ns
             after == [tasks[id] EXCEPT !.enabled = e, !.next_due_ns = due]
  <2>1. id \in DOMAIN tasks /\ Write(id, after)
    BY <1>3 DEF SetEnabled, Registered
  <2>2. due <= MaxOf(tasks[id].next_due_ns, clock)
    BY <1>0, <2>1 DEF MaxOf
  <2> HIDE DEF due
  <2>3. after.next_due_ns = due
    BY <1>0, <2>1 DEF Task
  <2> HIDE DEF after
  <2> QED BY <2>1, <2>2, <2>3, WriteRespectsPending
<1>4. ASSUME NEW id \in Collectors, NEW v \in BOOLEAN, SetVisible(id, v)
      PROVE  PendingNotPostponedStep
  <2>1. id \in DOMAIN tasks /\ Write(id, WithVisible(tasks[id], v))
    BY <1>4 DEF SetVisible, Registered
  <2> QED BY <1>0, <2>1, VisibleKept, KeptRespectsPending
<1>5. ASSUME NEW id \in Collectors, NEW i \in Intervals, SetInterval(id, i)
      PROVE  PendingNotPostponedStep
  <2>1. id \in DOMAIN tasks /\ Write(id, WithInterval(tasks[id], i)) /\ i \in 1..MaxInterval
    BY <1>5 DEF SetInterval, Registered, ValidInterval
  <2> QED BY <1>0, <2>1, IntervalKept, KeptRespectsPending
<1>6. ASSUME NEW id \in Collectors, NEW b \in Intervals \cup {Nil},
             SetBackgroundInterval(id, b)
      PROVE  PendingNotPostponedStep
  <2>1. /\ id \in DOMAIN tasks /\ Write(id, WithBackgroundInterval(tasks[id], b))
        /\ b \in 0..MaxInterval
    BY <1>6, SchedulerAssumption DEF SetBackgroundInterval, Registered, ValidInterval, Nil
  <2> QED BY <1>0, <2>1, BackgroundKept, KeptRespectsPending
<1>7. ASSUME NEW id \in Collectors, NEW p \in BOOLEAN, NEW r \in Retries,
             ProbeVisit(id, p, r)
      PROVE  PendingNotPostponedStep
  BY <1>7, ProbeVisitRespectsPending
<1>8. ASSUME NEW id \in Collectors, NEW raw \in RawResults, TickSample(id, raw)
      PROVE  PendingNotPostponedStep
  BY <1>8, TickSampleRespectsPending
<1>9. ASSUME UNCHANGED tasks PROVE PendingNotPostponedStep
  BY <1>9, SurvivorsRespectPending
<1> QED
  BY <1>1, <1>2, <1>3, <1>4, <1>5, <1>6, <1>7, <1>8, <1>9
  DEF Next, ProbeStart, TickStart, TickSkip, RoundEnd, Stop, Advance

\* A pending asynchronous read is polled no later than announced, whatever the
\* application does with the page or the cadence in the meantime.
THEOREM PendingReadsAreNotPostponed == Spec => PendingNotPostponed
<1> QED BY TypeCorrect, StepRespectsPending, PTL DEF Spec, PendingNotPostponed

-----------------------------------------------------------------------------
(* What the event loop may sleep.                                           *)

\* A set of numbers has a smallest one.
LEMMA Smallest ==
    ASSUME NEW T \in SUBSET Nat, T # {}
    PROVE  \E n \in T : \A m \in T : n <= m
<1> DEFINE R == {p \in Nat \X Nat : p[1] < p[2]}
<1>1. IsWellFoundedOn(R, Nat)
  BY NatLessThanWellFounded DEF OpToRel
<1>2. \A m, n \in Nat : <<m, n>> \in R <=> m < n
  OBVIOUS
<1> HIDE DEF R
<1>3. PICK n \in T : \A m \in T : ~(<<m, n>> \in R)
  BY <1>1, WFMin
<1>4. ASSUME NEW m \in T PROVE n <= m
  <2>1. m \in Nat /\ n \in Nat
    OBVIOUS
  <2>2. ~(<<m, n>> \in R)
    BY <1>3
  <2>3. ~(m < n)
    BY <1>2, <2>1, <2>2
  <2> QED BY <2>1, <2>3
<1> QED BY <1>4

\* Rounding up to whole milliseconds adds less than one.
LEMMA RoundedUp ==
    ASSUME NEW a \in Nat, NEW n \in Nat \ {0}
    PROVE  /\ (a + n - 1) \div n \in Nat
           /\ a <= ((a + n - 1) \div n) * n
           /\ ((a + n - 1) \div n) * n < a + n
<1>1. PICK q \in Int : q = (a + n - 1) \div n
  OBVIOUS
<1>2. q * n <= a + n - 1 /\ a + n - 1 < q * n + n
  BY <1>1
<1>3. q \in Nat
  BY <1>1
<1> QED BY <1>1, <1>2, <1>3

\* The collector that is due first decides; rounding up decides the rest.
LEMMA TypedSleeps == TypeOK => SleepIsExact
<1> SUFFICES ASSUME TypeOK, ~stopped, EnabledIds # {} PROVE SleepIsExact
  BY DEF SleepIsExact
<1>1. \A id \in EnabledIds :
        /\ RemainingNs(id) \in Nat
        /\ tasks[id].next_due_ns \in Nat /\ tasks[id].next_due_ns <= clock + RemainingNs(id)
        /\ RemainingNs(id) = 0 => tasks[id].next_due_ns <= clock
        /\ RemainingNs(id) # 0 => tasks[id].next_due_ns = clock + RemainingNs(id)
  BY SchedulerAssumption DEF TypeOK, Task, EnabledIds, RemainingNs, MaxOf
<1>2. PICK first \in EnabledIds : \A other \in EnabledIds : RemainingNs(first) <= RemainingNs(other)
  <2> DEFINE T == {RemainingNs(id) : id \in EnabledIds}
  <2>1. T \in SUBSET Nat /\ T # {}
    BY <1>1
  <2>2. PICK n \in T : \A m \in T : n <= m
    <3> HIDE DEF T
    <3> QED BY <2>1, Smallest
  <2> QED BY <2>2
<1>3. PICK least \in EnabledIds :
        /\ \A other \in EnabledIds : RemainingNs(least) <= RemainingNs(other)
        /\ NextDelayMs = (RemainingNs(least) + NsPerMs - 1) \div NsPerMs
  BY <1>2 DEF NextDelayMs
<1>4. /\ NextDelayMs \in Nat
      /\ RemainingNs(least) <= NextDelayMs * NsPerMs
      /\ NextDelayMs * NsPerMs < RemainingNs(least) + NsPerMs
  BY <1>1, <1>3, RoundedUp, SchedulerAssumption
<1>5. PICK sleep \in Nat : sleep = NextDelayMs * NsPerMs
  BY <1>4, ScaleNat
<1>6. tasks[least].next_due_ns <= clock + sleep
  BY <1>1, <1>4, <1>5, SchedulerAssumption DEF TypeOK
<1>7. ASSUME NEW id \in EnabledIds
      PROVE  tasks[id].next_due_ns <= clock \/ (clock + sleep) - NsPerMs < tasks[id].next_due_ns
  BY <1>1, <1>3, <1>4, <1>5, SchedulerAssumption DEF TypeOK
<1>8. /\ \E id \in EnabledIds : tasks[id].next_due_ns <= clock + NextDelayMs * NsPerMs
      /\ \A id \in EnabledIds :
            \/ tasks[id].next_due_ns <= clock
            \/ (clock + NextDelayMs * NsPerMs) - NsPerMs < tasks[id].next_due_ns
  BY <1>5, <1>6, <1>7
<1> QED BY <1>8 DEF SleepIsExact, EnabledIds

\* The event loop neither oversleeps a deadline nor wakes to do nothing,
\* whatever deadlines the collectors have.
THEOREM SleepsAreExact == Spec => []SleepIsExact
BY TypedSleeps, TypeCorrect, PTL
=============================================================================
