---------------------------- MODULE RemovableProofs ----------------------------
(***************************************************************************)
(* A theorem about RemovableProbes, for every machine: any number of drive *)
(* letters and threads, any drives that never answer, any changes.         *)
(***************************************************************************)
EXTENDS RemovableProbes, TLAPS

Measurement == [got : {"none", "capacity", "all"}, age : Nat, outdated : BOOLEAN]
ProbeRecord == [thread : {"none", "started", "ended"}, kind : Kinds, working : Measurement,
                cached : Measurement, has_cached : BOOLEAN, discard : BOOLEAN]

\* A record that is outdated is neither cached nor going to be.
Fit(p) ==
    /\ ~p.cached.outdated
    /\ p.thread # "none" /\ p.working.outdated => p.discard

IInv ==
    /\ machine \in Machines
    /\ kind \in [Drives -> Kinds]
    /\ probe \in [Drives -> ProbeRecord]
    /\ \A d \in Drives : Fit(probe[d])
    /\ shown \in [Drives -> {"nothing", "skipped", "asked", "unavailable", "pending", "failed",
                             "fresh", "partial", "outdated"}]
    /\ NeverOutdated

LEMMA InitInv == Init => IInv
<1> SUFFICES ASSUME Init PROVE IInv
  OBVIOUS
<1>1. Nothing \in Measurement
  BY DEF Nothing, Measurement
<1>2. NoProbe \in ProbeRecord /\ Fit(NoProbe)
  BY <1>1 DEF NoProbe, ProbeRecord, Fit, Nothing, Kinds
<1>3. machine.kinds \subseteq Kinds
  BY ProbeAssumption DEF Init, Kinds
<1> QED BY <1>2, <1>3 DEF Init, IInv, NeverOutdated

\* What the operations make of one probe.
LEMMA NothingType == Nothing \in Measurement /\ ~Nothing.outdated
  BY DEF Nothing, Measurement

LEMMA OlderType ==
    ASSUME NEW m \in Measurement
    PROVE  Older(m) \in Measurement /\ Older(m).outdated = m.outdated
  BY DEF Older, Measurement

LEMMA MeasuredType ==
    ASSUME NEW m \in Measurement, NEW result \in {"none", "capacity", "all"}
    PROVE  LET w == [m EXCEPT !.got = result, !.age = 0]
           IN  w \in Measurement /\ w.outdated = m.outdated
  BY DEF Measurement

\* A change of the letter's kind marks what is being measured, and the mark
\* comes with the order to discard it.
LEMMA NoticedFits ==
    ASSUME NEW p \in ProbeRecord, NEW k \in Kinds
    PROVE  Noticed(p, k) \in ProbeRecord /\ Fit(Noticed(p, k))
  BY NothingType DEF Noticed, ProbeRecord, Measurement, Fit

\* What a thread has measured is taken over unless it is to be discarded.
LEMMA CompletedFits ==
    ASSUME NEW p \in ProbeRecord, Fit(p)
    PROVE  Completed(p) \in ProbeRecord /\ Fit(Completed(p))
<1>1. Older(p.working) \in Measurement /\ Older(p.working).outdated = p.working.outdated
  BY OlderType DEF ProbeRecord
<1> QED BY <1>1, NothingType DEF Completed, ProbeRecord, Fit

LEMMA StartedFits ==
    ASSUME NEW p \in ProbeRecord, Fit(p)
    PROVE  Started(p) \in ProbeRecord /\ Fit(Started(p))
  BY NothingType DEF Started, ProbeRecord, Fit

LEMMA SaysCurrent ==
    ASSUME NEW p \in ProbeRecord, Fit(p), NEW failed \in BOOLEAN
    PROVE  Says(p, failed) \in {"unavailable", "pending", "failed", "fresh", "partial"}
  BY DEF Says, Fit

LEMMA BeginInv == ASSUME IInv, UNCHANGED machine, Begin PROVE IInv'
<1> DEFINE aged(d) == [probe[d] EXCEPT !.cached = Older(@)]
<1>1. ASSUME NEW d \in Drives PROVE aged(d) \in ProbeRecord /\ Fit(aged(d))
  <2>1. probe[d] \in ProbeRecord /\ Fit(probe[d])
    BY DEF IInv
  <2>2. /\ Older(probe[d].cached) \in Measurement
        /\ Older(probe[d].cached).outdated = probe[d].cached.outdated
    BY <2>1, OlderType DEF ProbeRecord
  <2> QED BY <2>1, <2>2 DEF ProbeRecord, Fit
<1>2. \A d \in Drives : Completed(aged(d)) \in ProbeRecord /\ Fit(Completed(aged(d)))
  BY <1>1, CompletedFits
<1>3. probe' = [d \in Drives |-> Completed(aged(d))]
  BY DEF Begin
<1> HIDE DEF aged
<1> QED BY <1>2, <1>3 DEF Begin, IInv, NeverOutdated, Drives, Letters

LEMMA VisitInv == ASSUME IInv, UNCHANGED machine, NEW d \in Drives, Visit(d) PROVE IInv'
<1> DEFINE k == kind[d]
           p == IF probe[d].kind = k THEN probe[d] ELSE Noticed(probe[d], k)
<1>1. probe[d] \in ProbeRecord /\ Fit(probe[d]) /\ k \in Kinds
  BY DEF IInv
<1>2. p \in ProbeRecord /\ Fit(p)
  BY <1>1, NoticedFits
<1>3. Started(p) \in ProbeRecord /\ Fit(Started(p))
  BY <1>2, StartedFits
<1>4. \A failed \in BOOLEAN : Says(p, failed) \in {"unavailable", "pending", "failed", "fresh", "partial"}
  BY <1>2, SaysCurrent
<1>5. \E q \in {probe[d], p, Started(p)},
         says \in {"nothing", "skipped", "asked", "unavailable", "pending", "failed", "fresh", "partial"} :
        probe' = [probe EXCEPT ![d] = q] /\ shown' = [shown EXCEPT ![d] = says]
  <2> HIDE DEF p
  <2> QED BY <1>4 DEF Visit, p
<1> HIDE DEF p, k
<1> QED BY <1>1, <1>2, <1>3, <1>5 DEF Visit, IInv, NeverOutdated, Drives, Letters

LEMMA ForgetInv == ASSUME IInv, UNCHANGED machine, ForgetUnseen PROVE IInv'
<1>1. \A d \in Drives : /\ probe[d] \in ProbeRecord /\ Fit(probe[d])
                        /\ Noticed(probe[d], "absent") \in ProbeRecord
                        /\ Fit(Noticed(probe[d], "absent"))
  BY NoticedFits DEF IInv, Kinds
<1> QED BY <1>1 DEF ForgetUnseen, IInv, NeverOutdated, Drives, Letters

LEMMA MeasureInv == ASSUME IInv, UNCHANGED machine, NEW d \in Drives, Measure(d) PROVE IInv'
<1>1. PICK got \in {"none", "capacity", "all"} :
        probe' = [probe EXCEPT ![d].thread = "ended", ![d].working.got = got, ![d].working.age = 0]
  BY DEF Measure
<1>2. probe[d] \in ProbeRecord /\ Fit(probe[d]) /\ probe[d].thread = "started"
  BY DEF IInv, Measure
<1> DEFINE w == [probe[d].working EXCEPT !.got = got, !.age = 0]
           q == [probe[d] EXCEPT !.thread = "ended", !.working = w]
<1>3. probe'[d] \in ProbeRecord /\ Fit(probe'[d])
  <2>1. w \in Measurement /\ w.outdated = probe[d].working.outdated
    BY <1>1, <1>2, MeasuredType DEF ProbeRecord
  <2>2. q \in ProbeRecord
    <3> HIDE DEF w
    <3> QED BY <1>2, <2>1 DEF ProbeRecord
  <2>3. Fit(q)
    <3> HIDE DEF w
    <3> QED BY <1>2, <2>1 DEF ProbeRecord, Fit
  <2>4. DOMAIN probe = Drives
    BY DEF IInv
  <2>5. probe'[d] = q
    BY <1>1, <1>2, <2>4 DEF ProbeRecord, Measurement
  <2> HIDE DEF q
  <2> QED BY <2>2, <2>3, <2>5
<1>4. probe' = [probe EXCEPT ![d] = probe'[d]]
  BY <1>1 DEF IInv
<1> QED BY <1>3, <1>4 DEF Measure, IInv, NeverOutdated, Drives, Letters

LEMMA ChangeInv == ASSUME IInv, UNCHANGED machine, NEW d \in Drives, Change(d) PROVE IInv'
  BY DEF Change, IInv, NeverOutdated, Drives, Letters

LEMMA NextInv == ASSUME IInv, [Next]_vars PROVE IInv'
<1>1. CASE UNCHANGED vars
  BY <1>1 DEF vars, moving, IInv, NeverOutdated, Drives, Letters
<1> QED BY <1>1, BeginInv, VisitInv, ForgetInv, MeasureInv, ChangeInv DEF Next, Collect

(***************************************************************************)
(* push_mount_records never shows a capacity that was measured before the  *)
(* letter was last seen to go or to change its kind, whenever the thread   *)
(* that measured it ends.                                                  *)
(***************************************************************************)
THEOREM NothingOutdatedShown == Spec => []NeverOutdated
<1>1. IInv /\ [Next]_vars => IInv'
  BY NextInv
<1>2. IInv => NeverOutdated
  BY DEF IInv
<1> QED BY <1>1, <1>2, InitInv, PTL DEF Spec
=============================================================================
