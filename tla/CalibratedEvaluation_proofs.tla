---------------------- MODULE CalibratedEvaluation_proofs ----------------------
(***************************************************************************)
(* Proofs about CalibratedEvaluation, for any models, corpora and query    *)
(* sets, and any number of publications and queries.                       *)
(***************************************************************************)
EXTENDS CalibratedEvaluation, TLAPS

(* The function that is running has read the query set, and a score is of  *)
(* some snapshot.                                                          *)
LocalInv ==
  /\ cal.pc = "searching" => cal.queries \in QuerySets
  /\ cal.observed # {} => active > 0
  /\ ev.pc = "searching" => ev.queries \in QuerySets

(* A response is from a snapshot that exists, and its vectors, if it has   *)
(* any, are of that snapshot's provider.                                   *)
Sound(responses, index) ==
  \A x \in responses :
    /\ x.snapshot = index /\ index \in 1..active
    /\ x.mode = "vector" => x.by = indexes[index].provider
    /\ x.mode = "hybrid" => x.by \in {None, indexes[index].provider}

MeasureInv ==
  /\ ev.pc = "searching" => Sound(ev.responses, ev.index)
  /\ report # None =>
       /\ report.index = report.asOf
       /\ Sound(report.responses, report.index)
       /\ report.passing =>
            \A x \in report.responses : x.mode = "hybrid" => x.by = indexes[report.index].provider

IInv == TypeOK /\ LocalInv /\ MeasureInv

(* The types that TypeOK gives the local variables of the two functions.   *)
CalLocals ==
  [pc : {"idle", "searching"}, queries : QuerySets \cup {None}, left : 0..DevQueries,
   observed : SUBSET Index]
EvLocals ==
  [pc : {"idle", "loaded", "searching"}, calibration : Calibration \cup {None},
   queries : QuerySets \cup {None}, index : 0..MaxSnapshots, left : 0..(3 * TestQueries),
   responses : SUBSET Response]

--------------------------------------------------------------------------------
LEMMA InvInit == Init => IInv
<1> SUFFICES ASSUME Init PROVE IInv
  OBVIOUS
<1>1. cal \in CalLocals
  BY EvaluationAssumption DEF Init, NotCalibrating, CalLocals
<1>2. ev \in EvLocals
  BY EvaluationAssumption DEF Init, NotEvaluating, EvLocals
<1>3. TypeOK
  BY <1>1, <1>2, EvaluationAssumption DEF Init, TypeOK, active, CalLocals, EvLocals
<1>4. LocalInv /\ MeasureInv
  BY EvaluationAssumption DEF Init, LocalInv, MeasureInv, NotCalibrating, NotEvaluating
<1> QED  BY <1>3, <1>4 DEF IInv

LEMMA TypeStep == ASSUME IInv, [Next]_vars PROVE TypeOK'
<1> USE EvaluationAssumption DEF IInv, TypeOK, LocalInv, active
<1>1. ASSUME NEW m \in Models, ServeModel(m) PROVE TypeOK'
  BY <1>1 DEF ServeModel
<1>2. ASSUME NEW q \in QuerySets, EditQueries(q) PROVE TypeOK'
  BY <1>2 DEF EditQueries
<1>3. ASSUME NEW c \in Corpora, Publish(c) PROVE TypeOK'
  BY <1>3 DEF Publish, Index
<1>4. CASE ReadQueries
  BY <1>4 DEF ReadQueries
<1>5. CASE Observe
  <2>1. indexes[active] \in Index
    BY <1>5 DEF Observe
  <2>2. cal' \in CalLocals
    <3> DEFINE scored == cal.observed \cup {indexes[active]}
    <3>1. cal.left - 1 \in 0..DevQueries /\ scored \subseteq Index
      BY <1>5, <2>1 DEF Observe
    <3>2. \/ cal' = [cal EXCEPT !.left = cal.left - 1, !.observed = scored]
          \/ cal' = [cal EXCEPT !.left = cal.left - 1]
      BY <1>5 DEF Observe
    <3> HIDE DEF scored
    <3> QED  BY <3>1, <3>2 DEF CalLocals
  <2> QED  BY <1>5, <2>2 DEF Observe, CalLocals
<1>6. CASE Bind
  <2>1. active > 0
    BY <1>6 DEF Bind
  <2>2. indexes[active] \in Index
    BY <2>1
  <2>3. calibration' \in Calibration
    BY <1>6, <2>2 DEF Bind, Calibration, Index
  <2> QED  BY <1>6, <2>3 DEF Bind, NotCalibrating
<1>7. CASE AbandonCalibration
  BY <1>7 DEF AbandonCalibration, NotCalibrating
<1>8. CASE LoadCalibration
  BY <1>8 DEF LoadCalibration
<1>9. CASE CheckBinding
  <2>1. ev' \in EvLocals
    <3>1. ev' = [ev EXCEPT !.pc = "searching", !.queries = queries, !.index = active,
                          !.left = 3 * TestQueries, !.responses = {}]
      BY <1>9 DEF CheckBinding
    <3>2. ev \in EvLocals /\ active \in 0..MaxSnapshots /\ 3 * TestQueries \in 0..(3 * TestQueries)
      BY DEF EvLocals
    <3> QED  BY <3>1, <3>2 DEF EvLocals
  <2> QED  BY <1>9, <2>1 DEF CheckBinding, EvLocals
<1>10. CASE Measure
  <2>1. active \in 1..MaxSnapshots
    BY <1>10 DEF Measure
  <2>2. \E mode \in {"lexical", "vector", "hybrid", "exact"}, by \in {None, model} : Respond(mode, by)
    BY <1>10 DEF Measure
  <2>3. PICK mode \in {"lexical", "vector", "hybrid", "exact"}, by \in {None, model} :
               Respond(mode, by)
    BY <2>2
  <2>4. [snapshot |-> active, mode |-> mode, by |-> by] \in Response
    BY <2>1 DEF Response
  <2>5. ev' \in EvLocals
    <3> DEFINE gained == ev.responses \cup {[snapshot |-> active, mode |-> mode, by |-> by]}
    <3>1. ev.left - 1 \in 0..(3 * TestQueries) /\ gained \subseteq Response
      BY <1>10, <2>4 DEF Measure
    <3>2. ev' = [ev EXCEPT !.left = ev.left - 1, !.responses = gained]
      BY <2>3 DEF Respond
    <3> HIDE DEF gained
    <3> QED  BY <3>1, <3>2 DEF EvLocals
  <2> QED  BY <1>10, <2>5 DEF Measure, EvLocals
<1>11. CASE Finish
  BY <1>11 DEF Finish, Evaluated, Report, NotEvaluating
<1>12. CASE AbandonEvaluation
  BY <1>12 DEF AbandonEvaluation, NotEvaluating
<1>13. CASE UNCHANGED vars
  BY <1>13 DEF vars
<1> QED
  BY <1>1, <1>2, <1>3, <1>4, <1>5, <1>6, <1>7, <1>8, <1>9, <1>10, <1>11, <1>12, <1>13 DEF Next

LEMMA LocalStep == ASSUME IInv, [Next]_vars PROVE LocalInv'
<1> USE EvaluationAssumption DEF IInv, TypeOK, LocalInv, active
<1>1. ASSUME NEW c \in Corpora, Publish(c) PROVE LocalInv'
  BY <1>1 DEF Publish, Index
<1>2. CASE ReadQueries
  BY <1>2 DEF ReadQueries
<1>3. CASE Observe
  BY <1>3 DEF Observe
<1>4. CASE Bind \/ AbandonCalibration
  BY <1>4 DEF Bind, AbandonCalibration, NotCalibrating
<1>5. CASE LoadCalibration \/ CheckBinding
  BY <1>5 DEF LoadCalibration, CheckBinding
<1>6. CASE Measure
  BY <1>6 DEF Measure, Respond
<1>7. CASE Finish \/ AbandonEvaluation
  BY <1>7 DEF Finish, AbandonEvaluation, NotEvaluating
<1>8. CASE UNCHANGED <<indexes, cal, ev>>
  BY <1>8
<1> QED
  BY <1>1, <1>2, <1>3, <1>4, <1>5, <1>6, <1>7, <1>8 DEF Next, vars, ServeModel, EditQueries

(* A step leaves the snapshots that were published as they are.            *)
LEMMA SnapshotsStay ==
  ASSUME TypeOK, [Next]_vars
  PROVE  active <= active' /\ \A i \in 1..active : indexes'[i] = indexes[i]
<1> USE EvaluationAssumption DEF TypeOK, active
<1>1. ASSUME NEW c \in Corpora, Publish(c)
      PROVE  active <= active' /\ \A i \in 1..active : indexes'[i] = indexes[i]
  <2>1. PICK p \in {model, None} : indexes' = Append(indexes, [provider |-> p, corpus |-> c])
    BY <1>1 DEF Publish
  <2>2. [provider |-> p, corpus |-> c] \in Index
    BY DEF Index
  <2> QED  BY <2>1, <2>2
<1>2. CASE UNCHANGED indexes
  BY <1>2
<1> QED
  BY <1>1, <1>2 DEF Next, vars, ServeModel, EditQueries, ReadQueries, Observe, Bind,
     AbandonCalibration, LoadCalibration, CheckBinding, Measure, Finish, AbandonEvaluation

LEMMA MeasureStep == ASSUME IInv, [Next]_vars PROVE MeasureInv'
<1> USE EvaluationAssumption DEF IInv, MeasureInv, Sound
<1>1. active \in Nat /\ active' \in Nat /\ active <= active'
  BY SnapshotsStay, TypeStep DEF TypeOK, active
<1>2. \A i \in 1..active : i \in 1..active' /\ indexes'[i] = indexes[i]
  BY <1>1, SnapshotsStay
<1>3. CASE UNCHANGED <<ev, report>>
  BY <1>2, <1>3
<1>4. CASE LoadCalibration
  BY <1>4, <1>2 DEF LoadCalibration, TypeOK
<1>5. CASE CheckBinding
  BY <1>5, <1>2 DEF CheckBinding, TypeOK
<1>6. CASE Measure
  <2>1. ev.index = active /\ active \in 1..active /\ UNCHANGED <<indexes, report>> /\ active' = active
    BY <1>1, <1>6 DEF Measure, active
  <2>2. PICK mode, by :
          /\ Respond(mode, by)
          /\ mode = "vector" => by = indexes[active].provider
          /\ mode = "hybrid" => by \in {None, indexes[active].provider}
    BY <1>6 DEF Measure
  <2>3. /\ ev'.index = active /\ ev.pc = "searching"
        /\ ev'.responses = ev.responses \cup {[snapshot |-> active, mode |-> mode, by |-> by]}
    BY <1>6, <2>1, <2>2 DEF Measure, Respond, TypeOK
  <2>4. Sound(ev.responses, active)
    BY <2>1, <2>3
  <2>5. Sound(ev.responses, ev.index)'
    BY <2>1, <2>2, <2>3, <2>4
  <2> QED  BY <2>1, <2>5
<1>7. CASE Finish
  BY <1>7, <1>2 DEF Finish, Evaluated, Degraded, NotEvaluating
<1>8. CASE AbandonEvaluation
  BY <1>8, <1>2 DEF AbandonEvaluation, NotEvaluating
<1> QED
  BY <1>3, <1>4, <1>5, <1>6, <1>7, <1>8 DEF Next, vars, ServeModel, EditQueries, Publish,
     ReadQueries, Observe, Bind, AbandonCalibration

LEMMA Invariance == Spec => []IInv
<1>1. ASSUME IInv, [Next]_vars PROVE IInv'
  BY <1>1, TypeStep, LocalStep, MeasureStep DEF IInv
<1> QED
  BY InvInit, <1>1, PTL DEF Spec

(* Every variable, the calibration file and the report among them, keeps   *)
(* its type, whatever other processes publish, edit or serve meanwhile.    *)
THEOREM TypeCorrect == Spec => []TypeOK
<1>1. IInv => TypeOK
  BY DEF IInv
<1> QED
  BY Invariance, <1>1, PTL

(* A report of evaluate() is about one snapshot, which is active both at   *)
(* its first search and when it is returned.                               *)
THEOREM ReportIsOfOneSnapshot == Spec => []ReportOneSnapshot
<1>1. IInv => ReportOneSnapshot
  BY DEF IInv, MeasureInv, Sound, ReportOneSnapshot
<1> QED
  BY Invariance, <1>1, PTL

(* A report that passes compared no vectors of two models, whatever the    *)
(* provider served during the evaluation, and hides no degraded response.  *)
THEOREM PassingReportIsScored == Spec => []PassingReportScored
<1>1. IInv => PassingReportScored
  BY DEF IInv, MeasureInv, Sound, PassingReportScored
<1> QED
  BY Invariance, <1>1, PTL

--------------------------------------------------------------------------------
(* What a calibration is for, when nobody publishes while calibrate runs.  *)

(* The scores that chose a threshold are of the index it is bound to.      *)
OfOneIndex(c) == c.observed = {[provider |-> c.provider, corpus |-> c.corpus]}

(* A calibration is for the given queries and the given snapshot.          *)
BoundTo(c, asked, index) ==
  /\ c.queries = asked
  /\ index \in 1..active
  /\ c.provider = indexes[index].provider /\ c.corpus = indexes[index].corpus

BindingInv ==
  /\ cal.pc = "idle" => cal.observed = {}
  /\ cal.observed # {} => active > 0 /\ cal.observed = {indexes[active]}
  /\ calibration # None => OfOneIndex(calibration)
  /\ ev.calibration # None =>
       /\ OfOneIndex(ev.calibration)
       /\ ev.pc = "searching" => BoundTo(ev.calibration, ev.queries, ev.index)
  /\ report # None /\ report.calibration # None =>
       OfOneIndex(report.calibration) /\ BoundTo(report.calibration, report.queries, report.index)

LEMMA BindingStep == ASSUME CalibratesAlone = TRUE, IInv, BindingInv, [Next]_vars PROVE BindingInv'
<1> USE EvaluationAssumption DEF IInv, BindingInv, OfOneIndex, BoundTo
<1>1. active \in Nat /\ active' \in Nat /\ active <= active'
  BY SnapshotsStay, TypeStep DEF TypeOK, active
<1>2. \A i \in 1..active : i \in 1..active' /\ indexes'[i] = indexes[i]
  BY <1>1, SnapshotsStay
<1>3. UNCHANGED indexes => active' = active
  BY DEF active
<1>4. CASE UNCHANGED <<indexes, calibration, cal, ev, report>>
  BY <1>4, <1>3, <1>2
<1>5. ASSUME NEW c \in Corpora, Publish(c) PROVE BindingInv'
  BY <1>5, <1>2 DEF Publish
<1>6. CASE ReadQueries
  BY <1>6, <1>3, <1>2 DEF ReadQueries
<1>7. CASE Observe
  <2>1. active > 0 /\ active' = active /\ UNCHANGED <<indexes, calibration, ev, report>>
    BY <1>7 DEF Observe, active
  <2>2. cal'.pc = "searching" /\ cal'.observed \in {cal.observed, cal.observed \cup {indexes[active]}}
    BY <1>7 DEF Observe, TypeOK
  <2> QED  BY <1>2, <2>1, <2>2
<1>8. CASE Bind
  <2>1. active' = active /\ UNCHANGED <<indexes, ev, report>> /\ active \in 1..active
    BY <1>8, <1>1 DEF Bind, active
  <2>2. cal'.observed = {}
    BY <1>8 DEF Bind, NotCalibrating
  <2>3. cal.observed = {indexes[active]} /\ indexes[active] \in Index
    BY <1>8, <2>1 DEF Bind, TypeOK, active
  <2>4. indexes[active] = [provider |-> indexes[active].provider, corpus |-> indexes[active].corpus]
    BY <2>3 DEF Index
  <2>5. OfOneIndex(calibration')
    BY <1>8, <2>3, <2>4 DEF Bind
  <2> QED  BY <1>2, <2>1, <2>2, <2>5
<1>9. CASE AbandonCalibration
  BY <1>9, <1>3, <1>2 DEF AbandonCalibration, NotCalibrating
<1>10. CASE LoadCalibration
  BY <1>10, <1>3, <1>2 DEF LoadCalibration, TypeOK
<1>11. CASE CheckBinding
  BY <1>11, <1>3, <1>1, <1>2 DEF CheckBinding, TypeOK
<1>12. CASE Measure
  <2>1. /\ ev'.pc = ev.pc /\ ev'.calibration = ev.calibration
        /\ ev'.queries = ev.queries /\ ev'.index = ev.index
    BY <1>12 DEF Measure, Respond, TypeOK
  <2>2. UNCHANGED <<indexes, calibration, cal, report>> /\ active' = active
    BY <1>12, <1>3 DEF Measure
  <2> QED  BY <2>1, <2>2
<1>13. CASE Finish
  BY <1>13, <1>3, <1>2 DEF Finish, Evaluated, NotEvaluating
<1>14. CASE AbandonEvaluation
  BY <1>14, <1>3, <1>2 DEF AbandonEvaluation, NotEvaluating
<1> QED
  BY <1>4, <1>5, <1>6, <1>7, <1>8, <1>9, <1>10, <1>11, <1>12, <1>13, <1>14
     DEF Next, vars, ServeModel, EditQueries

(* Without a build during calibrate, the threshold in a report was chosen  *)
(* from scores of the very index, and for the queries, it evaluates.       *)
THEOREM ReportIsCalibratedHere == ASSUME CalibratesAlone = TRUE PROVE Spec => []ReportCalibratedHere
<1>1. Init => BindingInv
  BY DEF Init, BindingInv, NotCalibrating, NotEvaluating
<1>2. ASSUME IInv, BindingInv, [Next]_vars PROVE BindingInv'
  BY <1>2, BindingStep
<1>3. ASSUME IInv, BindingInv PROVE ReportCalibratedHere
  <2> SUFFICES ASSUME report # None, report.calibration # None
               PROVE  /\ report.calibration.queries = report.queries
                      /\ report.calibration.observed = {indexes[report.index]}
    BY DEF ReportCalibratedHere
  <2>1. BoundTo(report.calibration, report.queries, report.index)
    BY <1>3 DEF BindingInv
  <2>2. indexes[report.index] \in Index
    BY <1>3, <2>1 DEF IInv, TypeOK, BoundTo, active
  <2>3. indexes[report.index] =
          [provider |-> report.calibration.provider, corpus |-> report.calibration.corpus]
    BY <2>1, <2>2 DEF BoundTo, Index
  <2> QED  BY <1>3, <2>1, <2>3 DEF BindingInv, OfOneIndex, BoundTo
<1> QED
  BY Invariance, <1>1, <1>2, <1>3, PTL DEF Spec
===============================================================================
