------------------------- MODULE CalibratedEvaluation -------------------------
(***************************************************************************)
(* `specsearch calibrate` and `specsearch evaluate` while other processes  *)
(* rebuild the index, exchange the embedding model and edit the query set  *)
(* (src/src/specsearch/evaluation.py).                                     *)
(*                                                                         *)
(* An index is the provider and the corpus that its metadata records.  A   *)
(* search is one step here: it reads one snapshot (SnapshotStore) and      *)
(* compares vectors of one model (ProviderBinding).                        *)
(***************************************************************************)
EXTENDS Naturals, Sequences

CONSTANTS
  Models,          \* what the provider may serve
  Corpora,         \* sets of imported packages
  QuerySets,       \* contents of the query file
  None,            \* no calibration, no provider, no report
  MaxSnapshots,    \* bound: publications in a behaviour
  DevQueries,      \* dev rows of a query set, one vector search each
  TestQueries,     \* rows of the evaluated split, three searches each
  CalibratesAlone  \* whether nobody publishes while calibrate runs

ASSUME EvaluationAssumption ==
  /\ None \notin Models \cup QuerySets
  /\ MaxSnapshots \in Nat /\ DevQueries \in Nat \ {0} /\ TestQueries \in Nat \ {0}
  /\ CalibratesAlone \in BOOLEAN

VARIABLES
  model,       \* the model the provider serves
  queries,     \* the query file
  indexes,     \* the published snapshots in order; the last one is active
  calibration, \* calibration.json
  cal,         \* the local variables of calibrate()
  ev,          \* the local variables of evaluate()
  report       \* what evaluate() returned, until the next evaluation starts

vars == <<model, queries, indexes, calibration, cal, ev, report>>

Index == [provider : Models \cup {None}, corpus : Corpora]

(* observed is history: the indexes from which the scores were read.       *)
Calibration ==
  [provider : Models \cup {None}, corpus : Corpora, queries : QuerySets, observed : SUBSET Index]

(* The modes in which evaluate() sends each query, in order.               *)
Modes == <<"lexical", "vector", "hybrid">>

(* A response: its snapshot, its mode, and the model whose query vector it *)
(* used (None for BM25, for a hybrid search that degraded to it, and for   *)
(* a query that is the exact name of something).                           *)
Response ==
  [snapshot : 1..MaxSnapshots, mode : {"lexical", "vector", "hybrid", "exact"},
   by : Models \cup {None}]

(* asOf is history: the active snapshot when the report was made.          *)
Report ==
  [index : 0..MaxSnapshots, asOf : 0..MaxSnapshots, calibration : Calibration \cup {None},
   queries : QuerySets, responses : SUBSET Response, passing : BOOLEAN]

active == Len(indexes)

TypeOK ==
  /\ model \in Models
  /\ queries \in QuerySets
  /\ indexes \in Seq(Index) /\ active <= MaxSnapshots
  /\ calibration \in Calibration \cup {None}
  /\ cal \in [pc : {"idle", "searching"}, queries : QuerySets \cup {None}, left : 0..DevQueries,
              observed : SUBSET Index]
  /\ ev \in [pc : {"idle", "loaded", "searching"}, calibration : Calibration \cup {None},
             queries : QuerySets \cup {None}, index : 0..MaxSnapshots, left : 0..(3 * TestQueries),
             responses : SUBSET Response]
  /\ report \in Report \cup {None}

(* The local variables of a function that is not running.                  *)
NotCalibrating == [pc |-> "idle", queries |-> None, left |-> 0, observed |-> {}]
NotEvaluating ==
  [pc |-> "idle", calibration |-> None, queries |-> None, index |-> 0, left |-> 0,
   responses |-> {}]

Init ==
  /\ model \in Models
  /\ queries \in QuerySets
  /\ indexes = <<>>
  /\ calibration = None
  /\ cal = NotCalibrating
  /\ ev = NotEvaluating
  /\ report = None

--------------------------------------------------------------------------------
(* Other processes.                                                        *)

ServeModel(m) ==
  /\ m # model
  /\ model' = m
  /\ UNCHANGED <<queries, indexes, calibration, cal, ev, report>>

EditQueries(q) ==
  /\ q # queries
  /\ queries' = q
  /\ UNCHANGED <<model, indexes, calibration, cal, ev, report>>

(* `index build`, or `index build --lexical`, which records no provider.   *)
Publish(c) ==
  /\ active < MaxSnapshots
  /\ CalibratesAlone => cal.pc = "idle"
  /\ \E p \in {model, None} : indexes' = Append(indexes, [provider |-> p, corpus |-> c])
  /\ UNCHANGED <<model, queries, calibration, cal, ev, report>>

--------------------------------------------------------------------------------
(* calibrate().  (ObserveOnceMore, CheckBindingIgnoringCorpus,             *)
(* FinishUnchecked and FinishIgnoringDegraded are the definitions below    *)
(* them as a plausible bug would make them; the specification uses none.)  *)

ReadQueries ==
  /\ cal.pc = "idle"
  /\ cal' = [pc |-> "searching", queries |-> queries, left |-> DevQueries, observed |-> {}]
  /\ UNCHANGED <<model, queries, indexes, calibration, ev, report>>

ObserveOnceMore ==
  /\ cal.pc = "searching" /\ active > 0
  /\ indexes[active].provider = model
  /\ cal' = [cal EXCEPT !.left = @ - 1, !.observed = @ \cup {indexes[active]}]
  /\ UNCHANGED <<model, queries, indexes, calibration, ev, report>>

(* A vector search finds an index of the served model, or raises.  It has  *)
(* no score to observe if it hits nothing, or if the query is an exact     *)
(* name, which is looked up without a vector.                              *)
Observe ==
  /\ cal.pc = "searching" /\ cal.left > 0 /\ active > 0
  /\ \/ /\ indexes[active].provider = model
        /\ cal' = [cal EXCEPT !.left = @ - 1, !.observed = @ \cup {indexes[active]}]
     \/ cal' = [cal EXCEPT !.left = @ - 1]
  /\ UNCHANGED <<model, queries, indexes, calibration, ev, report>>

(* After the threshold is chosen, which takes scores, store.status() names *)
(* what it is for.                                                         *)
Bind ==
  /\ cal.pc = "searching" /\ cal.left = 0 /\ cal.observed # {}
  /\ calibration' = [provider |-> indexes[active].provider, corpus |-> indexes[active].corpus,
                     queries |-> cal.queries, observed |-> cal.observed]
  /\ cal' = NotCalibrating
  /\ UNCHANGED <<model, queries, indexes, ev, report>>

(* A search that raises, or cases that allow no threshold.                 *)
AbandonCalibration ==
  /\ cal.pc = "searching"
  /\ cal' = NotCalibrating
  /\ UNCHANGED <<model, queries, indexes, calibration, ev, report>>

--------------------------------------------------------------------------------
(* evaluate().                                                             *)

LoadCalibration ==
  /\ ev.pc = "idle"
  /\ ev' = [ev EXCEPT !.pc = "loaded", !.calibration = calibration]
  /\ report' = None
  /\ UNCHANGED <<model, queries, indexes, calibration, cal>>

CheckBindingIgnoringCorpus ==
  /\ ev.pc = "loaded"
  /\ ev.calibration # None =>
       /\ active > 0
       /\ ev.calibration.queries = queries
       /\ ev.calibration.provider = indexes[active].provider
  /\ ev' = [ev EXCEPT !.pc = "searching", !.queries = queries, !.index = active,
                      !.left = 3 * TestQueries, !.responses = {}]
  /\ UNCHANGED <<model, queries, indexes, calibration, cal, report>>

(* The query file and the status are read, and compared with the binding   *)
(* of the calibration if there is one.                                     *)
CheckBinding ==
  /\ ev.pc = "loaded"
  /\ ev.calibration # None =>
       /\ active > 0
       /\ ev.calibration.queries = queries
       /\ ev.calibration.provider = indexes[active].provider
       /\ ev.calibration.corpus = indexes[active].corpus
  /\ ev' = [ev EXCEPT !.pc = "searching", !.queries = queries, !.index = active,
                      !.left = 3 * TestQueries, !.responses = {}]
  /\ UNCHANGED <<model, queries, indexes, calibration, cal, report>>

CurrentMode == Modes[((3 * TestQueries - ev.left) % 3) + 1]

(* A search of the active snapshot, which must be the one the evaluation   *)
(* began with.  Without a provider that answers for the model of the index *)
(* a vector search raises, and a hybrid one degrades.                      *)
Respond(mode, by) ==
  ev' = [ev EXCEPT !.left = @ - 1,
                   !.responses = @ \cup {[snapshot |-> active, mode |-> mode, by |-> by]}]

Measure ==
  /\ ev.pc = "searching" /\ ev.left > 0
  /\ active > 0 /\ active = ev.index
  /\ LET matches == indexes[active].provider = model
     IN  \/ Respond("exact", None)
         \/ CurrentMode = "lexical" /\ Respond("lexical", None)
         \/ CurrentMode = "vector" /\ matches /\ Respond("vector", model)
         \/ CurrentMode = "hybrid" /\ matches /\ Respond("hybrid", model)
         \/ CurrentMode = "hybrid" /\ Respond("hybrid", None)
  /\ UNCHANGED <<model, queries, indexes, calibration, cal, report>>

Degraded == \E x \in ev.responses : x.mode = "hybrid" /\ x.by = None

(* What is returned; `passing` stands for the most that the targets allow: *)
(* they need a calibration and no degraded response.                       *)
Evaluated ==
  [index |-> ev.index, asOf |-> active, calibration |-> ev.calibration, queries |-> ev.queries,
   responses |-> ev.responses, passing |-> ev.calibration # None /\ ~Degraded]

FinishUnchecked ==
  /\ ev.pc = "searching" /\ ev.left = 0
  /\ report' = Evaluated
  /\ ev' = NotEvaluating
  /\ UNCHANGED <<model, queries, indexes, calibration, cal>>

FinishIgnoringDegraded ==
  /\ ev.pc = "searching" /\ ev.left = 0
  /\ active = ev.index
  /\ report' = [Evaluated EXCEPT !.passing = ev.calibration # None]
  /\ ev' = NotEvaluating
  /\ UNCHANGED <<model, queries, indexes, calibration, cal>>

(* The status is read once more before the report is returned.             *)
Finish ==
  /\ ev.pc = "searching" /\ ev.left = 0
  /\ active = ev.index
  /\ report' = Evaluated
  /\ ev' = NotEvaluating
  /\ UNCHANGED <<model, queries, indexes, calibration, cal>>

(* Every check of evaluate() that fails raises.                            *)
AbandonEvaluation ==
  /\ ev.pc # "idle"
  /\ ev' = NotEvaluating
  /\ UNCHANGED <<model, queries, indexes, calibration, cal, report>>

Next ==
  \/ \E m \in Models : ServeModel(m)
  \/ \E q \in QuerySets : EditQueries(q)
  \/ \E c \in Corpora : Publish(c)
  \/ ReadQueries \/ Observe \/ Bind \/ AbandonCalibration
  \/ LoadCalibration \/ CheckBinding \/ Measure \/ Finish \/ AbandonEvaluation

Spec == Init /\ [][Next]_vars

--------------------------------------------------------------------------------
(* Properties.                                                             *)

(* A report is about one snapshot, which was active from the first search  *)
(* to the last check; a publication in between aborts the evaluation.      *)
ReportOneSnapshot ==
  report # None =>
    /\ report.index = report.asOf
    /\ \A x \in report.responses : x.snapshot = report.index

(* A report that meets the targets measured, besides BM25, only vectors of *)
(* the provider of its index.                                              *)
PassingReportScored ==
  report # None /\ report.passing =>
    \A x \in report.responses :
      x.mode \in {"vector", "hybrid"} => x.by = indexes[report.index].provider

(* The threshold in a report was chosen from scores of the index and for   *)
(* the queries that the report evaluates, not of another corpus or model.  *)
ReportCalibratedHere ==
  report # None /\ report.calibration # None =>
    /\ report.calibration.queries = report.queries
    /\ report.calibration.observed = {indexes[report.index]}
===============================================================================
