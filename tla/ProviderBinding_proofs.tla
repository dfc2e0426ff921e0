------------------------ MODULE ProviderBinding_proofs ------------------------
(***************************************************************************)
(* Proofs about ProviderBinding, for any number of models, texts, builds   *)
(* and queries: what holds of any provider, and what holds when it never   *)
(* serves a replaced model again.                                          *)
(***************************************************************************)
EXTENDS ProviderBinding, TLAPS

(* What encode() and its callers have established at each statement.       *)
StatementInv ==
  \A c \in Callers :
    /\ pc[c] \in {"lookup", "compute", "encoded"} => identity[c] # None
    /\ pc[c] \in Encoding => provider[c] # None
    /\ pc[c] = "idle" => provider[c] = None
    /\ pc[c] = "encoded" \/ (pc[c] = "done" /\ provider[c] # None)
         => \A t \in Texts : vectors[c][t] # None

(* A query searches a finished index of the provider it compares with.     *)
TargetInv ==
  \A q \in Queries :
    /\ pc[q] # "lookup"
    /\ pc[q] \in Encoding \cup {"done"} =>
         /\ target[q] \in Builds
         /\ pc[target[q]] = "done"
         /\ provider[q] = provider[target[q]]
         /\ provider[q] # None

AnyInv == TypeOK /\ StatementInv /\ TargetInv

(* From here on: when no replaced model returns.  One that was replaced is *)
(* gone, so that a reading equal to the present model was made in its time. *)
HistoryInv ==
  /\ model \notin replaced
  /\ \A c \in Callers :
       /\ identity[c] \in {None, model} \cup replaced
       /\ provider[c] \in {None, model} \cup replaced

(* While encode() runs, either all its vectors are of the identity it read *)
(* or that model has been replaced.  Its caller's identity is the same or  *)
(* an older one.                                                           *)
EncodeInv ==
  \A c \in Callers :
    /\ pc[c] = "compute" /\ identity[c] = model
         => \A t \in Texts : vectors[c][t] \in {None, model}
    /\ pc[c] = "encoded" => \A t \in Texts : vectors[c][t] = identity[c]
    /\ pc[c] \in {"lookup", "compute", "encoded"} => provider[c] \in {identity[c]} \cup replaced

QueryInv ==
  \A q \in Queries :
    /\ pc[q] = "identify" => vectors[q] = NoVectors
    /\ pc[q] = "done" => \A t \in Texts : vectors[q][t] = provider[q]

IInv == AnyInv /\ HistoryInv /\ EncodeInv /\ QueryInv /\ CacheBound /\ IndexBound

--------------------------------------------------------------------------------
LEMMA InvInit == Init => IInv
<1> SUFFICES ASSUME Init PROVE IInv
  OBVIOUS
<1>1. TypeOK
  BY BindingAssumption DEF Init, TypeOK, Callers, NoVectors
<1>2. StatementInv /\ TargetInv /\ HistoryInv /\ EncodeInv /\ QueryInv
  BY DEF Init, StatementInv, TargetInv, HistoryInv, EncodeInv, QueryInv, Callers, Encoding
<1>3. CacheBound /\ IndexBound
  BY DEF Init, CacheBound, IndexBound, Callers, NoVectors
<1> QED  BY <1>1, <1>2, <1>3 DEF IInv, AnyInv

LEMMA TypeStep == ASSUME AnyInv, [Next]_vars PROVE TypeOK'
<1> USE BindingAssumption
<1> USE DEF AnyInv, TypeOK, StatementInv, Callers, Encoding, NoVectors
<1>1. ASSUME NEW m \in Models, ServeModel(m) PROVE TypeOK'
  BY <1>1 DEF ServeModel
<1>2. ASSUME NEW b \in Builds, StartBuild(b) PROVE TypeOK'
  BY <1>2 DEF StartBuild, Building
<1>3. ASSUME NEW b \in Builds, BuildLexical(b) PROVE TypeOK'
  BY <1>3 DEF BuildLexical
<1>4. ASSUME NEW b \in Builds, Lookup(b) PROVE TypeOK'
  BY <1>4 DEF Lookup
<1>5. ASSUME NEW q \in Queries, StartQuery(q) PROVE TypeOK'
  BY <1>5 DEF StartQuery
<1>6. ASSUME NEW c \in Callers, Identify(c) PROVE TypeOK'
  BY <1>6 DEF Identify
<1>7. ASSUME NEW c \in Callers, NEW t \in Texts, Compute(c, t) PROVE TypeOK'
  BY <1>7 DEF Compute
<1>8. ASSUME NEW c \in Callers, Confirm(c) PROVE TypeOK'
  BY <1>8 DEF Confirm
<1>9. ASSUME NEW c \in Callers, Compare(c) PROVE TypeOK'
  BY <1>9 DEF Compare
<1>10. ASSUME NEW c \in Callers, Fail(c) PROVE TypeOK'
  BY <1>10 DEF Fail
<1>11. CASE UNCHANGED vars
  BY <1>11 DEF vars
<1> QED
  BY <1>1, <1>2, <1>3, <1>4, <1>5, <1>6, <1>7, <1>8, <1>9, <1>10, <1>11 DEF Next

LEMMA StatementStep == ASSUME AnyInv, [Next]_vars PROVE StatementInv'
<1> USE BindingAssumption
<1> USE DEF AnyInv, TypeOK, StatementInv, TargetInv, Callers, Encoding
<1>1. ASSUME NEW m \in Models, ServeModel(m) PROVE StatementInv'
  BY <1>1 DEF ServeModel
<1>2. ASSUME NEW b \in Builds, StartBuild(b) PROVE StatementInv'
  BY <1>2 DEF StartBuild, Building
<1>3. ASSUME NEW b \in Builds, BuildLexical(b) PROVE StatementInv'
  BY <1>3 DEF BuildLexical
<1>4. ASSUME NEW b \in Builds, Lookup(b) PROVE StatementInv'
  BY <1>4 DEF Lookup
<1>5. ASSUME NEW q \in Queries, StartQuery(q) PROVE StatementInv'
  BY <1>5 DEF StartQuery
<1>6. ASSUME NEW c \in Callers, Identify(c) PROVE StatementInv'
  BY <1>6 DEF Identify
<1>7. ASSUME NEW c \in Callers, NEW t \in Texts, Compute(c, t) PROVE StatementInv'
  BY <1>7 DEF Compute
<1>8. ASSUME NEW c \in Callers, Confirm(c) PROVE StatementInv'
  BY <1>8 DEF Confirm
<1>9. ASSUME NEW c \in Callers, Compare(c) PROVE StatementInv'
  BY <1>9 DEF Compare
<1>10. ASSUME NEW c \in Callers, Fail(c) PROVE StatementInv'
  BY <1>10 DEF Fail
<1>11. CASE UNCHANGED vars
  BY <1>11 DEF vars
<1> QED
  BY <1>1, <1>2, <1>3, <1>4, <1>5, <1>6, <1>7, <1>8, <1>9, <1>10, <1>11 DEF Next

LEMMA TargetStep == ASSUME AnyInv, [Next]_vars PROVE TargetInv'
<1> USE BindingAssumption
<1> USE DEF AnyInv, TypeOK, StatementInv, TargetInv, Callers, Encoding
<1>1. ASSUME NEW m \in Models, ServeModel(m) PROVE TargetInv'
  BY <1>1 DEF ServeModel
<1>2. ASSUME NEW b \in Builds, StartBuild(b) PROVE TargetInv'
  BY <1>2 DEF StartBuild, Building
<1>3. ASSUME NEW b \in Builds, BuildLexical(b) PROVE TargetInv'
  BY <1>3 DEF BuildLexical
<1>4. ASSUME NEW b \in Builds, Lookup(b) PROVE TargetInv'
  BY <1>4 DEF Lookup
<1>5. ASSUME NEW q \in Queries, StartQuery(q) PROVE TargetInv'
  BY <1>5 DEF StartQuery
<1>6. ASSUME NEW c \in Callers, Identify(c) PROVE TargetInv'
  BY <1>6 DEF Identify
<1>7. ASSUME NEW c \in Callers, NEW t \in Texts, Compute(c, t) PROVE TargetInv'
  BY <1>7 DEF Compute
<1>8. ASSUME NEW c \in Callers, Confirm(c) PROVE TargetInv'
  BY <1>8 DEF Confirm
<1>9. ASSUME NEW c \in Callers, Compare(c) PROVE TargetInv'
  BY <1>9 DEF Compare
<1>10. ASSUME NEW c \in Callers, Fail(c) PROVE TargetInv'
  BY <1>10 DEF Fail
<1>11. CASE UNCHANGED vars
  BY <1>11 DEF vars
<1> QED
  BY <1>1, <1>2, <1>3, <1>4, <1>5, <1>6, <1>7, <1>8, <1>9, <1>10, <1>11 DEF Next

(* A model that is replaced joins the past, and every reading is of the    *)
(* present or of the past.                                                 *)
LEMMA HistoryStep == ASSUME MayRevert = FALSE, IInv, [Next]_vars PROVE HistoryInv'
<1> USE BindingAssumption
<1> USE DEF IInv, AnyInv, TypeOK, HistoryInv, Callers
<1>1. ASSUME NEW m \in Models, ServeModel(m) PROVE HistoryInv'
  BY <1>1 DEF ServeModel
<1>2. ASSUME NEW b \in Builds, StartBuild(b) PROVE HistoryInv'
  BY <1>2 DEF StartBuild, Building
<1>3. ASSUME NEW b \in Builds, BuildLexical(b) PROVE HistoryInv'
  BY <1>3 DEF BuildLexical
<1>4. ASSUME NEW b \in Builds, Lookup(b) PROVE HistoryInv'
  BY <1>4 DEF Lookup
<1>5. ASSUME NEW q \in Queries, StartQuery(q) PROVE HistoryInv'
  BY <1>5 DEF StartQuery
<1>6. ASSUME NEW c \in Callers, Identify(c) PROVE HistoryInv'
  BY <1>6 DEF Identify
<1>7. ASSUME NEW c \in Callers, NEW t \in Texts, Compute(c, t) PROVE HistoryInv'
  BY <1>7 DEF Compute
<1>8. ASSUME NEW c \in Callers, Confirm(c) PROVE HistoryInv'
  BY <1>8 DEF Confirm
<1>9. ASSUME NEW c \in Callers, Compare(c) PROVE HistoryInv'
  BY <1>9 DEF Compare
<1>10. ASSUME NEW c \in Callers, Fail(c) PROVE HistoryInv'
  BY <1>10 DEF Fail
<1>11. CASE UNCHANGED vars
  BY <1>11 DEF vars
<1> QED
  BY <1>1, <1>2, <1>3, <1>4, <1>5, <1>6, <1>7, <1>8, <1>9, <1>10, <1>11 DEF Next

LEMMA EncodeStep == ASSUME MayRevert = FALSE, IInv, [Next]_vars PROVE EncodeInv'
<1> USE BindingAssumption
<1> USE DEF IInv, AnyInv, TypeOK, StatementInv, TargetInv, HistoryInv, EncodeInv, QueryInv,
            CacheBound, Callers, Encoding, NoVectors
<1>1. ASSUME NEW m \in Models, ServeModel(m) PROVE EncodeInv'
  BY <1>1 DEF ServeModel
<1>2. ASSUME NEW b \in Builds, StartBuild(b) PROVE EncodeInv'
  BY <1>2 DEF StartBuild, Building
<1>3. ASSUME NEW b \in Builds, BuildLexical(b) PROVE EncodeInv'
  BY <1>3 DEF BuildLexical
<1>4. ASSUME NEW b \in Builds, Lookup(b) PROVE EncodeInv'
  BY <1>4 DEF Lookup
<1>5. ASSUME NEW q \in Queries, StartQuery(q) PROVE EncodeInv'
  BY <1>5 DEF StartQuery
<1>6. ASSUME NEW c \in Callers, Identify(c) PROVE EncodeInv'
  BY <1>6 DEF Identify
<1>7. ASSUME NEW c \in Callers, NEW t \in Texts, Compute(c, t) PROVE EncodeInv'
  BY <1>7 DEF Compute
<1>8. ASSUME NEW c \in Callers, Confirm(c) PROVE EncodeInv'
  BY <1>8 DEF Confirm
<1>9. ASSUME NEW c \in Callers, Compare(c) PROVE EncodeInv'
  BY <1>9 DEF Compare
<1>10. ASSUME NEW c \in Callers, Fail(c) PROVE EncodeInv'
  BY <1>10 DEF Fail
<1>11. CASE UNCHANGED vars
  BY <1>11 DEF vars
<1> QED
  BY <1>1, <1>2, <1>3, <1>4, <1>5, <1>6, <1>7, <1>8, <1>9, <1>10, <1>11 DEF Next

LEMMA QueryStep == ASSUME MayRevert = FALSE, IInv, [Next]_vars PROVE QueryInv'
<1> USE BindingAssumption
<1> USE DEF IInv, AnyInv, TypeOK, StatementInv, TargetInv, HistoryInv, EncodeInv, QueryInv, Callers,
            Encoding
<1>1. ASSUME NEW m \in Models, ServeModel(m) PROVE QueryInv'
  BY <1>1 DEF ServeModel
<1>2. ASSUME NEW b \in Builds, StartBuild(b) PROVE QueryInv'
  BY <1>2 DEF StartBuild, Building
<1>3. ASSUME NEW b \in Builds, BuildLexical(b) PROVE QueryInv'
  BY <1>3 DEF BuildLexical
<1>4. ASSUME NEW b \in Builds, Lookup(b) PROVE QueryInv'
  BY <1>4 DEF Lookup
<1>5. ASSUME NEW q \in Queries, StartQuery(q) PROVE QueryInv'
  BY <1>5 DEF StartQuery
<1>6. ASSUME NEW c \in Callers, Identify(c) PROVE QueryInv'
  BY <1>6 DEF Identify
<1>7. ASSUME NEW c \in Callers, NEW t \in Texts, Compute(c, t) PROVE QueryInv'
  BY <1>7 DEF Compute
<1>8. ASSUME NEW c \in Callers, Confirm(c) PROVE QueryInv'
  BY <1>8 DEF Confirm
<1>9. ASSUME NEW c \in Callers, Compare(c) PROVE QueryInv'
  BY <1>9 DEF Compare
<1>10. ASSUME NEW c \in Callers, Fail(c) PROVE QueryInv'
  BY <1>10 DEF Fail
<1>11. CASE UNCHANGED vars
  BY <1>11 DEF vars
<1> QED
  BY <1>1, <1>2, <1>3, <1>4, <1>5, <1>6, <1>7, <1>8, <1>9, <1>10, <1>11 DEF Next

(* The cache changes only when the provider still serves the model whose   *)
(* identity encode() read, and an index is finished only then.             *)
LEMMA BoundStep ==
  ASSUME MayRevert = FALSE, IInv, [Next]_vars PROVE CacheBound' /\ IndexBound'
<1> USE BindingAssumption
<1> USE DEF IInv, AnyInv, TypeOK, StatementInv, HistoryInv, EncodeInv, CacheBound, IndexBound,
            Callers, Encoding
<1>1. ASSUME NEW m \in Models, ServeModel(m) PROVE CacheBound' /\ IndexBound'
  BY <1>1 DEF ServeModel
<1>2. ASSUME NEW b \in Builds, StartBuild(b) PROVE CacheBound' /\ IndexBound'
  BY <1>2 DEF StartBuild, Building
<1>3. ASSUME NEW b \in Builds, BuildLexical(b) PROVE CacheBound' /\ IndexBound'
  BY <1>3 DEF BuildLexical
<1>4. ASSUME NEW b \in Builds, Lookup(b) PROVE CacheBound' /\ IndexBound'
  BY <1>4 DEF Lookup
<1>5. ASSUME NEW q \in Queries, StartQuery(q) PROVE CacheBound' /\ IndexBound'
  BY <1>5 DEF StartQuery
<1>6. ASSUME NEW c \in Callers, Identify(c) PROVE CacheBound' /\ IndexBound'
  BY <1>6 DEF Identify
<1>7. ASSUME NEW c \in Callers, NEW t \in Texts, Compute(c, t) PROVE CacheBound' /\ IndexBound'
  BY <1>7 DEF Compute
<1>8. ASSUME NEW c \in Callers, Confirm(c) PROVE CacheBound' /\ IndexBound'
  BY <1>8 DEF Confirm
<1>9. ASSUME NEW c \in Callers, Compare(c) PROVE CacheBound' /\ IndexBound'
  BY <1>9 DEF Compare
<1>10. ASSUME NEW c \in Callers, Fail(c) PROVE CacheBound' /\ IndexBound'
  BY <1>10 DEF Fail
<1>11. CASE UNCHANGED vars
  BY <1>11 DEF vars
<1> QED
  BY <1>1, <1>2, <1>3, <1>4, <1>5, <1>6, <1>7, <1>8, <1>9, <1>10, <1>11 DEF Next

LEMMA AnyInvariance == Spec => []AnyInv
<1>1. AnyInv /\ [Next]_vars => AnyInv'
  BY TypeStep, StatementStep, TargetStep DEF AnyInv
<1>2. Init => AnyInv
  BY InvInit DEF IInv
<1> QED  BY <1>1, <1>2, PTL DEF Spec

LEMMA Invariance == ASSUME MayRevert = FALSE PROVE Spec => []IInv
<1>1. IInv /\ [Next]_vars => IInv'
  BY TypeStep, StatementStep, TargetStep, HistoryStep, EncodeStep, QueryStep, BoundStep
  DEF IInv, AnyInv
<1> QED  BY InvInit, <1>1, PTL DEF Spec

(* Builds, queries and the cache keep their types, also while the provider *)
(* is replaced between the three requests of an embedding.                 *)
THEOREM TypeCorrect == Spec => []TypeOK
<1>1. AnyInv => TypeOK
  BY DEF AnyInv
<1> QED  BY <1>1, AnyInvariance, PTL

(* Whatever the provider serves and whenever it fails: no chunk of an index *)
(* with a provider is without a vector, and a search that scored has the   *)
(* vector of its query and searched a finished index of the very provider  *)
(* it compared with, never a lexical one.                                  *)
THEOREM NoVectorIsMissing ==
  Spec => []( /\ \A b \in Builds : pc[b] = "done" /\ provider[b] # None =>
                   \A t \in Texts : vectors[b][t] # None
              /\ \A q \in Queries : pc[q] = "done" =>
                   /\ pc[target[q]] = "done" /\ provider[target[q]] = provider[q]
                   /\ \A t \in Texts : vectors[q][t] # None /\ vectors[target[q]][t] # None)
<1>1. AnyInv => /\ \A b \in Builds : pc[b] = "done" /\ provider[b] # None =>
                     \A t \in Texts : vectors[b][t] # None
                /\ \A q \in Queries : pc[q] = "done" =>
                     /\ pc[target[q]] = "done" /\ provider[target[q]] = provider[q]
                     /\ \A t \in Texts : vectors[q][t] # None /\ vectors[target[q]][t] # None
  BY DEF AnyInv, StatementInv, TargetInv, Callers
<1> QED  BY <1>1, AnyInvariance, PTL

(* A vector cached under an identity was computed by that model.           *)
THEOREM CacheIsBound == ASSUME MayRevert = FALSE PROVE Spec => []CacheBound
<1>1. IInv => CacheBound
  BY DEF IInv
<1> QED  BY <1>1, Invariance, PTL

(* An index holds vectors of the provider that its metadata names.         *)
THEOREM IndexIsBound == ASSUME MayRevert = FALSE PROVE Spec => []IndexBound
<1>1. IInv => IndexBound
  BY DEF IInv
<1> QED  BY <1>1, Invariance, PTL

(* A scored query and the index it was compared with are of one model.     *)
THEOREM ScoresAreComparable == ASSUME MayRevert = FALSE PROVE Spec => []ScoresComparable
<1>1. IInv => ScoresComparable
  BY DEF IInv, AnyInv, TargetInv, QueryInv, IndexBound, ScoresComparable
<1> QED  BY <1>1, Invariance, PTL

--------------------------------------------------------------------------------
(* A provider that goes back to a model it has replaced does harm only in  *)
(* the middle of an embedding.                                             *)

Busy == \E c \in Callers : pc[c] \in Encoding

Quiet == Busy => model' = model

QuietInv ==
  /\ \A c \in Callers :
       /\ pc[c] \in {"lookup", "compute", "encoded"} => identity[c] = model
       /\ pc[c] \in Encoding => provider[c] = model
       /\ pc[c] = "compute" => \A t \in Texts : vectors[c][t] \in {None, model}
       /\ pc[c] = "encoded" => \A t \in Texts : vectors[c][t] = model
  /\ \A q \in Queries :
       /\ pc[q] = "identify" => vectors[q] = NoVectors
       /\ pc[q] = "done" => \A t \in Texts : vectors[q][t] = provider[q]
  /\ CacheBound /\ IndexBound

LEMMA QuietStep ==
  ASSUME AnyInv, QuietInv, [Next]_vars, [Quiet]_vars PROVE QuietInv'
<1> USE BindingAssumption
<1> USE DEF AnyInv, TypeOK, StatementInv, TargetInv, QuietInv, CacheBound, IndexBound, Callers,
            Encoding, NoVectors
<1>1. ASSUME NEW m \in Models, ServeModel(m) PROVE QuietInv'
  BY <1>1 DEF ServeModel, Quiet, Busy, vars
<1>2. ASSUME NEW b \in Builds, StartBuild(b) PROVE QuietInv'
  BY <1>2 DEF StartBuild, Building
<1>3. ASSUME NEW b \in Builds, BuildLexical(b) PROVE QuietInv'
  BY <1>3 DEF BuildLexical
<1>4. ASSUME NEW b \in Builds, Lookup(b) PROVE QuietInv'
  BY <1>4 DEF Lookup
<1>5. ASSUME NEW q \in Queries, StartQuery(q) PROVE QuietInv'
  BY <1>5 DEF StartQuery
<1>6. ASSUME NEW c \in Callers, Identify(c) PROVE QuietInv'
  BY <1>6 DEF Identify
<1>7. ASSUME NEW c \in Callers, NEW t \in Texts, Compute(c, t) PROVE QuietInv'
  BY <1>7 DEF Compute
<1>8. ASSUME NEW c \in Callers, Confirm(c) PROVE QuietInv'
  BY <1>8 DEF Confirm
<1>9. ASSUME NEW c \in Callers, Compare(c) PROVE QuietInv'
  BY <1>9 DEF Compare
<1>10. ASSUME NEW c \in Callers, Fail(c) PROVE QuietInv'
  BY <1>10 DEF Fail
<1>11. CASE UNCHANGED vars
  BY <1>11 DEF vars
<1> QED
  BY <1>1, <1>2, <1>3, <1>4, <1>5, <1>6, <1>7, <1>8, <1>9, <1>10, <1>11 DEF Next

(* If models are replaced only between embeddings, cache, indexes and      *)
(* scores are bound to one model, though replaced models return.           *)
THEOREM QuietProviderIsBound ==
  Spec /\ [][Quiet]_vars => [](CacheBound /\ IndexBound /\ ScoresComparable)
<1>1. Init => QuietInv
  BY DEF Init, QuietInv, CacheBound, IndexBound, Callers, Encoding, NoVectors
<1>2. AnyInv /\ QuietInv => CacheBound /\ IndexBound /\ ScoresComparable
  BY DEF AnyInv, TargetInv, QuietInv, IndexBound, ScoresComparable
<1> QED  BY <1>1, <1>2, QuietStep, AnyInvariance, PTL DEF Spec
===============================================================================
