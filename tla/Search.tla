-------------------------------- MODULE Search --------------------------------
(***************************************************************************)
(* What a server answers to a search, and the threshold behind its labels: *)
(* rank fusion, degradation and match strengths of SearchService.search    *)
(* (src/src/specsearch/service.py), and the choice of `calibrate`          *)
(* (src/src/specsearch/evaluation.py), while indexes are published, the    *)
(* provider changes or is down, and the server keeps the calibration that  *)
(* it loaded when it started.                                              *)
(*                                                                         *)
(* A search is one step: SnapshotStore shows that it reads one snapshot,   *)
(* ProviderBinding that it compares vectors of one model.  `calibrate` is  *)
(* three: its searches, of which any rows may come, the reading of the     *)
(* status that it binds the threshold to, and the writing of the file;     *)
(* the index and the provider may change between them.  Scores are even    *)
(* numbers, two of which are float32 neighbours if they differ by 2; 1e-7  *)
(* is more than one such step and less than two.                           *)
(***************************************************************************)
EXTENDS Integers, Sequences, FiniteSets

CONSTANTS
  Providers,       \* identities of the embedding provider
  Corpora,         \* corpus digests
  Records,         \* record ids, which are ordered
  DevQueries,      \* dev rows of the query set
  Negatives,       \* those without relevant packages
  None,            \* no provider, calibration, score or response
  MaxHits,         \* bound: documents that match, 50 in the code
  MaxScore,        \* bound: levels of similarity
  TopK,            \* results that are asked for
  LimitNum,        \* strong negatives that calibrate allows, of
  LimitDen,        \* so many: 1 of 10 in the code
  MaxPublications, \* bound: indexes published
  MaxCalibrations  \* bound: calibrations made

ASSUME SearchAssumption ==
  /\ None \notin Providers \cup Corpora
  /\ Records \subseteq Nat /\ IsFiniteSet(Records)
  /\ Negatives \subseteq DevQueries /\ IsFiniteSet(DevQueries)
  /\ \A n \in {MaxHits, MaxScore, LimitNum, LimitDen, MaxPublications, MaxCalibrations} : n \in Nat
  /\ TopK \in Nat \ {0}

VARIABLES
  index,        \* the metadata of the active snapshot
  served,       \* what the provider serves, None if it does not answer
  file,         \* calibration.json
  loaded,       \* the calibration that the server has
  observed,     \* the rows that calibrate has scored, and the threshold of them
  bound,        \* the calibration that it returns, until it is written
  response,     \* the response of a search with its hits, until it is sent
  publications, \* indexes published so far
  calibrations  \* calibrations made so far

vars == <<index, served, file, loaded, observed, bound, response, publications, calibrations>>

Scores == {2 * n : n \in 0..MaxScore}
Highest == 2 * MaxScore + 4
Thresholds == -1..Highest
Index == [provider : Providers \cup {None}, corpus : Corpora]
Calibration ==
  [value : Thresholds, provider : Providers \cup {None}, corpus : Corpora, confirmed : BOOLEAN]
Row == [score : Scores \cup {None}, correct : BOOLEAN]
Labels == {"exact", "uncalibrated", "strong", "weak", "strong_provisional", "weak_provisional"}

TypeOK ==
  /\ index \in Index /\ served \in Providers \cup {None}
  /\ {file, loaded, bound} \subseteq Calibration \cup {None}
  /\ observed # None =>
       observed.rows \in [DevQueries -> Row] /\ observed.value \in Thresholds
  /\ response # None =>
       /\ response.mode \in {"exact", "lexical", "vector", "hybrid"}
       /\ Len(response.ids) <= TopK
       /\ \A r \in DOMAIN response.label : response.label[r] \in Labels
  /\ publications \in 0..MaxPublications /\ calibrations \in 0..MaxCalibrations

Init ==
  /\ index \in [provider : Providers, corpus : Corpora]
  /\ served = index.provider
  /\ file = None /\ loaded = None
  /\ observed = None /\ bound = None /\ response = None
  /\ publications = 0 /\ calibrations = 0

(* No search or calibration is running.  (They may overlap in different    *)
(* processes, but a search reads nothing that calibrate writes before the  *)
(* server restarts.)                                                       *)
Idle == observed = None /\ bound = None /\ response = None

--------------------------------------------------------------------------------
(* Ranking.  (The definitions whose names end in OfAll, OfPositives,       *)
(* OfLast and Keeping, KeepAll and RankingUncut are plausible bugs: the    *)
(* specification uses none of them.)                                       *)

(* Sequences of documents, each of a record, best first.                   *)
LexicalHits == UNION {[1..n -> Records] : n \in 0..MaxHits}
VectorHits ==
  {h \in UNION {[1..n -> Records \X Scores] : n \in 0..MaxHits} :
     \A i, j \in DOMAIN h : i < j => h[i][2] >= h[j][2]}

RecordsOf(h) == [i \in DOMAIN h |-> h[i][1]]
Found(list) == {list[i] : i \in DOMAIN list}
First(list, r) == CHOOSE i \in DOMAIN list : list[i] = r /\ \A j \in 1..(i - 1) : list[j] # r

KeepAll(list) == list

(* Each record once, at its best document.                                 *)
Collapse(list) ==
  LET firsts == {i \in DOMAIN list : \A j \in 1..(i - 1) : list[j] # list[i]}
  IN  [n \in 1..Cardinality(firsts) |->
         list[CHOOSE i \in firsts : Cardinality({j \in firsts : j < i}) = n - 1]]

(* 1 / (60 + rank) of each rank, in units that make all of them integers.  *)
Shares ==
  LET Units[n \in 0..MaxHits] == IF n = 0 THEN 1 ELSE (60 + n) * Units[n - 1]
  IN  [rank \in 1..MaxHits |-> Units[MaxHits] \div (60 + rank)]

(* What a list of records adds to the score of one of them.                *)
ScoreIn(list, r) ==
  LET Add[i \in 0..Len(list)] ==
        IF i = 0 THEN 0 ELSE Add[i - 1] + (IF list[i] = r THEN Shares[i] ELSE 0)
  IN  Add[Len(list)]

(* The first n of a set of scored records: by score, then by id.           *)
Top(n, scored) ==
  LET count == IF Cardinality(scored) < n THEN Cardinality(scored) ELSE n
      Precedes(x, y) == x[1] > y[1] \/ (x[1] = y[1] /\ x[2] < y[2])
      At(i) == CHOOSE x \in scored : Cardinality({y \in scored : Precedes(y, x)}) = i - 1
  IN  [i \in 1..count |-> At(i)[2]]

Scored(lexical, vector) ==
  LET bm25 == Collapse(lexical)
      cosine == Collapse(RecordsOf(vector))
      Fused(r) == ScoreIn(bm25, r) + ScoreIn(cosine, r)
  IN  {<<Fused(r), r>> : r \in Found(lexical) \cup Found(RecordsOf(vector))}

RankingUncut(lexical, vector) == Top(Cardinality(Records), Scored(lexical, vector))
Ranking(lexical, vector) == Top(TopK, Scored(lexical, vector))

--------------------------------------------------------------------------------
(* Match strengths.                                                        *)

(* The calibration is for this index.                                      *)
Applies(cal) == cal # None /\ cal.provider = index.provider /\ cal.corpus = index.corpus

Strong(score, value) == score >= value

CosineOfLast(vector, r) ==
  vector[CHOOSE i \in DOMAIN vector :
           vector[i][1] = r /\ \A j \in (i + 1)..Len(vector) : vector[j][1] # r][2]

(* The score of the first document of a record.                            *)
Cosine(vector, r) == vector[First(RecordsOf(vector), r)][2]

Strength(vector, r) ==
  LET list == RecordsOf(vector)
  IN  IF r \notin Found(list) \/ ~Applies(loaded) THEN "uncalibrated"
      ELSE LET strong == Strong(Cosine(vector, r), loaded.value)
           IN  IF loaded.confirmed THEN (IF strong THEN "strong" ELSE "weak")
               ELSE IF strong THEN "strong_provisional" ELSE "weak_provisional"

(* A response, and the hits behind it.                                     *)
Respond(mode, degraded, lexical, vector, ids, label) ==
  /\ response' = [mode |-> mode, degraded |-> degraded, lexical |-> lexical, vector |-> vector,
                  ids |-> ids, label |-> label]
  /\ UNCHANGED <<index, served, file, loaded, observed, bound, publications, calibrations>>

Answer(mode, degraded, lexical, vector) ==
  LET ids == Ranking(lexical, vector)
  IN  Respond(mode, degraded, lexical, vector, ids, [r \in Found(ids) |-> Strength(vector, r)])

(* The vectors of the index can be searched.                               *)
VectorsServe == index.provider # None /\ served = index.provider

(* The query is the name of some records: they are found by lookup alone.  *)
SearchExact(exact) ==
  /\ exact # {}
  /\ LET ids == Top(TopK, {<<0, r>> : r \in exact}) IN
       Respond("exact", FALSE, <<>>, <<>>, ids, [r \in Found(ids) |-> "exact"])

SearchLexical(lexical) == Answer("lexical", FALSE, lexical, <<>>)

SearchVector(vector) == Answer("vector", FALSE, <<>>, vector)

SearchHybrid(lexical, vector) == Answer("hybrid", FALSE, lexical, vector)

SearchDegradedKeeping(lexical) == \E vector \in VectorHits : Answer("lexical", TRUE, lexical, vector)

SearchDegraded(lexical) == Answer("lexical", TRUE, lexical, <<>>)

--------------------------------------------------------------------------------
(* calibrate: one vector search for each dev row, whose best result is     *)
(* scored; a row without result has no score.                              *)

Rows(rows) == {q \in DevQueries : rows[q].score # None}
ScoredNegatives(rows) == Rows(rows) \cap Negatives
ScoredPositives(rows) == Rows(rows) \ Negatives

StrongNegatives(rows, t) == Cardinality({q \in ScoredNegatives(rows) : rows[q].score >= t})
StrongCorrect(rows, t) ==
  Cardinality({q \in ScoredPositives(rows) : rows[q].score >= t /\ rows[q].correct})

(* score + 1e-7                                                            *)
Above(score) == score + 3

CandidatesOfPositives(rows) ==
  {-1, Highest} \cup {Above(rows[q].score) : q \in ScoredPositives(rows)}

Candidates(rows) == {-1, Highest} \cup {Above(rows[q].score) : q \in Rows(rows)}

EligibleOfAll(rows, t) ==
  StrongNegatives(rows, t) * LimitDen <= LimitNum * Cardinality(Rows(rows))

(* fpr <= 0.10                                                             *)
Eligible(rows, t) ==
  StrongNegatives(rows, t) * LimitDen <= LimitNum * Cardinality(ScoredNegatives(rows))

(* max(eligible): the best rate, and of those the highest threshold.       *)
Chosen(rows) ==
  LET eligible == {t \in Candidates(rows) : Eligible(rows, t)}
  IN  CHOOSE t \in eligible : \A u \in eligible :
        \/ StrongCorrect(rows, u) < StrongCorrect(rows, t)
        \/ StrongCorrect(rows, u) = StrongCorrect(rows, t) /\ u <= t

(* The last search that scores a row, and the choice of the threshold.     *)
Observe(rows) ==
  /\ calibrations < MaxCalibrations /\ VectorsServe
  /\ ScoredNegatives(rows) # {} /\ ScoredPositives(rows) # {}
  /\ observed' = [rows |-> rows, value |-> Chosen(rows)]
  /\ calibrations' = calibrations + 1
  /\ UNCHANGED <<index, served, file, loaded, bound, response, publications>>

(* store.status(): what it says by now, a lexical index included.          *)
Bind(confirmed) ==
  /\ observed # None
  /\ bound' = [value |-> observed.value, provider |-> index.provider, corpus |-> index.corpus,
               confirmed |-> confirmed]
  /\ observed' = None
  /\ UNCHANGED <<index, served, file, loaded, response, publications, calibrations>>

Write ==
  /\ bound # None
  /\ file' = bound /\ bound' = None
  /\ UNCHANGED <<index, served, loaded, observed, response, publications, calibrations>>

(* What calibrate may observe: only a positive row can be answered         *)
(* correctly, without a score if the query is the name of a record.        *)
Observations ==
  {rows \in [DevQueries -> Row] : \A q \in DevQueries : rows[q].correct => q \notin Negatives}

--------------------------------------------------------------------------------
(* The rest of the system.                                                 *)

(* `index build`, with the provider that is served or without.             *)
Publish(p, c) ==
  /\ publications < MaxPublications /\ p \in {served, None}
  /\ index' = [provider |-> p, corpus |-> c]
  /\ publications' = publications + 1
  /\ UNCHANGED <<served, file, loaded, observed, bound, response, calibrations>>

Serve(m) ==
  /\ served' = m
  /\ UNCHANGED <<index, file, loaded, observed, bound, response, publications, calibrations>>

(* The server reads calibration.json only when it starts.                  *)
Restart ==
  /\ loaded' = file
  /\ UNCHANGED <<index, served, file, observed, bound, response, publications, calibrations>>

(* The response is sent.                                                   *)
Return ==
  /\ response # None
  /\ response' = None
  /\ UNCHANGED <<index, served, file, loaded, observed, bound, publications, calibrations>>

(* Without vectors, or if the provider fails in the middle, a vector       *)
(* search raises, and a hybrid one goes on as a lexical one.               *)
Search ==
  \/ \E exact \in SUBSET Records : SearchExact(exact)
  \/ \E lexical \in LexicalHits : SearchLexical(lexical) \/ SearchDegraded(lexical)
  \/ /\ VectorsServe
     /\ \E vector \in VectorHits :
          SearchVector(vector) \/ \E lexical \in LexicalHits : SearchHybrid(lexical, vector)

Next ==
  \/ Idle /\ Search
  \/ Return
  \/ Idle /\ \E rows \in Observations : Observe(rows)
  \/ \E confirmed \in BOOLEAN : Bind(confirmed)
  \/ Write
  \/ /\ response = None
     /\ \/ \E p \in Providers \cup {None} : Serve(p) \/ \E c \in Corpora : Publish(p, c)
        \/ Restart

Spec == Init /\ [][Next]_vars

--------------------------------------------------------------------------------
(* Properties.                                                             *)

Ahead(list, r, s) == s \in Found(list) => r \in Found(list) /\ First(list, r) < First(list, s)

(* A record that is ahead of another in every list that has that one stays *)
(* ahead of it, and is not cut off below it, however many documents of     *)
(* each were found.                                                        *)
RankingFair ==
  response # None /\ response.mode # "exact" =>
    \A i \in DOMAIN response.ids, r \in Found(response.lexical) \cup Found(RecordsOf(response.vector)) :
      LET s == response.ids[i]
      IN  r # s /\ Ahead(response.lexical, r, s) /\ Ahead(RecordsOf(response.vector), r, s) =>
            \E j \in 1..(i - 1) : response.ids[j] = r

(* A hybrid search whose vectors failed, at whatever point, is what a      *)
(* lexical search returns: all that BM25 found as far as TopK, in its      *)
(* order, and no label of a calibration.                                   *)
DegradedIsLexical ==
  response # None /\ response.degraded =>
    LET bm25 == Collapse(response.lexical)
    IN  /\ \A i \in 1..TopK : i \in DOMAIN bm25 => i \in DOMAIN response.ids
        /\ \A i \in DOMAIN response.ids :
             /\ i \in DOMAIN bm25 /\ response.ids[i] = bm25[i]
             /\ response.label[response.ids[i]] = "uncalibrated"

(* However the documents of the records are interleaved, and in whatever   *)
(* order fusion ranks them: a record with a document that is as similar to *)
(* the query as every document of one that is called strong is not called  *)
(* weak, nor are provisional labels mixed with confirmed ones.             *)
StrengthFollowsSimilarity ==
  response # None =>
    \A i, j \in DOMAIN response.vector :
      LET r == response.vector[i][1]
          s == response.vector[j][1]
      IN  /\ r \in DOMAIN response.label /\ s \in DOMAIN response.label
          /\ response.label[r] \in {"strong", "strong_provisional"}
          /\ \A k \in DOMAIN response.vector :
               response.vector[k][1] = r => response.vector[j][2] >= response.vector[k][2]
          => response.label[s] = response.label[r]

(* Of all thresholds that call few enough negatives strong, and keep 1e-7  *)
(* above every score below them, none calls more correct results strong    *)
(* than the one calibrate chooses, or as many and fewer negatives.         *)
ThresholdOptimal ==
  observed # None =>
    LET rows == observed.rows
        chosen == observed.value
    IN  \A t \in Thresholds :
          /\ Eligible(rows, t)
          /\ \A q \in Rows(rows) : rows[q].score >= t \/ Above(rows[q].score) <= t
          => \/ StrongCorrect(rows, t) < StrongCorrect(rows, chosen)
             \/ /\ StrongCorrect(rows, t) = StrongCorrect(rows, chosen)
                /\ StrongNegatives(rows, t) >= StrongNegatives(rows, chosen)

(* On the rows it was chosen from, searches label no more negatives strong *)
(* than calibrate promises, ties and the ends of the range included.       *)
NegativesBounded ==
  observed # None =>
    LET negatives == {q \in Negatives : observed.rows[q].score # None}
    IN  Cardinality({q \in negatives : Strong(observed.rows[q].score, observed.value)}) * LimitDen
          <= LimitNum * Cardinality(negatives)
===============================================================================
