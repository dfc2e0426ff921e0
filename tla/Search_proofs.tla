----------------------------- MODULE Search_proofs -----------------------------
(***************************************************************************)
(* Proofs about Search: the ranking, match strengths and the threshold of  *)
(* `calibrate`, for any hits, any query set, any scores, any limit and any *)
(* number of results.  Scores, shares and ranks are defined by recursion   *)
(* or counting; what they are is shown by taking a least counterexample.   *)
(***************************************************************************)
EXTENDS Search, FiniteSetTheorems, WellFoundedInduction, TLAPS

--------------------------------------------------------------------------------
(* Numbers.                                                                *)

(* The natural numbers are well-founded.                                   *)
LEMMA Least == ASSUME NEW S \in SUBSET Nat, S # {} PROVE \E x \in S : \A y \in S : x <= y
<1> DEFINE Less == {pair \in Nat \X Nat : pair[1] < pair[2]}
<1>1. IsWellFoundedOn(Less, Nat)
  BY NatLessThanWellFounded DEF OpToRel
<1>2. PICK x \in S : \A y \in S : <<y, x>> \notin Less
  <2> HIDE DEF Less
  <2> QED  BY <1>1, WFMin
<1>3. ASSUME NEW y \in S PROVE x <= y
  <2>1. <<y, x>> \in Nat \X Nat /\ ~(y < x)
    BY <1>2
  <2> QED  BY <2>1
<1> QED  BY <1>3

(* A bounded set of integers has a greatest element.                       *)
LEMMA Greatest ==
  ASSUME NEW S \in SUBSET Int, S # {}, NEW n \in Int, \A x \in S : x <= n
  PROVE  \E x \in S : \A y \in S : y <= x
<1> DEFINE Below == {n - x : x \in S}
<1>1. Below \in SUBSET Nat /\ Below # {}
  <2>1. \A x \in S : n - x \in Nat
    OBVIOUS
  <2> QED  BY <2>1
<1>2. PICK d \in Below : \A e \in Below : d <= e
  <2> HIDE DEF Below
  <2> QED  BY <1>1, Least
<1>3. PICK x \in S : d = n - x
  OBVIOUS
<1>4. ASSUME NEW y \in S PROVE y <= x
  <2>1. n - x <= n - y
    BY <1>2, <1>3
  <2> QED  BY <2>1
<1> QED  BY <1>4

LEMMA Bounds ==
  /\ MaxHits \in Nat /\ MaxScore \in Nat /\ LimitNum \in Nat /\ LimitDen \in Nat
  /\ MaxPublications \in Nat /\ MaxCalibrations \in Nat
  BY SearchAssumption

--------------------------------------------------------------------------------
(* The threshold.                                                          *)

(* The rows that calibrate counts are dev rows.                            *)
LEMMA Counts ==
  ASSUME NEW rows, NEW t
  PROVE  /\ StrongCorrect(rows, t) \in 0..Cardinality(DevQueries)
         /\ StrongNegatives(rows, t) \in 0..Cardinality(DevQueries)
         /\ Cardinality(DevQueries) \in Nat
         /\ Cardinality(ScoredNegatives(rows)) \in Nat
<1> DEFINE correct == {q \in ScoredPositives(rows) : rows[q].score >= t /\ rows[q].correct}
           negative == {q \in ScoredNegatives(rows) : rows[q].score >= t}
<1>1. IsFiniteSet(DevQueries) /\ Cardinality(DevQueries) \in Nat
  BY SearchAssumption, FS_CardinalityType
<1>2. /\ correct \in SUBSET DevQueries /\ negative \in SUBSET DevQueries
      /\ ScoredNegatives(rows) \in SUBSET DevQueries
  BY DEF ScoredPositives, ScoredNegatives, Rows
<1>3. StrongCorrect(rows, t) = Cardinality(correct) /\ StrongNegatives(rows, t) = Cardinality(negative)
  BY DEF StrongCorrect, StrongNegatives
<1>4. ASSUME NEW S \in SUBSET DevQueries PROVE Cardinality(S) \in 0..Cardinality(DevQueries)
  BY <1>1, FS_Subset, FS_CardinalityType
<1> HIDE DEF correct, negative
<1> QED  BY <1>1, <1>2, <1>3, <1>4

(* A candidate is a threshold, and the highest one is eligible.            *)
LEMMA CandidatesServe ==
  ASSUME NEW rows \in [DevQueries -> Row]
  PROVE  Candidates(rows) \subseteq Thresholds /\ Highest \in Candidates(rows) /\ Eligible(rows, Highest)
<1>1. ASSUME NEW q \in Rows(rows) PROVE rows[q].score \in 0..(2 * MaxScore)
  <2>1. rows[q].score \in Scores
    BY DEF Rows, Row
  <2>2. PICK n \in 0..MaxScore : rows[q].score = 2 * n
    BY <2>1 DEF Scores
  <2> QED  BY <2>2, Bounds
<1>2. Candidates(rows) \subseteq Thresholds /\ Highest \in Candidates(rows)
  BY <1>1, Bounds DEF Candidates, Thresholds, Highest, Above
<1>3. {q \in ScoredNegatives(rows) : rows[q].score >= Highest} = {}
  BY <1>1, Bounds DEF ScoredNegatives, Highest
<1>4. StrongNegatives(rows, Highest) = 0
  BY <1>3, FS_EmptySet DEF StrongNegatives
<1>5. 0 * LimitDen = 0 /\ LimitNum * Cardinality(ScoredNegatives(rows)) \in Nat
  BY Counts, Bounds
<1> QED  BY <1>2, <1>4, <1>5 DEF Eligible

(* max(eligible) exists, and it is the best candidate.                     *)
LEMMA ChosenIsBest ==
  ASSUME NEW rows \in [DevQueries -> Row]
  PROVE  /\ Chosen(rows) \in Thresholds
         /\ Eligible(rows, Chosen(rows))
         /\ \A u \in Candidates(rows) : Eligible(rows, u) =>
              \/ StrongCorrect(rows, u) < StrongCorrect(rows, Chosen(rows))
              \/ StrongCorrect(rows, u) = StrongCorrect(rows, Chosen(rows)) /\ u <= Chosen(rows)
<1> DEFINE eligible == {t \in Candidates(rows) : Eligible(rows, t)}
           rate(t) == StrongCorrect(rows, t)
           best(t) == \A u \in eligible : rate(u) < rate(t) \/ (rate(u) = rate(t) /\ u <= t)
<1>1. eligible # {} /\ eligible \subseteq Thresholds
  BY CandidatesServe
<1>2. \A t : rate(t) \in Nat /\ rate(t) <= Cardinality(DevQueries)
  BY Counts
<1>3. PICK r \in {rate(t) : t \in eligible} : \A s \in {rate(t) : t \in eligible} : s <= r
  <2> DEFINE rates == {rate(t) : t \in eligible}
  <2> HIDE DEF eligible, rate
  <2>1. rates \in SUBSET Int /\ rates # {} /\ \A s \in rates : s <= Cardinality(DevQueries)
    BY <1>1, <1>2
  <2>2. Cardinality(DevQueries) \in Int
    BY Counts
  <2>3. \E r \in rates : \A s \in rates : s <= r
    <3> HIDE DEF rates
    <3> QED  BY <2>1, <2>2, Greatest
  <2> QED  BY <2>3
<1>4. PICK t \in {x \in eligible : rate(x) = r} : \A u \in {x \in eligible : rate(x) = r} : u <= t
  <2> HIDE DEF eligible, rate
  <2>1. Highest \in Int /\ \A x \in Thresholds : x \in Int /\ x <= Highest
    BY Bounds DEF Thresholds, Highest
  <2>2. {x \in eligible : rate(x) = r} \in SUBSET Int /\ {x \in eligible : rate(x) = r} # {}
    BY <1>1, <1>3, <2>1
  <2>3. \A u \in {x \in eligible : rate(x) = r} : u <= Highest
    BY <1>1, <2>1
  <2> QED  BY <2>1, <2>2, <2>3, Greatest
<1>5. best(t)
  <2> HIDE DEF eligible, rate
  <2> QED  BY <1>2, <1>3, <1>4
<1>6. Chosen(rows) = CHOOSE x \in eligible : best(x)
  BY DEF Chosen
<1>7. Chosen(rows) \in eligible /\ best(Chosen(rows))
  <2> HIDE DEF eligible, best
  <2> QED  BY <1>4, <1>5, <1>6
<1> QED  BY <1>1, <1>7

(* Two thresholds that are exceeded by the same scores serve alike.        *)
LEMMA AlikeServe ==
  ASSUME NEW rows, NEW t, NEW u, \A q \in Rows(rows) : (rows[q].score >= t) <=> (rows[q].score >= u)
  PROVE  /\ StrongCorrect(rows, t) = StrongCorrect(rows, u)
         /\ StrongNegatives(rows, t) = StrongNegatives(rows, u)
         /\ Eligible(rows, t) <=> Eligible(rows, u)
<1>1. \A q \in ScoredPositives(rows) \cup ScoredNegatives(rows) : q \in Rows(rows)
  BY DEF ScoredPositives, ScoredNegatives
<1>2. {q \in ScoredPositives(rows) : rows[q].score >= t /\ rows[q].correct} =
      {q \in ScoredPositives(rows) : rows[q].score >= u /\ rows[q].correct}
  BY <1>1
<1>3. {q \in ScoredNegatives(rows) : rows[q].score >= t} =
      {q \in ScoredNegatives(rows) : rows[q].score >= u}
  BY <1>1
<1>4. StrongCorrect(rows, t) = StrongCorrect(rows, u) /\ StrongNegatives(rows, t) = StrongNegatives(rows, u)
  BY <1>2, <1>3 DEF StrongCorrect, StrongNegatives
<1> QED  BY <1>4 DEF Eligible

(* A higher threshold calls no more negatives strong.                      *)
LEMMA HigherIsStricter ==
  ASSUME NEW rows \in [DevQueries -> Row], NEW t \in Thresholds, NEW u \in Thresholds, t <= u
  PROVE  StrongNegatives(rows, u) <= StrongNegatives(rows, t)
<1> DEFINE above(x) == {q \in ScoredNegatives(rows) : rows[q].score >= x}
<1>1. ASSUME NEW q \in ScoredNegatives(rows) PROVE rows[q].score \in Int /\ q \in DevQueries
  BY SearchAssumption DEF ScoredNegatives, Rows, Row, Scores
<1>2. above(u) \in SUBSET above(t) /\ above(t) \in SUBSET DevQueries
  BY <1>1 DEF Thresholds
<1>3. IsFiniteSet(above(t))
  <2> HIDE DEF above
  <2> QED  BY <1>2, FS_Subset, SearchAssumption
<1>4. Cardinality(above(u)) <= Cardinality(above(t))
  <2> HIDE DEF above
  <2> QED  BY <1>2, <1>3, FS_Subset
<1> QED  BY <1>4 DEF StrongNegatives

(* A threshold with no score just below it is no better than a candidate,  *)
(* which is 1e-7 above the greatest score below it, or -1.                 *)
LEMMA CandidatesSuffice ==
  ASSUME NEW rows \in [DevQueries -> Row], NEW t \in Thresholds,
         \A q \in Rows(rows) : rows[q].score >= t \/ Above(rows[q].score) <= t
  PROVE  \E u \in Candidates(rows) :
           u <= t /\ \A q \in Rows(rows) : (rows[q].score >= t) <=> (rows[q].score >= u)
<1> DEFINE below == {rows[q].score : q \in {q \in Rows(rows) : ~(rows[q].score >= t)}}
<1>1. t \in Int /\ t >= -1 /\ \A q \in Rows(rows) : rows[q].score \in Nat
  BY SearchAssumption DEF Thresholds, Highest, Rows, Row, Scores
<1>2. CASE below = {}
  <2>1. -1 \in Candidates(rows) /\ \A q \in Rows(rows) : rows[q].score >= t
    BY <1>2 DEF Candidates
  <2> QED  BY <1>1, <2>1
<1>3. CASE below # {}
  <2>1. below \in SUBSET Int /\ \A s \in below : s <= t
    BY <1>1
  <2>2. PICK s \in below : \A x \in below : x <= s
    <3> HIDE DEF below
    <3> QED  BY <1>1, <1>3, <2>1, Greatest
  <2>3. PICK p \in Rows(rows) : s = rows[p].score /\ ~(rows[p].score >= t)
    OBVIOUS
  <2>4. Above(s) \in Candidates(rows) /\ Above(s) <= t
    BY <2>3 DEF Candidates
  <2>5. ASSUME NEW q \in Rows(rows) PROVE (rows[q].score >= t) <=> (rows[q].score >= Above(s))
    <3>1. CASE rows[q].score >= t
      BY <1>1, <2>3, <2>4, <3>1 DEF Above
    <3>2. CASE ~(rows[q].score >= t)
      <4>1. rows[q].score <= s
        BY <2>2, <3>2
      <4> QED  BY <1>1, <2>3, <3>2, <4>1 DEF Above
    <3> QED  BY <3>1, <3>2
  <2> QED  BY <2>4, <2>5
<1> QED  BY <1>2, <1>3

--------------------------------------------------------------------------------
(* Orders.                                                                 *)

(* A relation orders S strictly if it is irreflexive, transitive and total *)
(* on it; an element's rank is the number of those before it.              *)
Orders(rel, S) ==
  /\ \A x \in S : <<x, x>> \notin rel
  /\ \A x, y, z \in S : <<x, y>> \in rel /\ <<y, z>> \in rel => <<x, z>> \in rel
  /\ \A x, y \in S : x = y \/ <<x, y>> \in rel \/ <<y, x>> \in rel

Before(rel, S, x) == {y \in S : <<y, x>> \in rel}
Rank(rel, S, x) == Cardinality(Before(rel, S, x))

(* Ranks are ordered as the elements are, and below the cardinality.       *)
LEMMA RanksFollow ==
  ASSUME NEW S, IsFiniteSet(S), NEW rel, Orders(rel, S), NEW x \in S, NEW y \in S
  PROVE  /\ Rank(rel, S, x) \in Nat /\ Rank(rel, S, x) < Cardinality(S)
         /\ <<x, y>> \in rel <=> Rank(rel, S, x) < Rank(rel, S, y)
<1>1. ASSUME NEW z \in S
      PROVE  /\ Before(rel, S, z) \in SUBSET S /\ IsFiniteSet(Before(rel, S, z))
             /\ z \notin Before(rel, S, z) /\ Rank(rel, S, z) \in Nat
  <2>1. Before(rel, S, z) \in SUBSET S /\ z \notin Before(rel, S, z)
    BY DEF Before, Orders
  <2> QED  BY <2>1, FS_Subset, FS_CardinalityType DEF Rank
<1>2. Cardinality(S) \in Nat
  BY FS_CardinalityType
<1>3. Rank(rel, S, x) < Cardinality(S)
  BY <1>1, <1>2, FS_Subset DEF Rank
<1>4. ASSUME NEW u \in S, NEW v \in S, <<u, v>> \in rel
      PROVE  Rank(rel, S, u) < Rank(rel, S, v)
  <2>1. Before(rel, S, u) \in SUBSET Before(rel, S, v) /\ u \in Before(rel, S, v)
    BY <1>4 DEF Before, Orders
  <2>2. Rank(rel, S, u) <= Rank(rel, S, v) /\ Rank(rel, S, u) # Rank(rel, S, v)
    BY <1>1, <2>1, FS_Subset DEF Rank
  <2>3. Rank(rel, S, u) \in Nat /\ Rank(rel, S, v) \in Nat
    BY <1>1
  <2> QED  BY <2>2, <2>3
<1>5. CASE <<x, y>> \in rel
  BY <1>1, <1>3, <1>4, <1>5
<1>6. CASE <<y, x>> \in rel
  <2>1. <<x, y>> \notin rel
    BY <1>6 DEF Orders
  <2>2. Rank(rel, S, y) < Rank(rel, S, x)
    BY <1>4, <1>6
  <2> QED  BY <1>1, <1>3, <2>1, <2>2
<1>7. CASE x = y
  BY <1>1, <1>3, <1>7 DEF Orders
<1> QED  BY <1>5, <1>6, <1>7 DEF Orders

(* Every place below the cardinality is some element's rank.               *)
LEMMA RanksFill ==
  ASSUME NEW S, IsFiniteSet(S), NEW rel, Orders(rel, S), NEW i \in Nat, i < Cardinality(S)
  PROVE  \E x \in S : Rank(rel, S, x) = i
<1> DEFINE rank == [x \in S |-> Rank(rel, S, x)]
           ranks == 0..(Cardinality(S) - 1)
<1>1. Cardinality(S) \in Nat
  BY FS_CardinalityType
<1>2. IsFiniteSet(ranks) /\ Cardinality(ranks) = Cardinality(S)
  <2>1. 0 \in Int /\ Cardinality(S) - 1 \in Int
    BY <1>1
  <2>2. (IF 0 > Cardinality(S) - 1 THEN 0 ELSE (Cardinality(S) - 1) - 0 + 1) = Cardinality(S)
    BY <1>1
  <2> QED  BY <2>1, <2>2, FS_Interval
<1>3. rank \in Injection(S, ranks)
  <2>1. ASSUME NEW x \in S PROVE Rank(rel, S, x) \in ranks
    <3>1. Rank(rel, S, x) \in Nat /\ Rank(rel, S, x) < Cardinality(S)
      BY RanksFollow
    <3> QED  BY <1>1, <3>1
  <2>2. \A x, y \in S : Rank(rel, S, x) = Rank(rel, S, y) => x = y
    <3> SUFFICES ASSUME NEW x \in S, NEW y \in S, Rank(rel, S, x) = Rank(rel, S, y), x # y PROVE FALSE
      OBVIOUS
    <3>1. <<x, y>> \in rel \/ <<y, x>> \in rel
      BY DEF Orders
    <3>2. Rank(rel, S, x) < Rank(rel, S, y) \/ Rank(rel, S, y) < Rank(rel, S, x)
      BY <3>1, RanksFollow
    <3> QED  BY <2>1, <3>2
  <2> QED  BY <2>1, <2>2 DEF Injection, IsInjective
<1>4. rank \in Surjection(S, ranks)
  <2> HIDE DEF rank, ranks
  <2> QED  BY <1>2, <1>3, FS_Injection
<1>5. i \in ranks
  BY <1>1
<1>6. PICK x \in S : rank[x] = i
  <2> HIDE DEF rank, ranks
  <2> QED  BY <1>4, <1>5 DEF Surjection
<1> QED  BY <1>6

--------------------------------------------------------------------------------
(* Ranking.                                                                *)

(* The order of Top: a higher score, or as high and a smaller id.          *)
Better(scored) ==
  {pair \in scored \X scored :
     \/ pair[1][1] > pair[2][1]
     \/ pair[1][1] = pair[2][1] /\ pair[1][2] < pair[2][2]}

LEMMA BetterOrders ==
  ASSUME NEW scored, \A x \in scored : x \in Int \X Int
  PROVE  Orders(Better(scored), scored)
<1> DEFINE better(x, y) == x[1] > y[1] \/ (x[1] = y[1] /\ x[2] < y[2])
<1>1. \A x, y \in scored : <<x, y>> \in Better(scored) <=> better(x, y)
  BY DEF Better
<1>2. \A x \in scored : x[1] \in Int /\ x[2] \in Int /\ x = <<x[1], x[2]>>
  OBVIOUS
<1>3. \A x \in scored : ~better(x, x)
  BY <1>2
<1>4. \A x, y, z \in scored : better(x, y) /\ better(y, z) => better(x, z)
  BY <1>2
<1>5. \A x, y \in scored : x = y \/ better(x, y) \/ better(y, x)
  BY <1>2
<1> HIDE DEF better
<1> QED  BY <1>1, <1>3, <1>4, <1>5 DEF Orders

(* Top lists the best of a set: each at the place that its rank gives it.  *)
LEMMA TopIsByRank ==
  ASSUME NEW n \in Nat, NEW scored, \A x \in scored : x \in Int \X Int, IsFiniteSet(scored)
  PROVE  /\ DOMAIN Top(n, scored) =
              {i \in 1..n : i <= Cardinality(scored)}
         /\ \A i \in DOMAIN Top(n, scored) : \E x \in scored :
              Rank(Better(scored), scored, x) = i - 1 /\ Top(n, scored)[i] = x[2]
         /\ \A x \in scored :
              Rank(Better(scored), scored, x) + 1 \in DOMAIN Top(n, scored)
                => Top(n, scored)[Rank(Better(scored), scored, x) + 1] = x[2]
<1> DEFINE better == Better(scored)
           rank(x) == Rank(better, scored, x)
           count == IF Cardinality(scored) < n THEN Cardinality(scored) ELSE n
           Precedes(x, y) == x[1] > y[1] \/ (x[1] = y[1] /\ x[2] < y[2])
           At(i) == CHOOSE x \in scored : Cardinality({y \in scored : Precedes(y, x)}) = i - 1
<1>1. Cardinality(scored) \in Nat /\ Orders(better, scored)
  BY FS_CardinalityType, BetterOrders
<1>2. Top(n, scored) = [i \in 1..count |-> At(i)[2]]
  BY DEF Top
<1>3. ASSUME NEW x \in scored PROVE Cardinality({y \in scored : Precedes(y, x)}) = rank(x)
  <2>1. {y \in scored : Precedes(y, x)} = Before(better, scored, x)
    BY DEF Before, Better
  <2> QED  BY <2>1 DEF Rank
<1>4. ASSUME NEW x \in scored PROVE rank(x) \in Nat
  <2> HIDE DEF better
  <2> QED  BY <1>1, RanksFollow
<1>5. ASSUME NEW i \in 1..count PROVE At(i) \in scored /\ rank(At(i)) = i - 1
  <2>1. i - 1 \in Nat /\ i - 1 < Cardinality(scored)
    BY <1>1
  <2>2. \E x \in scored : rank(x) = i - 1
    <3> HIDE DEF better
    <3> QED  BY <1>1, <2>1, RanksFill
  <2>3. \E x \in scored : Cardinality({y \in scored : Precedes(y, x)}) = i - 1
    <3> HIDE DEF rank, Precedes
    <3> QED  BY <1>3, <2>2
  <2>4. At(i) \in scored /\ Cardinality({y \in scored : Precedes(y, At(i))}) = i - 1
    <3> HIDE DEF Precedes
    <3> QED  BY <2>3
  <2> HIDE DEF rank, At, Precedes
  <2> QED  BY <1>3, <2>4
<1>6. ASSUME NEW x \in scored, NEW y \in scored, rank(x) = rank(y) PROVE x = y
  <2> HIDE DEF better
  <2>1. <<x, y>> \notin better /\ <<y, x>> \notin better
    <3>1. ~(rank(x) < rank(y)) /\ ~(rank(y) < rank(x))
      <4> HIDE DEF rank
      <4> QED  BY <1>4, <1>6
    <3> QED  BY <1>1, <3>1, RanksFollow
  <2> QED  BY <1>1, <2>1 DEF Orders
<1>7. DOMAIN Top(n, scored) = {i \in 1..n : i <= Cardinality(scored)}
  <2>1. 1..count = {i \in 1..n : i <= Cardinality(scored)}
    BY <1>1
  <2> HIDE DEF count, At
  <2> QED  BY <1>2, <2>1
<1>8. ASSUME NEW i \in DOMAIN Top(n, scored)
      PROVE  At(i) \in scored /\ rank(At(i)) = i - 1 /\ Top(n, scored)[i] = At(i)[2]
  <2> HIDE DEF count, At, rank, better
  <2> QED  BY <1>2, <1>5
<1>9. ASSUME NEW x \in scored, rank(x) + 1 \in DOMAIN Top(n, scored)
      PROVE  Top(n, scored)[rank(x) + 1] = x[2]
  <2> HIDE DEF rank, At, better
  <2>1. At(rank(x) + 1) = x
    BY <1>4, <1>6, <1>8, <1>9
  <2> QED  BY <1>8, <1>9, <2>1
<1> HIDE DEF At
<1> QED  BY <1>7, <1>8, <1>9

(* No more results are returned than were asked for, whatever was found.   *)
LEMMA TopIsCut ==
  ASSUME NEW n \in Nat, NEW scored, IsFiniteSet(scored)
  PROVE  Len(Top(n, scored)) <= n
<1>1. Cardinality(scored) \in Nat
  BY FS_CardinalityType
<1> DEFINE count == IF Cardinality(scored) < n THEN Cardinality(scored) ELSE n
<1>2. count \in Nat /\ count <= n
  BY <1>1
<1>3. \E f : Top(n, scored) = [i \in 1..count |-> f[i]]
  <2>1. Top(n, scored) = [i \in 1..count |-> Top(n, scored)[i]]
    BY DEF Top
  <2> QED  BY <2>1
<1>4. Len(Top(n, scored)) = count
  <2> HIDE DEF count
  <2> QED  BY <1>2, <1>3
<1> QED  BY <1>2, <1>4

--------------------------------------------------------------------------------
(* Collapsed lists.                                                        *)

(* The places where a list has a record for the first time.                *)
Firsts(list) == {i \in DOMAIN list : \A j \in 1..(i - 1) : list[j] # list[i]}
Earlier(list) == {pair \in Firsts(list) \X Firsts(list) : pair[1] < pair[2]}

(* First finds the first place of a record that the list has.              *)
LEMMA FirstServes ==
  ASSUME NEW n \in Nat, NEW list, DOMAIN list = 1..n
  PROVE  /\ \A r \in Found(list) : First(list, r) \in Firsts(list) /\ list[First(list, r)] = r
         /\ \A i \in Firsts(list) : First(list, list[i]) = i
<1> DEFINE leads(i, r) == list[i] = r /\ \A j \in 1..(i - 1) : list[j] # r
<1>1. ASSUME NEW r \in Found(list) PROVE \E i \in DOMAIN list : leads(i, r)
  <2> DEFINE places == {i \in 1..n : list[i] = r}
  <2>1. places \in SUBSET Nat /\ places # {}
    BY DEF Found
  <2>2. PICK i \in places : \A j \in places : i <= j
    <3> HIDE DEF places
    <3> QED  BY <2>1, Least
  <2>3. \A j \in 1..(i - 1) : list[j] # r
    <3> SUFFICES ASSUME NEW j \in 1..(i - 1), list[j] = r PROVE FALSE
      OBVIOUS
    <3>1. j \in places /\ j < i
      OBVIOUS
    <3> QED  BY <2>2, <3>1
  <2> QED  BY <2>3
<1>2. \A r : First(list, r) = CHOOSE i \in DOMAIN list : leads(i, r)
  BY DEF First
<1>3. ASSUME NEW r \in Found(list)
      PROVE  First(list, r) \in DOMAIN list /\ leads(First(list, r), r)
  <2> HIDE DEF leads
  <2> QED  BY <1>1, <1>2
<1>4. ASSUME NEW r, NEW i \in 1..n, NEW j \in 1..n, leads(i, r), leads(j, r) PROVE i = j
  <2>1. ~(i < j) /\ ~(j < i)
    BY <1>4
  <2> QED  BY <2>1
<1>5. ASSUME NEW i \in Firsts(list) PROVE First(list, list[i]) = i
  <2>1. list[i] \in Found(list) /\ i \in 1..n /\ leads(i, list[i])
    BY DEF Found, Firsts
  <2> HIDE DEF leads
  <2> QED  BY <1>3, <1>4, <2>1
<1>6. ASSUME NEW r \in Found(list) PROVE First(list, r) \in Firsts(list)
  BY <1>3 DEF Firsts
<1> QED  BY <1>3, <1>5, <1>6

LEMMA EarlierOrders ==
  ASSUME NEW n \in Nat, NEW list, DOMAIN list = 1..n
  PROVE  /\ Orders(Earlier(list), Firsts(list))
         /\ IsFiniteSet(Firsts(list)) /\ Cardinality(Firsts(list)) \in 0..n
<1>1. Firsts(list) \in SUBSET (1..n)
  BY DEF Firsts
<1>2. IsFiniteSet(1..n) /\ Cardinality(1..n) = n
  BY FS_Interval
<1>3. IsFiniteSet(Firsts(list)) /\ Cardinality(Firsts(list)) \in 0..n
  BY <1>1, <1>2, FS_Subset, FS_CardinalityType
<1>4. \A x, y \in Firsts(list) : <<x, y>> \in Earlier(list) <=> x < y
  BY DEF Earlier
<1>5. \A x \in Firsts(list) : x \in Int
  BY <1>1
<1> QED  BY <1>3, <1>4, <1>5 DEF Orders

(* Where Collapse puts a record of the list.                               *)
Place(list, r) == Rank(Earlier(list), Firsts(list), First(list, r)) + 1

(* Collapse lists the same records, each once, in the order of their first *)
(* places.                                                                 *)
LEMMA CollapseKeepsOrder ==
  ASSUME NEW n \in Nat, NEW list, DOMAIN list = 1..n
  PROVE  /\ \E k \in 0..n : DOMAIN Collapse(list) = 1..k
         /\ \A i \in DOMAIN Collapse(list) :
              Collapse(list)[i] \in Found(list) /\ Place(list, Collapse(list)[i]) = i
         /\ \A r \in Found(list) :
              Place(list, r) \in DOMAIN Collapse(list) /\ Collapse(list)[Place(list, r)] = r
         /\ \A r, s \in Found(list) : First(list, r) < First(list, s) <=> Place(list, r) < Place(list, s)
<1> DEFINE firsts == {i \in DOMAIN list : \A j \in 1..(i - 1) : list[j] # list[i]}
           earlier == Earlier(list)
           rank(i) == Rank(earlier, firsts, i)
           At(i) == CHOOSE f \in firsts : Cardinality({j \in firsts : j < f}) = i - 1
           count == Cardinality(firsts)
<1>1. firsts = Firsts(list)
  BY DEF Firsts
<1>2. Orders(earlier, firsts) /\ IsFiniteSet(firsts) /\ count \in 0..n
  BY <1>1, EarlierOrders
<1>3. Collapse(list) = [i \in 1..count |-> list[At(i)]]
  BY DEF Collapse
<1>4. ASSUME NEW x \in firsts PROVE Cardinality({j \in firsts : j < x}) = rank(x)
  <2>1. {j \in firsts : j < x} = Before(earlier, firsts, x)
    <3> HIDE DEF firsts
    <3> QED  BY <1>1 DEF Before, Earlier
  <2> QED  BY <2>1 DEF Rank
<1>5. ASSUME NEW x \in firsts
      PROVE  rank(x) \in Nat /\ rank(x) < count
  <2> HIDE DEF firsts, earlier
  <2> QED  BY <1>2, RanksFollow
<1>6. ASSUME NEW x \in firsts, NEW y \in firsts PROVE x < y <=> rank(x) < rank(y)
  <2>1. <<x, y>> \in earlier <=> x < y
    <3> HIDE DEF firsts
    <3> QED  BY <1>1 DEF Earlier
  <2> HIDE DEF firsts, earlier
  <2> QED  BY <1>2, <2>1, RanksFollow
<1>7. ASSUME NEW x \in firsts, NEW y \in firsts, rank(x) = rank(y) PROVE x = y
  <2>1. x \in Int /\ y \in Int
    OBVIOUS
  <2> HIDE DEF firsts, rank
  <2>2. ~(x < y) /\ ~(y < x)
    BY <1>5, <1>6, <1>7
  <2> QED  BY <2>1, <2>2
<1>8. ASSUME NEW i \in 1..count PROVE At(i) \in firsts /\ rank(At(i)) = i - 1
  <2>1. i - 1 \in Nat /\ i - 1 < count
    BY <1>2
  <2>2. \E x \in firsts : rank(x) = i - 1
    <3> HIDE DEF earlier, firsts
    <3> QED  BY <1>2, <2>1, RanksFill
  <2> HIDE DEF rank, firsts
  <2>3. At(i) \in firsts /\ Cardinality({j \in firsts : j < At(i)}) = i - 1
    BY <1>4, <2>2
  <2> HIDE DEF At
  <2> QED  BY <1>4, <2>3
<1>9. ASSUME NEW r \in Found(list)
      PROVE  First(list, r) \in firsts /\ list[First(list, r)] = r /\ Place(list, r) = rank(First(list, r)) + 1
  BY <1>1, FirstServes DEF Place
<1>10. ASSUME NEW i \in firsts
       PROVE list[i] \in Found(list) /\ First(list, list[i]) = i
  BY <1>1, FirstServes DEF Found
<1>11. DOMAIN Collapse(list) = 1..count
  BY <1>3
<1> HIDE DEF At, rank, firsts, count
<1>12. ASSUME NEW i \in 1..count
       PROVE  Collapse(list)[i] \in Found(list) /\ Place(list, Collapse(list)[i]) = i
  <2>1. Collapse(list)[i] = list[At(i)] /\ At(i) \in firsts /\ rank(At(i)) = i - 1
    BY <1>3, <1>8
  <2>2. list[At(i)] \in Found(list) /\ First(list, list[At(i)]) = At(i)
    BY <1>10, <2>1
  <2> QED  BY <1>9, <2>1, <2>2
<1>13. ASSUME NEW r \in Found(list)
       PROVE  Place(list, r) \in 1..count /\ Collapse(list)[Place(list, r)] = r
  <2>1. Place(list, r) \in 1..count
    BY <1>2, <1>5, <1>9
  <2>2. At(Place(list, r)) = First(list, r)
    <3>1. rank(At(Place(list, r))) = rank(First(list, r))
      BY <1>5, <1>8, <1>9, <2>1
    <3> QED  BY <1>7, <1>8, <1>9, <2>1, <3>1
  <2> QED  BY <1>3, <1>9, <2>1, <2>2
<1>14. ASSUME NEW r \in Found(list), NEW s \in Found(list)
       PROVE  First(list, r) < First(list, s) <=> Place(list, r) < Place(list, s)
  BY <1>5, <1>6, <1>9
<1> QED  BY <1>2, <1>11, <1>12, <1>13, <1>14

--------------------------------------------------------------------------------
(* Reciprocal ranks.                                                       *)

(* The function that Shares defines by recursion, up to m.                 *)
Products(u, m) == u = [n \in 0..m |-> IF n = 0 THEN 1 ELSE (60 + n) * u[n - 1]]

(* The recursion defines a function: the least m without one would have    *)
(* one that extends that of m - 1.                                         *)
LEMMA ProductsExist == ASSUME NEW m \in Nat PROVE \E u : Products(u, m)
<1> DEFINE without == {k \in Nat : \A u : ~Products(u, k)}
<1> SUFFICES ASSUME without # {} PROVE FALSE
  OBVIOUS
<1>1. PICK k \in without : \A j \in without : k <= j
  <2>1. without \in SUBSET Nat
    OBVIOUS
  <2> HIDE DEF without
  <2> QED  BY <2>1, Least
<1>2. k # 0
  <2> DEFINE u == [n \in 0..0 |-> 1]
  <2>1. Products(u, 0)
    BY DEF Products
  <2> QED  BY <2>1
<1>3. k - 1 \in Nat /\ k - 1 \notin without
  BY <1>1, <1>2
<1>4. PICK u : Products(u, k - 1)
  BY <1>3
<1> DEFINE v == [n \in 0..k |-> IF n = k THEN (60 + k) * u[k - 1] ELSE u[n]]
<1>5. Products(v, k)
  <2>1. ASSUME NEW n \in 0..k PROVE v[n] = IF n = 0 THEN 1 ELSE (60 + n) * v[n - 1]
    <3>1. CASE n = k
      BY <1>2, <1>3, <3>1
    <3>2. CASE n # k
      <4>1. n \in 0..(k - 1) /\ v[n] = u[n]
        BY <3>2
      <4>2. u[n] = IF n = 0 THEN 1 ELSE (60 + n) * u[n - 1]
        BY <1>4, <4>1 DEF Products
      <4>3. n # 0 => v[n - 1] = u[n - 1]
        BY <4>1
      <4> QED  BY <4>1, <4>2, <4>3
    <3> QED  BY <3>1, <3>2
  <2> QED  BY <2>1 DEF Products
<1> QED  BY <1>1, <1>5

(* The product of 61 to 60 + m is positive, and a multiple of each factor. *)
LEMMA ProductsDivide ==
  ASSUME NEW m \in Nat, NEW u, Products(u, m)
  PROVE  \A k \in 0..m : /\ u[k] \in Nat \ {0}
                         /\ \A n \in 1..k : \E d \in Nat \ {0} : u[k] = (60 + n) * d
<1> DEFINE good(k) == /\ u[k] \in Nat \ {0}
                      /\ \A n \in 1..k : \E d \in Nat \ {0} : u[k] = (60 + n) * d
           bad == {k \in 0..m : ~good(k)}
<1> SUFFICES ASSUME bad # {} PROVE FALSE
  OBVIOUS
<1>1. PICK k \in bad : \A j \in bad : k <= j
  <2>1. bad \in SUBSET Nat
    OBVIOUS
  <2> HIDE DEF bad
  <2> QED  BY <2>1, Least
<1>2. k # 0
  <2>1. u[0] = 1
    BY DEF Products
  <2>2. good(0)
    BY <2>1
  <2> QED  BY <2>2
<1>3. k - 1 \in 0..m /\ good(k - 1) /\ k \in 0..m
  <2>1. k \in 0..m /\ k - 1 \in 0..m /\ ~(k <= k - 1)
    BY <1>2
  <2>2. k - 1 \notin bad
    <3> HIDE DEF bad
    <3> QED  BY <1>1, <2>1
  <2> HIDE DEF good
  <2> QED  BY <2>1, <2>2
<1>4. u[k] = (60 + k) * u[k - 1]
  BY <1>2, <1>3 DEF Products
<1>5. u[k - 1] \in Nat \ {0} /\ u[k] \in Nat \ {0}
  BY <1>3, <1>4
<1>6. ASSUME NEW n \in 1..k PROVE \E d \in Nat \ {0} : u[k] = (60 + n) * d
  <2>1. CASE n = k
    BY <1>4, <1>5, <2>1
  <2>2. CASE n # k
    <3>1. n \in 1..(k - 1)
      BY <1>3, <2>2
    <3>2. PICK d \in Nat \ {0} : u[k - 1] = (60 + n) * d
      BY <1>3, <3>1
    <3>3. (60 + k) * d \in Nat \ {0} /\ (60 + k) * ((60 + n) * d) = (60 + n) * ((60 + k) * d)
      BY <1>3
    <3> QED  BY <1>4, <3>2, <3>3
  <2> QED  BY <2>1, <2>2
<1> QED  BY <1>1, <1>5, <1>6

(* A rank's share is positive, and smaller than those of the ranks before. *)
LEMMA SharesDecrease ==
  ASSUME NEW p \in 1..MaxHits
  PROVE  /\ Shares[p] \in Nat \ {0}
         /\ \A q \in 1..MaxHits : p < q => Shares[q] < Shares[p]
<1> DEFINE Units == CHOOSE u : u = [n \in 0..MaxHits |-> IF n = 0 THEN 1 ELSE (60 + n) * u[n - 1]]
<1>1. Products(Units, MaxHits)
  <2>1. Units = CHOOSE u : Products(u, MaxHits)
    BY DEF Products
  <2> HIDE DEF Units
  <2> QED  BY <2>1, ProductsExist, Bounds
<1>2. Shares = [rank \in 1..MaxHits |-> Units[MaxHits] \div (60 + rank)]
  BY DEF Shares
<1> HIDE DEF Units
<1>3. ASSUME NEW q \in 1..MaxHits
      PROVE  \E d \in Nat \ {0} : Units[MaxHits] = (60 + q) * d /\ Shares[q] = d
  <2>1. PICK d \in Nat \ {0} : Units[MaxHits] = (60 + q) * d
    <3>1. MaxHits \in Nat /\ MaxHits \in 0..MaxHits
      BY Bounds
    <3>2. \A k \in 0..MaxHits :
            /\ Units[k] \in Nat \ {0}
            /\ \A n \in 1..k : \E d \in Nat \ {0} : Units[k] = (60 + n) * d
      BY <1>1, <3>1, ProductsDivide
    <3> QED  BY <3>1, <3>2
  <2>2. ((60 + q) * d) \div (60 + q) = d
    OBVIOUS
  <2> QED  BY <1>2, <2>1, <2>2
<1>4. ASSUME NEW q \in 1..MaxHits, p < q PROVE Shares[q] < Shares[p]
  <2>1. PICK c \in Nat \ {0} : Units[MaxHits] = (60 + p) * c /\ Shares[p] = c
    BY <1>3
  <2>2. PICK d \in Nat \ {0} : Units[MaxHits] = (60 + q) * d /\ Shares[q] = d
    BY <1>3
  <2>3. (60 + p) * c = (60 + q) * d
    BY <2>1, <2>2
  <2>4. d < c
    BY <1>4, <2>3
  <2> QED  BY <2>1, <2>2, <2>4
<1> QED  BY <1>3, <1>4

(* The function that ScoreIn defines by recursion.                         *)
Adds(add, list, r) ==
  add = [i \in 0..Len(list) |->
           IF i = 0 THEN 0 ELSE add[i - 1] + (IF list[i] = r THEN Shares[i] ELSE 0)]

(* The recursion has one solution only.                                    *)
LEMMA AddsUnique ==
  ASSUME NEW k \in Nat, NEW list, Len(list) = k, NEW r, NEW add, NEW sum, Adds(add, list, r), Adds(sum, list, r)
  PROVE  \A i \in 0..k : add[i] = sum[i]
<1> DEFINE apart == {i \in 0..k : add[i] # sum[i]}
<1> SUFFICES ASSUME apart # {} PROVE FALSE
  OBVIOUS
<1>1. PICK i \in apart : \A j \in apart : i <= j
  <2>1. apart \in SUBSET Nat
    OBVIOUS
  <2> HIDE DEF apart
  <2> QED  BY <2>1, Least
<1>2. i # 0
  <2>1. add[0] = 0 /\ sum[0] = 0
    BY DEF Adds
  <2> QED  BY <2>1
<1>3. i \in 0..k /\ i - 1 \in 0..k /\ add[i - 1] = sum[i - 1]
  <2>1. i \in 0..k /\ i - 1 \in 0..k /\ ~(i <= i - 1)
    BY <1>2
  <2>2. i - 1 \notin apart
    <3> HIDE DEF apart
    <3> QED  BY <1>1, <2>1
  <2> QED  BY <2>1, <2>2
<1>4. add[i] = sum[i]
  BY <1>2, <1>3 DEF Adds
<1> QED  BY <1>4

(* A record with one place in the list gets the share of that place.       *)
LEMMA ScoreOfPlace ==
  ASSUME NEW k \in 0..MaxHits, NEW list, DOMAIN list = 1..k, Len(list) = k, NEW r
  PROVE  /\ r \notin Found(list) => ScoreIn(list, r) = 0
         /\ \A p \in 1..k : list[p] = r /\ (\A q \in 1..k : list[q] = r => q = p)
              => ScoreIn(list, r) = Shares[p]
<1> DEFINE Add == CHOOSE add : add = [i \in 0..Len(list) |->
                    IF i = 0 THEN 0 ELSE add[i - 1] + (IF list[i] = r THEN Shares[i] ELSE 0)]
<1>1. ScoreIn(list, r) = Add[k]
  BY DEF ScoreIn
<1>2. Add = CHOOSE add : Adds(add, list, r)
  BY DEF Adds
<1> HIDE DEF Add
<1>3. ASSUME NEW sum, Adds(sum, list, r) PROVE ScoreIn(list, r) = sum[k]
  <2>1. Adds(Add, list, r)
    BY <1>2, <1>3
  <2> QED  BY <1>1, <1>3, <2>1, AddsUnique
<1>4. ASSUME r \notin Found(list) PROVE ScoreIn(list, r) = 0
  <2> DEFINE sum == [i \in 0..k |-> 0]
  <2>1. \A i \in 1..k : list[i] # r
    BY <1>4 DEF Found
  <2>2. \A i \in 0..k : sum[i] = IF i = 0 THEN 0 ELSE sum[i - 1] + (IF list[i] = r THEN Shares[i] ELSE 0)
    BY <2>1
  <2>3. Adds(sum, list, r)
    BY <2>2 DEF Adds
  <2> QED  BY <1>3, <2>3
<1>5. ASSUME NEW p \in 1..k, list[p] = r, \A q \in 1..k : list[q] = r => q = p
      PROVE  ScoreIn(list, r) = Shares[p]
  <2> DEFINE sum == [i \in 0..k |-> IF i < p THEN 0 ELSE Shares[p]]
  <2>1. Shares[p] \in Nat
    BY SharesDecrease, Bounds
  <2>2. ASSUME NEW i \in 0..k
        PROVE  sum[i] = IF i = 0 THEN 0 ELSE sum[i - 1] + (IF list[i] = r THEN Shares[i] ELSE 0)
    <3>1. CASE i < p
      BY <1>5, <3>1
    <3>2. CASE i = p
      BY <1>5, <2>1, <3>2
    <3>3. CASE i > p
      BY <1>5, <2>1, <3>3
    <3> QED  BY <3>1, <3>2, <3>3
  <2>3. Adds(sum, list, r)
    BY <2>2 DEF Adds
  <2>4. sum[k] = Shares[p]
    OBVIOUS
  <2> HIDE DEF sum
  <2> QED  BY <1>3, <2>3, <2>4
<1> QED  BY <1>4, <1>5

--------------------------------------------------------------------------------
(* Fusion.                                                                 *)

(* A set that scores each record once is finite.                           *)
LEMMA ScoredOnceIsFinite ==
  ASSUME NEW scored, \A x, y \in scored : x[2] \in Records /\ (x[2] = y[2] => x = y)
  PROVE  IsFiniteSet(scored)
<1> DEFINE f == [x \in scored |-> x[2]]
<1>1. f \in Injection(scored, Records)
  BY DEF Injection, IsInjective
<1> HIDE DEF f
<1> QED  BY <1>1, SearchAssumption, FS_Injection

(* No hits, or what a database or the vectors found.                       *)
Hits(lexical, vector) == lexical \in LexicalHits \cup {<<>>} /\ vector \in VectorHits \cup {<<>>}

LEMMA ScoredIsFinite ==
  ASSUME NEW lexical, NEW vector, Hits(lexical, vector)
  PROVE  IsFiniteSet(Scored(lexical, vector))
<1>1. Found(lexical) \subseteq Records
  BY DEF Hits, Found, LexicalHits
<1>2. \A i \in DOMAIN vector : vector[i][1] \in Records
  BY DEF Hits, VectorHits
<1>3. Found(RecordsOf(vector)) \subseteq Records
  BY <1>2 DEF Found, RecordsOf
<1>4. \A x, y \in Scored(lexical, vector) : x[2] \in Records /\ (x[2] = y[2] => x = y)
  BY <1>1, <1>3 DEF Scored
<1> QED  BY <1>4, ScoredOnceIsFinite

(* What one list adds to a record, and that it adds less to one behind it. *)
LEMMA ListIsFair ==
  ASSUME NEW n \in 0..MaxHits, NEW list, DOMAIN list = 1..n, NEW r
  PROVE  /\ ScoreIn(Collapse(list), r) \in Nat
         /\ r \notin Found(list) => ScoreIn(Collapse(list), r) = 0
         /\ r \in Found(list) =>
              /\ Place(list, r) \in 1..MaxHits
              /\ ScoreIn(Collapse(list), r) = Shares[Place(list, r)]
         /\ \A s \in Found(list) :
              Ahead(list, r, s) => ScoreIn(Collapse(list), s) < ScoreIn(Collapse(list), r)
<1> DEFINE bm25 == Collapse(list)
           score(x) == ScoreIn(bm25, x)
<1>1. n \in Nat /\ n <= MaxHits /\ MaxHits \in Nat
  BY Bounds
<1>2. PICK k \in 0..n : DOMAIN bm25 = 1..k
  BY <1>1, CollapseKeepsOrder
<1>3. Len(bm25) = k /\ k \in 0..MaxHits
  <2>1. bm25 = [i \in 1..k |-> bm25[i]]
    BY <1>2 DEF Collapse
  <2> HIDE DEF bm25
  <2> QED  BY <1>1, <1>2, <2>1
<1>4. /\ \A i \in 1..k : bm25[i] \in Found(list) /\ Place(list, bm25[i]) = i
      /\ \A x \in Found(list) : Place(list, x) \in 1..k /\ bm25[Place(list, x)] = x
      /\ \A x, y \in Found(list) : First(list, x) < First(list, y) <=> Place(list, x) < Place(list, y)
  BY <1>1, <1>2, CollapseKeepsOrder
<1> HIDE DEF bm25
<1>5. ASSUME NEW x, x \notin Found(list) PROVE score(x) = 0
  <2>1. x \notin Found(bm25)
    BY <1>2, <1>4, <1>5 DEF Found
  <2> QED  BY <1>2, <1>3, <2>1, ScoreOfPlace
<1>6. ASSUME NEW x \in Found(list)
      PROVE  Place(list, x) \in 1..MaxHits /\ score(x) = Shares[Place(list, x)]
  <2>1. \A q \in 1..k : bm25[q] = x => q = Place(list, x)
    BY <1>4
  <2>2. Place(list, x) \in 1..k /\ bm25[Place(list, x)] = x
    BY <1>4
  <2>3. Place(list, x) \in 1..MaxHits
    BY <1>1, <1>3, <2>2
  <2> QED  BY <1>2, <1>3, <2>1, <2>2, <2>3, ScoreOfPlace
<1>7. score(r) \in Nat
  BY <1>5, <1>6, SharesDecrease
<1>8. ASSUME NEW s \in Found(list), Ahead(list, r, s) PROVE score(s) < score(r)
  <2>1. r \in Found(list) /\ Place(list, r) < Place(list, s)
    BY <1>4, <1>8 DEF Ahead
  <2> QED  BY <1>6, <2>1, SharesDecrease
<1> QED  BY <1>5, <1>6, <1>7, <1>8 DEF bm25

(* The score of a record.                                                  *)
Fused(lexical, vector, r) ==
  ScoreIn(Collapse(lexical), r) + ScoreIn(Collapse(RecordsOf(vector)), r)

LEMMA HitsAreLists ==
  ASSUME NEW lexical, NEW vector, Hits(lexical, vector)
  PROVE  /\ \E n \in 0..MaxHits : DOMAIN lexical = 1..n
         /\ \E n \in 0..MaxHits : DOMAIN RecordsOf(vector) = 1..n
         /\ Found(lexical) \subseteq Records /\ Found(RecordsOf(vector)) \subseteq Records
<1>1. 0 \in 0..MaxHits /\ DOMAIN <<>> = 1..0
  BY Bounds
<1>2. \E n \in 0..MaxHits : DOMAIN lexical = 1..n
  BY <1>1 DEF Hits, LexicalHits
<1>3. \E n \in 0..MaxHits : DOMAIN vector = 1..n
  BY <1>1 DEF Hits, VectorHits
<1>4. Found(lexical) \subseteq Records
  BY DEF Hits, Found, LexicalHits
<1>5. \A i \in DOMAIN vector : vector[i][1] \in Records
  BY DEF Hits, VectorHits
<1> QED  BY <1>2, <1>3, <1>4, <1>5 DEF RecordsOf, Found

LEMMA ScoredServes ==
  ASSUME NEW lexical, NEW vector, Hits(lexical, vector)
  PROVE  /\ Scored(lexical, vector) =
              {<<Fused(lexical, vector, r), r>> : r \in Found(lexical) \cup Found(RecordsOf(vector))}
         /\ \A x \in Scored(lexical, vector) : x \in Int \X Int
<1>1. Scored(lexical, vector) =
        {<<Fused(lexical, vector, r), r>> : r \in Found(lexical) \cup Found(RecordsOf(vector))}
  BY DEF Scored, Fused
<1>2. ASSUME NEW r \in Found(lexical) \cup Found(RecordsOf(vector))
      PROVE  Fused(lexical, vector, r) \in Int /\ r \in Int
  <2>1. r \in Nat
    BY HitsAreLists, SearchAssumption
  <2>2. ScoreIn(Collapse(lexical), r) \in Nat /\ ScoreIn(Collapse(RecordsOf(vector)), r) \in Nat
    BY HitsAreLists, ListIsFair
  <2> QED  BY <2>1, <2>2 DEF Fused
<1> QED  BY <1>1, <1>2

(* A record that is ahead of another wherever that one is scores more.     *)
LEMMA FusionIsFair ==
  ASSUME NEW lexical, NEW vector, Hits(lexical, vector), NEW r, 
         NEW s \in Found(lexical) \cup Found(RecordsOf(vector)),
         Ahead(lexical, r, s), Ahead(RecordsOf(vector), r, s)
  PROVE  Fused(lexical, vector, s) < Fused(lexical, vector, r)
<1>1. PICK m \in 0..MaxHits : DOMAIN lexical = 1..m
  BY HitsAreLists
<1>2. PICK n \in 0..MaxHits : DOMAIN RecordsOf(vector) = 1..n
  BY HitsAreLists
<1>3. ASSUME NEW x
      PROVE  ScoreIn(Collapse(lexical), x) \in Nat /\ ScoreIn(Collapse(RecordsOf(vector)), x) \in Nat
  BY <1>1, <1>2, ListIsFair
<1>4. \/ s \notin Found(lexical) /\ ScoreIn(Collapse(lexical), s) = 0
      \/ s \in Found(lexical) /\ ScoreIn(Collapse(lexical), s) < ScoreIn(Collapse(lexical), r)
  BY <1>1, ListIsFair
<1>5. \/ /\ s \notin Found(RecordsOf(vector))
         /\ ScoreIn(Collapse(RecordsOf(vector)), s) = 0
      \/ /\ s \in Found(RecordsOf(vector))
         /\ ScoreIn(Collapse(RecordsOf(vector)), s) < ScoreIn(Collapse(RecordsOf(vector)), r)
  BY <1>2, ListIsFair
<1> QED  BY <1>3, <1>4, <1>5 DEF Fused

(* What RankingFair says of an answer.                                     *)
LEMMA AnswerIsFair ==
  ASSUME NEW lexical, NEW vector, Hits(lexical, vector),
         NEW i \in DOMAIN Ranking(lexical, vector),
         NEW r \in Found(lexical) \cup Found(RecordsOf(vector)), 
         Ahead(lexical, r, Ranking(lexical, vector)[i]),
         Ahead(RecordsOf(vector), r, Ranking(lexical, vector)[i])
  PROVE  \E j \in 1..(i - 1) : Ranking(lexical, vector)[j] = r
<1> DEFINE scored == Scored(lexical, vector)
           better == Better(scored)
           rank(x) == Rank(better, scored, x)
           fused(x) == Fused(lexical, vector, x)
           s == Ranking(lexical, vector)[i]
<1>1. IsFiniteSet(scored) /\ Orders(better, scored) /\ \A x \in scored : x \in Int \X Int
  BY ScoredIsFinite, ScoredServes, BetterOrders
<1>2. TopK \in Nat
  BY SearchAssumption
<1>3. /\ DOMAIN Ranking(lexical, vector) = {j \in 1..TopK : j <= Cardinality(scored)}
      /\ \A j \in DOMAIN Ranking(lexical, vector) : \E x \in scored :
           rank(x) = j - 1 /\ Ranking(lexical, vector)[j] = x[2]
      /\ \A x \in scored :
           rank(x) + 1 \in DOMAIN Ranking(lexical, vector)
             => Ranking(lexical, vector)[rank(x) + 1] = x[2]
  BY <1>1, <1>2, TopIsByRank DEF Ranking
<1>4. PICK x \in scored : rank(x) = i - 1 /\ s = x[2]
  BY <1>3
<1>5. x = <<fused(s), s>> /\ s \in Found(lexical) \cup Found(RecordsOf(vector))
  BY <1>4, ScoredServes
<1>6. <<fused(r), r>> \in scored
  BY ScoredServes
<1>7. fused(s) < fused(r)
  BY <1>5, FusionIsFair
<1>8. <<<<fused(r), r>>, x>> \in better
  <2>1. fused(r) \in Int /\ fused(s) \in Int
    BY <1>1, <1>5, <1>6
  <2>2. fused(r) > fused(s)
    BY <1>7, <2>1
  <2> HIDE DEF fused, scored, s
  <2> QED  BY <1>4, <1>5, <1>6, <2>2 DEF Better
<1>9. rank(<<fused(r), r>>) \in Nat /\ rank(<<fused(r), r>>) < rank(x)
  <2> HIDE DEF better, fused, scored, s
  <2> QED  BY <1>1, <1>4, <1>6, <1>8, RanksFollow
<1> DEFINE j == rank(<<fused(r), r>>) + 1
<1>10. i \in 1..TopK /\ i <= Cardinality(scored) /\ Cardinality(scored) \in Nat
  BY <1>1, <1>3, FS_CardinalityType
<1>11. j \in 1..(i - 1) /\ j \in DOMAIN Ranking(lexical, vector)
  <2> HIDE DEF rank, fused, scored
  <2> QED  BY <1>2, <1>3, <1>4, <1>9, <1>10
<1>12. Ranking(lexical, vector)[j] = r
  <2> HIDE DEF rank, scored
  <2> QED  BY <1>3, <1>6, <1>11
<1> QED  BY <1>11, <1>12

(* Without vectors, the ranking is BM25's, each record once, as far as     *)
(* results are asked for.                                                  *)
LEMMA LexicalIsBm25 ==
  ASSUME NEW lexical, Hits(lexical, <<>>)
  PROVE  /\ \A i \in DOMAIN Ranking(lexical, <<>>) :
              i \in DOMAIN Collapse(lexical) /\ Ranking(lexical, <<>>)[i] = Collapse(lexical)[i]
         /\ \A i \in 1..TopK :
              i \in DOMAIN Collapse(lexical) => i \in DOMAIN Ranking(lexical, <<>>)
<1> DEFINE scored == Scored(lexical, <<>>)
           better == Better(scored)
           bm25 == Collapse(lexical)
           fused(x) == Fused(lexical, <<>>, x)
<1>1. PICK n \in 0..MaxHits : DOMAIN lexical = 1..n
  BY HitsAreLists
<1>2. n \in Nat /\ IsFiniteSet(Firsts(lexical)) /\ Cardinality(Firsts(lexical)) \in 0..n
  BY <1>1, Bounds, EarlierOrders
<1>3. Found(RecordsOf(<<>>)) = {} /\ DOMAIN RecordsOf(<<>>) = 1..0
  BY DEF Found, RecordsOf
<1>4. \A r : fused(r) = ScoreIn(bm25, r)
  <2>1. 0 \in 0..MaxHits
    BY Bounds
  <2>2. \A r : ScoreIn(Collapse(RecordsOf(<<>>)), r) = 0 /\ ScoreIn(bm25, r) \in Nat
    BY <1>1, <1>3, <2>1, ListIsFair
  <2> QED  BY <2>2 DEF Fused
<1>5. scored = {<<fused(r), r>> : r \in Found(lexical)}
  BY <1>3, ScoredServes
<1>6. \A r, s \in Found(lexical) :
        <<<<fused(r), r>>, <<fused(s), s>>>> \in better <=> Place(lexical, r) < Place(lexical, s)
  <2> SUFFICES ASSUME NEW r \in Found(lexical), NEW s \in Found(lexical)
               PROVE  <<<<fused(r), r>>, <<fused(s), s>>>> \in better <=> Place(lexical, r) < Place(lexical, s)
    OBVIOUS
  <2>1. /\ Place(lexical, r) \in 1..MaxHits /\ fused(r) = Shares[Place(lexical, r)]
        /\ Place(lexical, s) \in 1..MaxHits /\ fused(s) = Shares[Place(lexical, s)]
    BY <1>1, <1>4, ListIsFair
  <2>2. fused(r) \in Nat /\ fused(s) \in Nat
    BY <2>1, SharesDecrease
  <2>3. Place(lexical, r) < Place(lexical, s) => fused(s) < fused(r)
    BY <2>1, SharesDecrease
  <2>4. Place(lexical, s) < Place(lexical, r) => fused(r) < fused(s)
    BY <2>1, SharesDecrease
  <2>5. Place(lexical, r) = Place(lexical, s) => r = s
    BY <1>1, <1>2, CollapseKeepsOrder
  <2>6. <<<<fused(r), r>>, <<fused(s), s>>>> \in better
          <=> fused(r) > fused(s) \/ (fused(r) = fused(s) /\ r < s)
    <3> HIDE DEF fused, scored
    <3> QED  BY <1>5 DEF Better
  <2>7. r \in Nat /\ s \in Nat
    BY HitsAreLists, SearchAssumption
  <2> HIDE DEF fused, better
  <2> QED  BY <2>1, <2>2, <2>3, <2>4, <2>5, <2>6, <2>7
<1>7. ASSUME NEW r \in Found(lexical)
      PROVE  Rank(better, scored, <<fused(r), r>>) + 1 = Place(lexical, r)
  <2> DEFINE from == Before(Earlier(lexical), Firsts(lexical), First(lexical, r))
             to == Before(better, scored, <<fused(r), r>>)
             f == [k \in from |-> <<fused(lexical[k]), lexical[k]>>]
  <2>1. /\ \A q \in Found(lexical) : First(lexical, q) \in Firsts(lexical) /\ lexical[First(lexical, q)] = q
        /\ \A j \in Firsts(lexical) : lexical[j] \in Found(lexical) /\ First(lexical, lexical[j]) = j
    BY <1>1, <1>2, FirstServes DEF Firsts, Found
  <2>2. \A j \in Firsts(lexical) : j \in from <=> j < First(lexical, r)
    BY <2>1 DEF Before, Earlier
  <2>3. \A q \in Found(lexical) : <<fused(q), q>> \in to <=> First(lexical, q) < First(lexical, r)
    <3> SUFFICES ASSUME NEW q \in Found(lexical)
                 PROVE  <<fused(q), q>> \in to <=> First(lexical, q) < First(lexical, r)
      OBVIOUS
    <3>1. First(lexical, q) < First(lexical, r) <=> Place(lexical, q) < Place(lexical, r)
      BY <1>1, <1>2, CollapseKeepsOrder
    <3>2. <<fused(q), q>> \in scored
      BY <1>5
    <3> HIDE DEF fused, scored, better
    <3> QED  BY <1>6, <3>1, <3>2 DEF Before
  <2>4. from \subseteq Firsts(lexical) /\ \A y \in to : \E q \in Found(lexical) : y = <<fused(q), q>>
    BY <1>5 DEF Before
  <2> HIDE DEF from, to, fused
  <2>5. f \in [from -> to]
    BY <2>1, <2>2, <2>3, <2>4
  <2>6. \A k, j \in from : f[k] = f[j] => k = j
    BY <2>1, <2>4
  <2>7. \A y \in to : \E j \in from : f[j] = y
    <3> SUFFICES ASSUME NEW y \in to PROVE \E j \in from : f[j] = y
      OBVIOUS
    <3>1. PICK q \in Found(lexical) : y = <<fused(q), q>>
      BY <2>4
    <3>2. First(lexical, q) \in from /\ lexical[First(lexical, q)] = q
      BY <2>1, <2>2, <2>3, <3>1
    <3> QED  BY <3>1, <3>2
  <2> HIDE DEF f
  <2>8. f \in Bijection(from, to)
    BY <2>5, <2>6, <2>7 DEF Bijection, Injection, Surjection, IsInjective
  <2>9. IsFiniteSet(from)
    BY <1>2, <2>4, FS_Subset
  <2>10. Cardinality(from) = Cardinality(to)
    BY <2>8, <2>9, FS_Bijection DEF ExistsBijection
  <2> QED  BY <2>10 DEF Place, Rank, from, to
<1>8. IsFiniteSet(scored) /\ TopK \in Nat /\ \A x \in scored : x \in Int \X Int
  BY ScoredIsFinite, ScoredServes, SearchAssumption
<1>9. /\ DOMAIN Ranking(lexical, <<>>) = {i \in 1..TopK : i <= Cardinality(scored)}
      /\ \A i \in DOMAIN Ranking(lexical, <<>>) : \E x \in scored :
           Rank(better, scored, x) = i - 1 /\ Ranking(lexical, <<>>)[i] = x[2]
  <2> DEFINE rank(x) == Rank(better, scored, x)
  <2>1. /\ DOMAIN Ranking(lexical, <<>>) = {j \in 1..TopK : j <= Cardinality(scored)}
        /\ \A j \in DOMAIN Ranking(lexical, <<>>) : \E x \in scored :
             rank(x) = j - 1 /\ Ranking(lexical, <<>>)[j] = x[2]
        /\ \A x \in scored :
             rank(x) + 1 \in DOMAIN Ranking(lexical, <<>>)
               => Ranking(lexical, <<>>)[rank(x) + 1] = x[2]
    BY <1>8, TopIsByRank DEF Ranking
  <2> HIDE DEF scored, better
  <2> QED  BY <2>1
<1>10. ASSUME NEW i \in DOMAIN Ranking(lexical, <<>>)
       PROVE  i \in DOMAIN bm25 /\ Ranking(lexical, <<>>)[i] = bm25[i]
  <2>1. PICK x \in scored : Rank(better, scored, x) = i - 1 /\ Ranking(lexical, <<>>)[i] = x[2]
    <3> HIDE DEF better, scored
    <3> QED  BY <1>9
  <2>2. PICK s \in Found(lexical) : x = <<fused(s), s>>
    BY <1>5
  <2>3. i \in Nat
    BY <1>8, <1>9
  <2>4. Place(lexical, s) = i /\ Ranking(lexical, <<>>)[i] = s
    <3> HIDE DEF better, scored, fused
    <3> QED  BY <1>7, <2>1, <2>2, <2>3
  <2> QED  BY <1>1, <1>2, <2>4, CollapseKeepsOrder
<1>11. ASSUME NEW i \in 1..TopK, i \in DOMAIN bm25 PROVE i \in DOMAIN Ranking(lexical, <<>>)
  <2> DEFINE s == bm25[i]
             x == <<fused(s), s>>
  <2>1. s \in Found(lexical) /\ Place(lexical, s) = i
    BY <1>1, <1>2, <1>11, CollapseKeepsOrder
  <2>2. x \in scored /\ Rank(better, scored, x) + 1 = i
    <3> HIDE DEF s, better, scored, fused
    <3> QED  BY <1>5, <1>7, <2>1
  <2>3. Orders(better, scored)
    <3> HIDE DEF scored
    <3> QED  BY <1>8, BetterOrders
  <2>4. Rank(better, scored, x) \in Nat /\ Rank(better, scored, x) < Cardinality(scored)
    <3> HIDE DEF better, scored, x
    <3> QED  BY <1>8, <2>2, <2>3, RanksFollow
  <2>5. Cardinality(scored) \in Nat
    BY <1>8, FS_CardinalityType
  <2> HIDE DEF better, scored, x
  <2> QED  BY <1>9, <2>2, <2>4, <2>5
<1> QED  BY <1>10, <1>11

--------------------------------------------------------------------------------
(* The invariant.                                                          *)

LEMMA StrengthIsLabel == ASSUME NEW vector, NEW r PROVE Strength(vector, r) \in Labels
  BY DEF Strength, Labels

ChosenInv ==
  observed # None =>
    observed.rows \in [DevQueries -> Row] /\ observed.value = Chosen(observed.rows)

IInv ==
  TypeOK /\ ChosenInv /\ RankingFair /\ DegradedIsLexical /\ StrengthFollowsSimilarity

(* What TypeOK says of a response.                                         *)
ResponseServes ==
  /\ response'.mode \in {"exact", "lexical", "vector", "hybrid"}
  /\ Len(response'.ids) <= TopK
  /\ \A r \in DOMAIN response'.label : response'.label[r] \in Labels

LEMMA AnswerServes ==
  ASSUME NEW mode \in {"lexical", "vector", "hybrid"}, NEW degraded, NEW lexical,
         NEW vector, Hits(lexical, vector), Answer(mode, degraded, lexical, vector)
  PROVE  ResponseServes
<1> DEFINE ids == Ranking(lexical, vector)
           label == [r \in Found(ids) |-> Strength(vector, r)]
<1>1. response' = [mode |-> mode, degraded |-> degraded, lexical |-> lexical, vector |-> vector,
                   ids |-> ids, label |-> label]
  BY DEF Answer, Respond
<1>2. Len(ids) <= TopK
  BY ScoredIsFinite, TopIsCut, SearchAssumption DEF Ranking
<1>3. \A r \in DOMAIN label : label[r] \in Labels
  BY StrengthIsLabel
<1> HIDE DEF ids, label
<1> QED  BY <1>1, <1>2, <1>3 DEF ResponseServes

(* The answer to a search is ranked fairly, and as BM25 does if the        *)
(* vectors failed.                                                         *)
LEMMA AnswerRanks ==
  ASSUME NEW mode, NEW degraded \in BOOLEAN, NEW lexical, NEW vector, Hits(lexical, vector),
         degraded => vector = <<>>, Answer(mode, degraded, lexical, vector)
  PROVE  RankingFair' /\ DegradedIsLexical'
<1> DEFINE ids == Ranking(lexical, vector)
           label == [r \in Found(ids) |-> Strength(vector, r)]
<1>1. response' = [mode |-> mode, degraded |-> degraded, lexical |-> lexical, vector |-> vector,
                   ids |-> ids, label |-> label]
  BY DEF Answer, Respond
<1>2. \A i \in DOMAIN ids, r \in Found(lexical) \cup Found(RecordsOf(vector)) :
        Ahead(lexical, r, ids[i]) /\ Ahead(RecordsOf(vector), r, ids[i])
          => \E j \in 1..(i - 1) : ids[j] = r
  BY AnswerIsFair
<1>3. ASSUME degraded, NEW i \in DOMAIN ids
      PROVE  /\ i \in DOMAIN Collapse(lexical) /\ ids[i] = Collapse(lexical)[i]
             /\ label[ids[i]] = "uncalibrated"
  <2>1. vector = <<>> /\ ids[i] \in Found(ids)
    BY <1>3 DEF Found
  <2>2. Found(RecordsOf(<<>>)) = {}
    BY DEF Found, RecordsOf
  <2>3. label[ids[i]] = "uncalibrated"
    <3> HIDE DEF ids
    <3> QED  BY <2>1, <2>2 DEF Strength
  <2> QED  BY <1>3, <2>1, <2>3, LexicalIsBm25
<1>4. degraded => \A i \in 1..TopK : i \in DOMAIN Collapse(lexical) => i \in DOMAIN ids
  BY LexicalIsBm25
<1> HIDE DEF ids, label
<1>5. RankingFair'
  BY <1>1, <1>2 DEF RankingFair
<1>6. DegradedIsLexical'
  BY <1>1, <1>3, <1>4 DEF DegradedIsLexical
<1> QED  BY <1>5, <1>6

(* The first document of a record is the most similar one, and one         *)
(* calibration labels all records.                                         *)
LEMMA AnswerLabels ==
  ASSUME TypeOK, NEW mode, NEW degraded, NEW lexical, NEW vector, Hits(lexical, vector),
         Answer(mode, degraded, lexical, vector)
  PROVE  StrengthFollowsSimilarity'
<1> DEFINE ids == Ranking(lexical, vector)
           label == [r \in Found(ids) |-> Strength(vector, r)]
           list == RecordsOf(vector)
<1>1. response' = [mode |-> mode, degraded |-> degraded, lexical |-> lexical, vector |-> vector,
                   ids |-> ids, label |-> label]
  BY DEF Answer, Respond
<1>2. PICK n \in 0..MaxHits : DOMAIN vector = 1..n
  <2>1. 0 \in 0..MaxHits /\ DOMAIN <<>> = 1..0
    BY Bounds
  <2> QED  BY <2>1 DEF Hits, VectorHits
<1>3. /\ n \in Nat /\ DOMAIN list = 1..n /\ \A i \in DOMAIN vector : list[i] = vector[i][1]
      /\ \A i, j \in DOMAIN vector : i < j => vector[i][2] >= vector[j][2]
  BY <1>2, Bounds DEF Hits, VectorHits, RecordsOf
<1>4. \A i \in DOMAIN vector : vector[i][2] \in Int
  BY DEF Hits, VectorHits, Scores
<1>5. ASSUME NEW i \in DOMAIN vector
      PROVE  /\ vector[i][1] \in Found(list) /\ First(list, vector[i][1]) \in DOMAIN vector
             /\ vector[First(list, vector[i][1])][1] = vector[i][1]
             /\ Cosine(vector, vector[i][1]) \in Int
             /\ Cosine(vector, vector[i][1]) >= vector[i][2]
  <2> DEFINE m == First(list, vector[i][1])
  <2>1. vector[i][1] \in Found(list)
    <3> HIDE DEF list
    <3> QED  BY <1>2, <1>3 DEF Found
  <2>2. m \in Firsts(list) /\ list[m] = vector[i][1]
    <3> HIDE DEF list
    <3> QED  BY <1>3, <2>1, FirstServes
  <2>3. m \in DOMAIN vector /\ ~(i < m)
    <3> HIDE DEF list, m
    <3> QED  BY <1>2, <1>3, <2>2 DEF Firsts
  <2>4. vector[m][2] >= vector[i][2]
    <3> HIDE DEF list, m
    <3> QED  BY <1>2, <1>3, <1>4, <2>3
  <2>5. Cosine(vector, vector[i][1]) = vector[m][2]
    BY DEF Cosine
  <2> HIDE DEF list, m
  <2> QED  BY <1>3, <1>4, <2>1, <2>2, <2>3, <2>4, <2>5 DEF m
<1>6. ASSUME NEW i \in DOMAIN vector, NEW j \in DOMAIN vector,
             Strength(vector, vector[i][1]) \in {"strong", "strong_provisional"},
             \A k \in DOMAIN vector : vector[k][1] = vector[i][1] => vector[j][2] >= vector[k][2]
      PROVE  Strength(vector, vector[j][1]) = Strength(vector, vector[i][1])
  <2> DEFINE r == vector[i][1]
             s == vector[j][1]
  <2>1. Applies(loaded) /\ Strong(Cosine(vector, r), loaded.value)
    BY <1>5, <1>6 DEF Strength
  <2>2. loaded.value \in Int
    BY <2>1, Bounds DEF TypeOK, Calibration, Applies, Thresholds, Highest
  <2>3. Cosine(vector, r) = vector[First(list, r)][2]
    BY DEF Cosine
  <2>4. vector[j][2] >= Cosine(vector, r)
    <3> HIDE DEF list
    <3> QED  BY <1>5, <1>6, <2>3
  <2>5. Strong(Cosine(vector, s), loaded.value)
    <3>1. Cosine(vector, s) >= vector[j][2] /\ Cosine(vector, s) \in Int
      BY <1>5
    <3>2. Cosine(vector, r) >= loaded.value /\ Cosine(vector, r) \in Int
      BY <1>5, <2>1 DEF Strong
    <3>3. Cosine(vector, s) >= loaded.value
      BY <1>4, <2>2, <2>4, <3>1, <3>2
    <3> QED  BY <3>3 DEF Strong
  <2>6. r \in Found(list) /\ s \in Found(list)
    BY <1>5
  <2> QED  BY <2>1, <2>5, <2>6 DEF Strength
<1>7. \A r \in DOMAIN label : label[r] = Strength(vector, r)
  OBVIOUS
<1> HIDE DEF ids, label, list
<1> QED  BY <1>1, <1>6, <1>7 DEF StrengthFollowsSimilarity

LEMMA ExactServes == ASSUME NEW exact \in SUBSET Records, SearchExact(exact) PROVE ResponseServes
<1> DEFINE scored == {<<0, r>> : r \in exact}
           ids == Top(TopK, scored)
           label == [r \in Found(ids) |-> "exact"]
<1>1. response' = [mode |-> "exact", degraded |-> FALSE, lexical |-> <<>>, vector |-> <<>>,
                   ids |-> ids, label |-> label]
  BY DEF SearchExact, Respond
<1>2. IsFiniteSet(scored)
  <2>1. \A x, y \in scored : x[2] \in Records /\ (x[2] = y[2] => x = y)
    OBVIOUS
  <2> HIDE DEF scored
  <2> QED  BY <2>1, ScoredOnceIsFinite
<1>3. Len(ids) <= TopK
  <2> HIDE DEF scored
  <2> QED  BY <1>2, TopIsCut, SearchAssumption
<1>4. \A r \in DOMAIN label : label[r] = "exact"
  OBVIOUS
<1> HIDE DEF ids, label
<1> QED  BY <1>1, <1>3, <1>4 DEF ResponseServes, Labels

(* What a search establishes, and what it leaves alone.                    *)
Served ==
  /\ ResponseServes /\ RankingFair' /\ DegradedIsLexical' /\ StrengthFollowsSimilarity'
  /\ UNCHANGED <<index, served, file, loaded, observed, bound, publications, calibrations>>

LEMMA SearchServes ==
  ASSUME TypeOK, Search
  PROVE  Served
<1>1. <<>> \in {<<>>}
  OBVIOUS
<1>2. ASSUME NEW exact \in SUBSET Records, SearchExact(exact)
      PROVE  Served
  BY <1>2, ExactServes
  DEF Served, SearchExact, Respond, RankingFair, DegradedIsLexical, StrengthFollowsSimilarity
<1>3. ASSUME NEW mode \in {"lexical", "vector", "hybrid"}, NEW degraded \in BOOLEAN, NEW lexical,
             NEW vector, Hits(lexical, vector), degraded => vector = <<>>,
             Answer(mode, degraded, lexical, vector)
      PROVE  Served
  BY <1>3, AnswerServes, AnswerRanks, AnswerLabels DEF Served, Answer, Respond
<1>4. ASSUME NEW lexical \in LexicalHits, SearchLexical(lexical) \/ SearchDegraded(lexical)
      PROVE  Served
  <2>1. Hits(lexical, <<>>)
    BY DEF Hits
  <2> QED  BY <1>3, <1>4, <2>1 DEF SearchLexical, SearchDegraded
<1>5. ASSUME NEW vector \in VectorHits, SearchVector(vector)
      PROVE  Served
  <2>1. Hits(<<>>, vector)
    BY DEF Hits
  <2> QED  BY <1>3, <1>5, <2>1 DEF SearchVector
<1>6. ASSUME NEW vector \in VectorHits, NEW lexical \in LexicalHits, SearchHybrid(lexical, vector)
      PROVE  Served
  <2>1. Hits(lexical, vector)
    BY DEF Hits
  <2> QED  BY <1>3, <1>6, <2>1 DEF SearchHybrid
<1> QED  BY <1>2, <1>4, <1>5, <1>6 DEF Search

LEMMA InvInit == Init => IInv
<1> SUFFICES ASSUME Init PROVE IInv
  OBVIOUS
<1>1. TypeOK
  BY Bounds DEF Init, TypeOK, Index
<1>2. ChosenInv /\ RankingFair /\ DegradedIsLexical /\ StrengthFollowsSimilarity
  BY DEF Init, ChosenInv, RankingFair, DegradedIsLexical, StrengthFollowsSimilarity
<1> QED  BY <1>1, <1>2 DEF IInv

LEMMA InvStep == ASSUME IInv, [Next]_vars PROVE IInv'
<1> USE DEF IInv
<1> DEFINE Answered == RankingFair /\ DegradedIsLexical /\ StrengthFollowsSimilarity
<1>0. ASSUME response' \in {response, None} PROVE Answered'
  BY <1>0 DEF RankingFair, DegradedIsLexical, StrengthFollowsSimilarity
<1>1. CASE Idle /\ Search
  <2>1. Served
    BY <1>1, SearchServes
  <2> QED  BY <2>1 DEF Served, TypeOK, ChosenInv, ResponseServes
<1>2. CASE Return
  BY <1>0, <1>2 DEF Return, TypeOK, ChosenInv
<1>3. ASSUME NEW rows \in Observations, Observe(rows) PROVE IInv'
  <2>1. rows \in [DevQueries -> Row]
    BY DEF Observations
  <2>2. /\ observed' = [rows |-> rows, value |-> Chosen(rows)]
        /\ calibrations' \in 0..MaxCalibrations
        /\ UNCHANGED <<index, served, file, loaded, bound, response, publications>>
    BY <1>3, Bounds DEF Observe, TypeOK
  <2>3. Chosen(rows) \in Thresholds
    BY <2>1, ChosenIsBest
  <2> QED  BY <1>0, <2>1, <2>2, <2>3 DEF TypeOK, ChosenInv
<1>4. ASSUME NEW confirmed \in BOOLEAN, Bind(confirmed) PROVE IInv'
  <2>1. bound' \in Calibration
    BY <1>4 DEF Bind, TypeOK, Calibration, Index
  <2> QED  BY <1>0, <1>4, <2>1 DEF Bind, TypeOK, ChosenInv
<1>5. CASE Write
  BY <1>0, <1>5 DEF Write, TypeOK, ChosenInv
<1>6. ASSUME NEW p \in Providers \cup {None}, Serve(p) PROVE IInv'
  BY <1>0, <1>6 DEF Serve, TypeOK, ChosenInv
<1>7. ASSUME NEW p \in Providers \cup {None}, NEW c \in Corpora, Publish(p, c) PROVE IInv'
  <2>1. index' \in Index /\ publications' \in 0..MaxPublications
    BY <1>7, Bounds DEF Publish, Index, TypeOK
  <2> QED  BY <1>0, <1>7, <2>1 DEF Publish, TypeOK, ChosenInv
<1>8. CASE Restart
  BY <1>0, <1>8 DEF Restart, TypeOK, ChosenInv
<1>9. CASE UNCHANGED vars
  BY <1>0, <1>9 DEF vars, TypeOK, ChosenInv
<1> QED
  BY <1>1, <1>2, <1>3, <1>4, <1>5, <1>6, <1>7, <1>8, <1>9 DEF Next

LEMMA Invariance == Spec => []IInv
  BY InvInit, InvStep, PTL DEF Spec

(* The index, the calibrations and the responses keep their types: a       *)
(* response has no more results than were asked for, and known labels.     *)
THEOREM TypeCorrect == Spec => []TypeOK
<1>1. IInv => TypeOK
  BY DEF IInv
<1> QED
  BY Invariance, <1>1, PTL

(* However many documents of each record were found, and however many      *)
(* results are kept: a record that is ahead of another in every list that  *)
(* has that one is ranked above it, and not cut off below it.              *)
THEOREM RankingIsFair == Spec => []RankingFair
<1>1. IInv => RankingFair
  BY DEF IInv
<1> QED
  BY Invariance, <1>1, PTL

(* A hybrid search whose vectors failed answers with all that BM25 found,  *)
(* as far as results were asked for, in its order, each record at its best *)
(* document, and with no label of a calibration.                           *)
THEOREM DegradedAnswersAreLexical == Spec => []DegradedIsLexical
<1>1. IInv => DegradedIsLexical
  BY DEF IInv
<1> QED
  BY Invariance, <1>1, PTL

(* Whatever the documents, the order of the records and the calibration:   *)
(* a record as similar to the query as one that is called strong has the   *)
(* same label.                                                             *)
THEOREM StrengthsFollowSimilarity == Spec => []StrengthFollowsSimilarity
<1>1. IInv => StrengthFollowsSimilarity
  BY DEF IInv
<1> QED
  BY Invariance, <1>1, PTL

(* For every query set and every scores, the threshold that calibrate      *)
(* chooses labels no more of the negatives strong than the limit allows.   *)
THEOREM NegativesAreBounded == Spec => []NegativesBounded
<1> DEFINE rows == observed.rows
           chosen == observed.value
<1>1. ASSUME IInv, observed # None
      PROVE  Cardinality({q \in {q \in Negatives : rows[q].score # None} :
                            Strong(rows[q].score, chosen)}) * LimitDen
               <= LimitNum * Cardinality({q \in Negatives : rows[q].score # None})
  <2>1. Eligible(rows, chosen)
    BY <1>1, ChosenIsBest DEF IInv, ChosenInv
  <2>2. {q \in Negatives : rows[q].score # None} = ScoredNegatives(rows)
    BY SearchAssumption DEF ScoredNegatives, Rows
  <2> QED  BY <2>1, <2>2 DEF Eligible, StrongNegatives, Strong
<1>2. IInv => NegativesBounded
  BY <1>1 DEF NegativesBounded
<1> QED
  BY Invariance, <1>2, PTL

(* For every query set and every scores, no eligible threshold that is     *)
(* 1e-7 above the scores below it is better than the one calibrate chooses. *)
THEOREM ThresholdIsOptimal == Spec => []ThresholdOptimal
<1> DEFINE rows == observed.rows
           chosen == observed.value
<1>1. ASSUME IInv, observed # None, NEW t \in Thresholds, Eligible(rows, t),
             \A q \in Rows(rows) : rows[q].score >= t \/ Above(rows[q].score) <= t
      PROVE  \/ StrongCorrect(rows, t) < StrongCorrect(rows, chosen)
             \/ /\ StrongCorrect(rows, t) = StrongCorrect(rows, chosen)
                /\ StrongNegatives(rows, t) >= StrongNegatives(rows, chosen)
  <2>1. rows \in [DevQueries -> Row] /\ chosen = Chosen(rows)
    BY <1>1 DEF IInv, ChosenInv
  <2> HIDE DEF rows, chosen
  <2>2. PICK u \in Candidates(rows) :
          u <= t /\ \A q \in Rows(rows) : (rows[q].score >= t) <=> (rows[q].score >= u)
    BY <1>1, <2>1, CandidatesSuffice
  <2>3. /\ StrongCorrect(rows, t) = StrongCorrect(rows, u)
        /\ StrongNegatives(rows, t) = StrongNegatives(rows, u)
        /\ Eligible(rows, u)
    BY <1>1, <2>2, AlikeServe
  <2>4. \/ StrongCorrect(rows, u) < StrongCorrect(rows, chosen)
        \/ StrongCorrect(rows, u) = StrongCorrect(rows, chosen) /\ u <= chosen
    BY <2>1, <2>2, <2>3, ChosenIsBest
  <2>5. ASSUME u <= chosen
        PROVE  StrongNegatives(rows, chosen) <= StrongNegatives(rows, u)
    BY <2>1, <2>2, <2>5, ChosenIsBest, CandidatesServe, HigherIsStricter
  <2> QED  BY <2>3, <2>4, <2>5
<1>2. IInv => ThresholdOptimal
  BY <1>1 DEF ThresholdOptimal
<1> QED
  BY Invariance, <1>2, PTL
===============================================================================
