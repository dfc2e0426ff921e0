-------------------------- MODULE DiscoveryUI_proofs --------------------------
(***************************************************************************)
(* Proofs about DiscoveryUI, for any number of records, snapshots,         *)
(* searches and clicks, and any limit of the comparison.                   *)
(***************************************************************************)
EXTENDS DiscoveryUI, FiniteSetTheorems, TLAPS

(* A token or a click is given to one request, in the past.                *)
RequestInv ==
  \A r \in loading : r.key <= (IF r.for = "pane" THEN detailToken ELSE clicks)

(* The request whose token is still the pane's is for the selected record, *)
(* from the snapshot whose results are listed: both changed with it.       *)
PaneInv ==
  \A r \in loading :
    r.for = "pane" /\ r.key = detailToken => r.id = selected /\ r.snapshot = snapshot

(* The request that a slot waits for is from that snapshot too.            *)
SlotInv == \A r \in loading : r.for = "slot" /\ Owns(r) => r.snapshot = snapshot

(* While a search is in flight nothing is listed, selected or awaited for  *)
(* the pane, so that its snapshot can replace the page's.                  *)
SearchInv ==
  searchToken \in searching =>
    /\ results = {} /\ selected = None
    /\ \A r \in loading : r.for = "pane" => r.key # detailToken

IInv ==
  /\ TypeOK /\ RequestInv /\ PaneInv /\ SlotInv /\ SearchInv
  /\ DetailCurrent /\ ComparedCurrent
  /\ IsFiniteSet(Reserved) /\ ComparedLimited

--------------------------------------------------------------------------------
LEMMA InvInit == Init => IInv
<1> SUFFICES ASSUME Init PROVE IInv
  OBVIOUS
<1>1. TypeOK
  <2>1. detail \in Pane
    BY UIAssumption DEF Init, Pane, Shown, Snapshots
  <2>2. busy \in BOOLEAN
    BY DEF Init
  <2> QED  BY <2>1, <2>2, UIAssumption DEF Init, TypeOK, NoSlots, Snapshots
<1>2. RequestInv /\ PaneInv /\ SlotInv /\ SearchInv
  BY DEF Init, RequestInv, PaneInv, SlotInv, SearchInv
<1>3. Reserved = {}
  BY DEF Init, Reserved, NoSlots
<1>4. DetailCurrent /\ ComparedCurrent
  BY <1>3 DEF Init, DetailCurrent, Shown, ComparedCurrent
<1>5. IsFiniteSet(Reserved) /\ ComparedLimited
  BY <1>3, UIAssumption, FS_EmptySet DEF ComparedLimited
<1> QED  BY <1>1, <1>2, <1>4, <1>5 DEF IInv

LEMMA TypeStep == ASSUME IInv, [Next]_vars PROVE TypeOK'
<1> USE UIAssumption DEF IInv, TypeOK, Snapshots, Slot, Pane, Request, Reserved, SearchInv, ComparedCurrent
<1>1. CASE Publish
  BY <1>1 DEF Publish
<1>2. CASE Submit
  BY <1>2 DEF Submit, NoSlots
<1>3. ASSUME NEW t \in searching, SearchAnswered(t) PROVE TypeOK'
  <2>1. detail' \in Pane
    BY <1>3 DEF SearchAnswered, ShowDetail, Shown
  <2>2. busy' \in BOOLEAN
    BY <1>3 DEF SearchAnswered
  <2>3. snapshot' \in Snapshots /\ results' \subseteq Records /\ selected' \in results' \cup {None}
    BY <1>3 DEF SearchAnswered, ShowDetail
  <2>4. ASSUME NEW first \in results', ShowDetail(first, snapshot', t)
        PROVE  loading' \subseteq Request /\ detailToken' \in Nat
    <3>1. first \in Records /\ detailToken' \in Nat /\ t \in 0..MaxSearches
      BY <2>3, <2>4 DEF ShowDetail
    <3>2. [for |-> "pane", id |-> first, snapshot |-> snapshot', key |-> detailToken',
           search |-> t] \in Request
      BY <2>3, <3>1
    <3> QED  BY <2>4, <3>1, <3>2 DEF ShowDetail
  <2>5. loading' \subseteq Request /\ detailToken' \in Nat
    BY <1>3, <2>4 DEF SearchAnswered
  <2> QED  BY <1>3, <2>1, <2>2, <2>3, <2>5 DEF SearchAnswered
<1>4. ASSUME NEW t \in searching, SearchFailed(t) PROVE TypeOK'
  BY <1>4 DEF SearchFailed
<1>5. ASSUME NEW id \in Records, Open(id) PROVE TypeOK'
  BY <1>5 DEF Open, ShowDetail, Shown
<1>6. ASSUME NEW r \in loading, NEW ok \in BOOLEAN, DetailAnswered(r, ok) PROVE TypeOK'
  <2>1. detail' \in Pane
    BY <1>6 DEF DetailAnswered, PaneOf, Shown
  <2>2. busy' \in BOOLEAN
    BY <1>6 DEF DetailAnswered
  <2> QED  BY <1>6, <2>1, <2>2 DEF DetailAnswered
<1>7. ASSUME NEW id \in Records, Check(id) PROVE TypeOK'
  BY <1>7 DEF Check, RequestSlot
<1>8. ASSUME NEW id \in Records, Uncheck(id) PROVE TypeOK'
  BY <1>8 DEF Uncheck
<1>9. ASSUME NEW r \in loading, NEW ok \in BOOLEAN, SlotAnswered(r, ok) PROVE TypeOK'
  BY <1>9 DEF SlotAnswered, SlotAfter, Owns
<1>10. CASE UNCHANGED vars
  BY <1>10 DEF vars
<1> QED
  BY <1>1, <1>2, <1>3, <1>4, <1>5, <1>6, <1>7, <1>8, <1>9, <1>10 DEF Next, Answer

LEMMA RequestStep == ASSUME IInv, [Next]_vars PROVE RequestInv'
<1> USE DEF IInv, TypeOK, RequestInv, Request
<1>1. CASE Publish
  BY <1>1 DEF Publish
<1>2. CASE Submit
  BY <1>2 DEF Submit, NoSlots
<1>3. ASSUME NEW t \in searching, SearchAnswered(t) PROVE RequestInv'
  BY <1>3 DEF SearchAnswered, ShowDetail, Shown
<1>4. ASSUME NEW t \in searching, SearchFailed(t) PROVE RequestInv'
  BY <1>4 DEF SearchFailed
<1>5. ASSUME NEW id \in Records, Open(id) PROVE RequestInv'
  BY <1>5 DEF Open, ShowDetail, Shown
<1>6. ASSUME NEW r \in loading, NEW ok \in BOOLEAN, DetailAnswered(r, ok) PROVE RequestInv'
  BY <1>6 DEF DetailAnswered, PaneOf, Shown
<1>7. ASSUME NEW id \in Records, Check(id) PROVE RequestInv'
  BY <1>7 DEF Check, RequestSlot
<1>8. ASSUME NEW id \in Records, Uncheck(id) PROVE RequestInv'
  BY <1>8 DEF Uncheck
<1>9. ASSUME NEW r \in loading, NEW ok \in BOOLEAN, SlotAnswered(r, ok) PROVE RequestInv'
  BY <1>9 DEF SlotAnswered, SlotAfter
<1>10. CASE UNCHANGED vars
  BY <1>10 DEF vars
<1> QED
  BY <1>1, <1>2, <1>3, <1>4, <1>5, <1>6, <1>7, <1>8, <1>9, <1>10 DEF Next, Answer

LEMMA PaneStep == ASSUME IInv, [Next]_vars PROVE PaneInv'
<1> USE DEF IInv, TypeOK, RequestInv, PaneInv, SearchInv, Request
<1>1. CASE Publish
  BY <1>1 DEF Publish
<1>2. CASE Submit
  BY <1>2 DEF Submit, NoSlots
<1>3. ASSUME NEW t \in searching, SearchAnswered(t) PROVE PaneInv'
  BY <1>3 DEF SearchAnswered, ShowDetail, Shown
<1>4. ASSUME NEW t \in searching, SearchFailed(t) PROVE PaneInv'
  BY <1>4 DEF SearchFailed
<1>5. ASSUME NEW id \in Records, Open(id) PROVE PaneInv'
  BY <1>5 DEF Open, ShowDetail, Shown
<1>6. ASSUME NEW r \in loading, NEW ok \in BOOLEAN, DetailAnswered(r, ok) PROVE PaneInv'
  BY <1>6 DEF DetailAnswered, PaneOf, Shown
<1>7. ASSUME NEW id \in Records, Check(id) PROVE PaneInv'
  BY <1>7 DEF Check, RequestSlot
<1>8. ASSUME NEW id \in Records, Uncheck(id) PROVE PaneInv'
  BY <1>8 DEF Uncheck
<1>9. ASSUME NEW r \in loading, NEW ok \in BOOLEAN, SlotAnswered(r, ok) PROVE PaneInv'
  BY <1>9 DEF SlotAnswered, SlotAfter
<1>10. CASE UNCHANGED vars
  BY <1>10 DEF vars
<1> QED
  BY <1>1, <1>2, <1>3, <1>4, <1>5, <1>6, <1>7, <1>8, <1>9, <1>10 DEF Next, Answer

LEMMA SlotStep == ASSUME IInv, [Next]_vars PROVE SlotInv'
<1> USE DEF IInv, TypeOK, RequestInv, SlotInv, SearchInv, ComparedCurrent, Reserved, Owns, Request, Slot
<1>1. CASE Publish
  BY <1>1 DEF Publish
<1>2. CASE Submit
  BY <1>2 DEF Submit, NoSlots
<1>3. ASSUME NEW t \in searching, SearchAnswered(t) PROVE SlotInv'
  BY <1>3 DEF SearchAnswered, ShowDetail, Shown
<1>4. ASSUME NEW t \in searching, SearchFailed(t) PROVE SlotInv'
  BY <1>4 DEF SearchFailed
<1>5. ASSUME NEW id \in Records, Open(id) PROVE SlotInv'
  BY <1>5 DEF Open, ShowDetail, Shown
<1>6. ASSUME NEW r \in loading, NEW ok \in BOOLEAN, DetailAnswered(r, ok) PROVE SlotInv'
  BY <1>6 DEF DetailAnswered, PaneOf, Shown
<1>7. ASSUME NEW id \in Records, Check(id) PROVE SlotInv'
  BY <1>7 DEF Check, RequestSlot
<1>8. ASSUME NEW id \in Records, Uncheck(id) PROVE SlotInv'
  BY <1>8 DEF Uncheck
<1>9. ASSUME NEW r \in loading, NEW ok \in BOOLEAN, SlotAnswered(r, ok) PROVE SlotInv'
  BY <1>9 DEF SlotAnswered, SlotAfter
<1>10. CASE UNCHANGED vars
  BY <1>10 DEF vars
<1> QED
  BY <1>1, <1>2, <1>3, <1>4, <1>5, <1>6, <1>7, <1>8, <1>9, <1>10 DEF Next, Answer

LEMMA SearchStep == ASSUME IInv, [Next]_vars PROVE SearchInv'
<1> USE DEF IInv, TypeOK, RequestInv, SearchInv, Request
<1>1. CASE Publish
  BY <1>1 DEF Publish
<1>2. CASE Submit
  BY <1>2 DEF Submit, NoSlots
<1>3. ASSUME NEW t \in searching, SearchAnswered(t) PROVE SearchInv'
  BY <1>3 DEF SearchAnswered, ShowDetail, Shown
<1>4. ASSUME NEW t \in searching, SearchFailed(t) PROVE SearchInv'
  BY <1>4 DEF SearchFailed
<1>5. ASSUME NEW id \in Records, Open(id) PROVE SearchInv'
  BY <1>5 DEF Open, ShowDetail, Shown
<1>6. ASSUME NEW r \in loading, NEW ok \in BOOLEAN, DetailAnswered(r, ok) PROVE SearchInv'
  BY <1>6 DEF DetailAnswered, PaneOf, Shown
<1>7. ASSUME NEW id \in Records, Check(id) PROVE SearchInv'
  BY <1>7 DEF Check, RequestSlot
<1>8. ASSUME NEW id \in Records, Uncheck(id) PROVE SearchInv'
  BY <1>8 DEF Uncheck
<1>9. ASSUME NEW r \in loading, NEW ok \in BOOLEAN, SlotAnswered(r, ok) PROVE SearchInv'
  BY <1>9 DEF SlotAnswered, SlotAfter
<1>10. CASE UNCHANGED vars
  BY <1>10 DEF vars
<1> QED
  BY <1>1, <1>2, <1>3, <1>4, <1>5, <1>6, <1>7, <1>8, <1>9, <1>10 DEF Next, Answer

LEMMA DetailStep == ASSUME IInv, [Next]_vars PROVE DetailCurrent'
<1> USE DEF IInv, TypeOK, PaneInv, SearchInv, DetailCurrent, Request
<1>1. CASE Publish
  BY <1>1 DEF Publish
<1>2. CASE Submit
  BY <1>2 DEF Submit, NoSlots
<1>3. ASSUME NEW t \in searching, SearchAnswered(t) PROVE DetailCurrent'
  BY <1>3 DEF SearchAnswered, ShowDetail, Shown
<1>4. ASSUME NEW t \in searching, SearchFailed(t) PROVE DetailCurrent'
  BY <1>4 DEF SearchFailed
<1>5. ASSUME NEW id \in Records, Open(id) PROVE DetailCurrent'
  BY <1>5 DEF Open, ShowDetail, Shown
<1>6. ASSUME NEW r \in loading, NEW ok \in BOOLEAN, DetailAnswered(r, ok) PROVE DetailCurrent'
  BY <1>6 DEF DetailAnswered, PaneOf, Shown
<1>7. ASSUME NEW id \in Records, Check(id) PROVE DetailCurrent'
  BY <1>7 DEF Check, RequestSlot
<1>8. ASSUME NEW id \in Records, Uncheck(id) PROVE DetailCurrent'
  BY <1>8 DEF Uncheck
<1>9. ASSUME NEW r \in loading, NEW ok \in BOOLEAN, SlotAnswered(r, ok) PROVE DetailCurrent'
  BY <1>9 DEF SlotAnswered, SlotAfter
<1>10. CASE UNCHANGED vars
  BY <1>10 DEF vars
<1> QED
  BY <1>1, <1>2, <1>3, <1>4, <1>5, <1>6, <1>7, <1>8, <1>9, <1>10 DEF Next, Answer

LEMMA ComparedStep == ASSUME IInv, [Next]_vars PROVE ComparedCurrent'
<1> USE UIAssumption DEF IInv, TypeOK, SlotInv, SearchInv, ComparedCurrent, Reserved, Owns, Request, Slot
<1>1. CASE Publish
  BY <1>1 DEF Publish
<1>2. CASE Submit
  BY <1>2 DEF Submit, NoSlots
<1>3. ASSUME NEW t \in searching, SearchAnswered(t) PROVE ComparedCurrent'
  BY <1>3 DEF SearchAnswered, ShowDetail, Shown
<1>4. ASSUME NEW t \in searching, SearchFailed(t) PROVE ComparedCurrent'
  BY <1>4 DEF SearchFailed
<1>5. ASSUME NEW id \in Records, Open(id) PROVE ComparedCurrent'
  BY <1>5 DEF Open, ShowDetail, Shown
<1>6. ASSUME NEW r \in loading, NEW ok \in BOOLEAN, DetailAnswered(r, ok) PROVE ComparedCurrent'
  BY <1>6 DEF DetailAnswered, PaneOf, Shown
<1>7. ASSUME NEW id \in Records, Check(id) PROVE ComparedCurrent'
  BY <1>7 DEF Check, RequestSlot
<1>8. ASSUME NEW id \in Records, Uncheck(id) PROVE ComparedCurrent'
  BY <1>8 DEF Uncheck
<1>9. ASSUME NEW r \in loading, NEW ok \in BOOLEAN, SlotAnswered(r, ok) PROVE ComparedCurrent'
  BY <1>9 DEF SlotAnswered, SlotAfter
<1>10. CASE UNCHANGED vars
  BY <1>10 DEF vars
<1> QED
  BY <1>1, <1>2, <1>3, <1>4, <1>5, <1>6, <1>7, <1>8, <1>9, <1>10 DEF Next, Answer

(* The limit is checked in the turn that reserves the slot.                *)
LEMMA LimitStep ==
  ASSUME IInv, [Next]_vars PROVE IsFiniteSet(Reserved') /\ ComparedLimited'
<1> DEFINE Goal == IsFiniteSet(Reserved') /\ Cardinality(Reserved') <= CompareLimit
<1> USE UIAssumption DEF IInv
<1> SUFFICES Goal
  BY DEF ComparedLimited
<1>1. CASE Reserved' \subseteq Reserved
  <2>1. IsFiniteSet(Reserved') /\ Cardinality(Reserved') <= Cardinality(Reserved)
    BY <1>1, FS_Subset
  <2>2. Cardinality(Reserved') \in Nat /\ Cardinality(Reserved) \in Nat
    BY <2>1, FS_CardinalityType
  <2> QED  BY <2>1, <2>2 DEF ComparedLimited
<1>2. ASSUME NEW id \in Records, Check(id) PROVE Goal
  <2>1. Reserved' = Reserved \cup {id} /\ id \notin Reserved
    <3>1. clicks' \in Nat /\ [key |-> clicks', package |-> 0] # None
      BY <1>2 DEF Check, TypeOK
    <3>2. compared' = [compared EXCEPT ![id] = [key |-> clicks', package |-> 0]]
      BY <1>2 DEF Check
    <3> QED  BY <1>2, <3>1, <3>2 DEF Check, Reserved, TypeOK
  <2>2. IsFiniteSet(Reserved') /\ Cardinality(Reserved') = Cardinality(Reserved) + 1
    BY <2>1, FS_AddElement
  <2>3. Cardinality(Reserved) < CompareLimit /\ Cardinality(Reserved) \in Nat
    BY <1>2, FS_CardinalityType DEF Check
  <2> QED  BY <2>2, <2>3
<1>3. ASSUME Submit PROVE Reserved' \subseteq Reserved
  BY <1>3 DEF Submit, NoSlots, Reserved
<1>4. ASSUME NEW id \in Records, Uncheck(id) PROVE Reserved' \subseteq Reserved
  BY <1>4 DEF Uncheck, Reserved, TypeOK
<1>5. ASSUME NEW r \in loading, NEW ok \in BOOLEAN, SlotAnswered(r, ok)
      PROVE  Reserved' \subseteq Reserved
  BY <1>5 DEF SlotAnswered, SlotAfter, Owns, Reserved, TypeOK
<1>6. ASSUME UNCHANGED compared PROVE Reserved' \subseteq Reserved
  BY <1>6 DEF Reserved
<1> QED
  BY <1>1, <1>2, <1>3, <1>4, <1>5, <1>6
  DEF Next, Answer, vars, Publish, SearchAnswered, SearchFailed, Open, DetailAnswered

LEMMA Invariance == Spec => []IInv
<1>1. IInv /\ [Next]_vars => IInv'
  BY TypeStep, RequestStep, PaneStep, SlotStep, SearchStep, DetailStep, ComparedStep, LimitStep
  DEF IInv
<1> QED  BY <1>1, InvInit, PTL DEF Spec

--------------------------------------------------------------------------------
(* Every variable keeps its type.                                          *)
THEOREM TypeCorrect == Spec => []TypeOK
<1>1. IInv => TypeOK
  BY DEF IInv
<1> QED  BY <1>1, Invariance, PTL

(* The pane never shows a package of another snapshot than the results', or *)
(* another package than the selected one, in whatever order answers come.  *)
THEOREM DetailIsCurrent == Spec => []DetailCurrent
<1>1. IInv => DetailCurrent
  BY DEF IInv
<1> QED  BY <1>1, Invariance, PTL

(* The packages to compare are listed, and of the results' snapshot.       *)
THEOREM ComparisonIsCurrent == Spec => []ComparedCurrent
<1>1. IInv => ComparedCurrent
  BY DEF IInv
<1> QED  BY <1>1, Invariance, PTL

(* No sequence of clicks and answers exceeds the limit of the comparison.  *)
THEOREM ComparisonIsLimited == Spec => []ComparedLimited
<1>1. IInv => ComparedLimited
  BY DEF IInv
<1> QED  BY <1>1, Invariance, PTL

--------------------------------------------------------------------------------
(* What liveness rests on: whatever the page waits for is still in flight,  *)
(* and every answer leaves fewer fetches in flight.                        *)

(* Results, and the requests made for them, come from a snapshot.          *)
OriginInv ==
  /\ results # {} => snapshot # 0
  /\ \A r \in loading : r.snapshot # 0

(* A disabled button has a search, or the package of its first result, on  *)
(* the way that enables it.                                                *)
ButtonAwaited ==
  busy => searchToken \in searching \/ \E r \in loading : r.for = "pane" /\ r.search = searchToken

(* An empty slot has a request on the way that it has not disowned.        *)
SlotsAwaited ==
  \A id \in Reserved :
    compared[id].package = 0 => \E r \in loading : r.for = "slot" /\ r.id = id /\ Owns(r)

LiveInv == OriginInv /\ ButtonAwaited /\ SlotsAwaited /\ IsFiniteSet(loading)

LEMMA LiveInit == Init => LiveInv
BY FS_EmptySet
DEF Init, LiveInv, OriginInv, ButtonAwaited, SlotsAwaited, Reserved, NoSlots

LEMMA OriginStep == ASSUME IInv, LiveInv, [Next]_vars PROVE OriginInv'
<1> USE UIAssumption DEF IInv, TypeOK, Snapshots, Request, LiveInv, OriginInv
<1>1. CASE Publish
  BY <1>1 DEF Publish
<1>2. CASE Submit
  BY <1>2 DEF Submit, NoSlots
<1>3. ASSUME NEW t \in searching, SearchAnswered(t) PROVE OriginInv'
  BY <1>3 DEF SearchAnswered, ShowDetail, Shown
<1>4. ASSUME NEW t \in searching, SearchFailed(t) PROVE OriginInv'
  BY <1>4 DEF SearchFailed
<1>5. ASSUME NEW id \in Records, Open(id) PROVE OriginInv'
  BY <1>5 DEF Open, ShowDetail, Shown
<1>6. ASSUME NEW r \in loading, NEW ok \in BOOLEAN, DetailAnswered(r, ok) PROVE OriginInv'
  BY <1>6 DEF DetailAnswered, PaneOf, Shown
<1>7. ASSUME NEW id \in Records, Check(id) PROVE OriginInv'
  BY <1>7 DEF Check, RequestSlot
<1>8. ASSUME NEW id \in Records, Uncheck(id) PROVE OriginInv'
  BY <1>8 DEF Uncheck
<1>9. ASSUME NEW r \in loading, NEW ok \in BOOLEAN, SlotAnswered(r, ok) PROVE OriginInv'
  BY <1>9 DEF SlotAnswered, SlotAfter
<1>10. CASE UNCHANGED vars
  BY <1>10 DEF vars
<1> QED
  BY <1>1, <1>2, <1>3, <1>4, <1>5, <1>6, <1>7, <1>8, <1>9, <1>10 DEF Next, Answer

LEMMA ButtonStep == ASSUME IInv, LiveInv, [Next]_vars PROVE ButtonAwaited'
<1> USE UIAssumption DEF IInv, TypeOK, Request, LiveInv, ButtonAwaited
<1>1. CASE Publish
  BY <1>1 DEF Publish
<1>2. CASE Submit
  BY <1>2 DEF Submit, NoSlots
<1>3. ASSUME NEW t \in searching, SearchAnswered(t) PROVE ButtonAwaited'
  <2>1. CASE t # searchToken
    BY <1>3, <2>1 DEF SearchAnswered
  <2>2. CASE t = searchToken /\ results' = {}
    BY <1>3, <2>2 DEF SearchAnswered
  <2>3. CASE t = searchToken /\ results' # {}
    <3>1. PICK first \in results' : ShowDetail(first, snapshot', t)
      BY <1>3, <2>3 DEF SearchAnswered
    <3>2. \E r \in loading' : r.for = "pane" /\ r.search = t
      <4> DEFINE request == [for |-> "pane", id |-> first, snapshot |-> snapshot',
                             key |-> detailToken', search |-> t]
      <4>1. request \in loading'
        BY <3>1 DEF ShowDetail
      <4>2. request.for = "pane" /\ request.search = t
        OBVIOUS
      <4> HIDE DEF request
      <4> QED  BY <4>1, <4>2
    <3> QED  BY <1>3, <2>3, <3>2 DEF SearchAnswered
  <2> QED  BY <2>1, <2>2, <2>3
<1>4. ASSUME NEW t \in searching, SearchFailed(t) PROVE ButtonAwaited'
  BY <1>4 DEF SearchFailed
<1>5. ASSUME NEW id \in Records, Open(id) PROVE ButtonAwaited'
  BY <1>5 DEF Open, ShowDetail, Shown
<1>6. ASSUME NEW r \in loading, NEW ok \in BOOLEAN, DetailAnswered(r, ok) PROVE ButtonAwaited'
  BY <1>6 DEF DetailAnswered, PaneOf, Shown
<1>7. ASSUME NEW id \in Records, Check(id) PROVE ButtonAwaited'
  BY <1>7 DEF Check, RequestSlot
<1>8. ASSUME NEW id \in Records, Uncheck(id) PROVE ButtonAwaited'
  BY <1>8 DEF Uncheck
<1>9. ASSUME NEW r \in loading, NEW ok \in BOOLEAN, SlotAnswered(r, ok) PROVE ButtonAwaited'
  BY <1>9 DEF SlotAnswered, SlotAfter
<1>10. CASE UNCHANGED vars
  BY <1>10 DEF vars
<1> QED
  BY <1>1, <1>2, <1>3, <1>4, <1>5, <1>6, <1>7, <1>8, <1>9, <1>10 DEF Next, Answer

LEMMA SlotsStep == ASSUME IInv, LiveInv, [Next]_vars PROVE SlotsAwaited'
<1> USE UIAssumption DEF IInv, TypeOK, Request, Slot, SlotInv, LiveInv, OriginInv, SlotsAwaited,
                         Reserved, Owns
<1>1. CASE Publish
  BY <1>1 DEF Publish
<1>2. CASE Submit
  BY <1>2 DEF Submit, NoSlots
<1>3. ASSUME NEW t \in searching, SearchAnswered(t) PROVE SlotsAwaited'
  BY <1>3 DEF SearchAnswered, ShowDetail, Shown
<1>4. ASSUME NEW t \in searching, SearchFailed(t) PROVE SlotsAwaited'
  BY <1>4 DEF SearchFailed
<1>5. ASSUME NEW id \in Records, Open(id) PROVE SlotsAwaited'
  BY <1>5 DEF Open, ShowDetail, Shown
<1>6. ASSUME NEW r \in loading, NEW ok \in BOOLEAN, DetailAnswered(r, ok) PROVE SlotsAwaited'
  BY <1>6 DEF DetailAnswered, PaneOf, Shown
<1>7. ASSUME NEW id \in Records, Check(id) PROVE SlotsAwaited'
  <2> DEFINE request == [for |-> "slot", id |-> id, snapshot |-> snapshot, key |-> clicks',
                         search |-> 0]
  <2>1. /\ compared' = [compared EXCEPT ![id] = [key |-> clicks', package |-> 0]]
        /\ compared[id] = None
        /\ loading' = loading \cup {request}
    BY <1>7 DEF Check, RequestSlot
  <2>2. /\ request \in loading'
        /\ compared'[request.id] # None /\ compared'[request.id].key = request.key
    <3>1. compared'[id] = [key |-> clicks', package |-> 0] /\ clicks' \in Nat
      BY <1>7, <2>1 DEF Check
    <3> QED  BY <2>1, <3>1
  <2>3. ASSUME NEW other \in Reserved', other # id, compared'[other].package = 0
        PROVE  \E r \in loading' : /\ r.for = "slot" /\ r.id = other
                                   /\ compared'[r.id] # None /\ compared'[r.id].key = r.key
    <3>1. other \in Reserved /\ compared'[other] = compared[other]
      BY <2>1, <2>3
    <3>2. PICK r \in loading : r.for = "slot" /\ r.id = other /\ Owns(r)
      BY <2>3, <3>1
    <3> QED  BY <2>1, <3>1, <3>2
  <2>4. request.for = "slot" /\ request.id = id
    OBVIOUS
  <2> HIDE DEF request
  <2> QED  BY <2>2, <2>3, <2>4
<1>8. ASSUME NEW id \in Records, Uncheck(id) PROVE SlotsAwaited'
  BY <1>8 DEF Uncheck
<1>9. ASSUME NEW r \in loading, NEW ok \in BOOLEAN, SlotAnswered(r, ok) PROVE SlotsAwaited'
  BY <1>9 DEF SlotAnswered, SlotAfter
<1>10. CASE UNCHANGED vars
  BY <1>10 DEF vars
<1> QED
  BY <1>1, <1>2, <1>3, <1>4, <1>5, <1>6, <1>7, <1>8, <1>9, <1>10 DEF Next, Answer

(* An answer takes its fetch away.  It adds one at most, for the first      *)
(* result of a search, which counts as two.                                *)
Fetches == 2 * Cardinality(searching) + Cardinality(loading)

LEMMA Removed ==
  ASSUME NEW S, IsFiniteSet(S), NEW x \in S
  PROVE  IsFiniteSet(S \ {x}) /\ Cardinality(S \ {x}) = Cardinality(S) - 1
BY FS_RemoveElement

LEMMA FewerFetches ==
  ASSUME IInv, LiveInv, Answer PROVE Fetches' < Fetches /\ IsFiniteSet(loading')
<1>1. IsFiniteSet(searching) /\ IsFiniteSet(loading)
  <2>1. IsFiniteSet(1..MaxSearches)
    BY UIAssumption, FS_Interval
  <2> QED  BY <2>1, FS_Subset DEF IInv, LiveInv, TypeOK
<1>2. Cardinality(searching) \in Nat /\ Cardinality(loading) \in Nat
  BY <1>1, FS_CardinalityType
<1>3. ASSUME NEW t \in searching, SearchAnswered(t) \/ SearchFailed(t)
      PROVE  Fetches' < Fetches /\ IsFiniteSet(loading')
  <2>1. Cardinality(searching') = Cardinality(searching) - 1
    BY <1>1, <1>3, Removed DEF SearchAnswered, SearchFailed
  <2>2. loading' = loading \/ \E r : loading' = loading \cup {r}
    BY <1>3 DEF SearchAnswered, SearchFailed, ShowDetail
  <2>3. /\ IsFiniteSet(loading')
        /\ Cardinality(loading') \in {Cardinality(loading), Cardinality(loading) + 1}
    BY <1>1, <2>2, FS_AddElement
  <2> QED  BY <1>2, <2>1, <2>3 DEF Fetches
<1>4. ASSUME NEW r \in loading, NEW ok \in BOOLEAN, DetailAnswered(r, ok) \/ SlotAnswered(r, ok)
      PROVE  Fetches' < Fetches /\ IsFiniteSet(loading')
  <2>1. loading' = loading \ {r} /\ searching' = searching
    BY <1>4 DEF DetailAnswered, SlotAnswered
  <2>2. IsFiniteSet(loading') /\ Cardinality(loading') = Cardinality(loading) - 1
    BY <1>1, <2>1, Removed
  <2> QED  BY <1>2, <2>1, <2>2 DEF Fetches
<1> QED  BY <1>3, <1>4 DEF Answer

LEMMA FiniteStep == ASSUME IInv, LiveInv, [Next]_vars PROVE IsFiniteSet(loading')
<1>1. CASE Answer
  BY <1>1, FewerFetches
<1>2. CASE loading' = loading
  BY <1>2 DEF LiveInv
<1>3. ASSUME NEW id \in Records, Open(id) \/ Check(id) PROVE IsFiniteSet(loading')
  <2>1. \E r : loading' = loading \cup {r}
    BY <1>3 DEF Open, ShowDetail, Check, RequestSlot
  <2> QED  BY <2>1, FS_AddElement DEF LiveInv
<1> QED  BY <1>1, <1>2, <1>3 DEF Next, Publish, Submit, Uncheck, vars

LEMMA LiveInvariance == Spec => [](IInv /\ LiveInv)
<1>1. IInv /\ LiveInv /\ [Next]_vars => LiveInv'
  BY OriginStep, ButtonStep, SlotsStep, FiniteStep DEF LiveInv
<1> QED  BY <1>1, LiveInit, Invariance, PTL DEF Spec

(* The search button is never disabled with nothing in flight to enable it, *)
(* and no slot is reserved for a package that nothing will deliver.        *)
THEOREM NothingWaitsInVain == Spec => [](ButtonAwaited /\ SlotsAwaited)
<1>1. LiveInv => ButtonAwaited /\ SlotsAwaited
  BY DEF LiveInv
<1> QED  BY <1>1, LiveInvariance, PTL

(* Answers run out: each leaves fewer fetches in flight, so that only clicks *)
(* and searches can keep the page fetching.                                *)
THEOREM FetchesRunOut == Spec => [][Answer => Fetches' < Fetches]_vars
<1>1. IInv /\ LiveInv /\ [Next]_vars => [Answer => Fetches' < Fetches]_vars
  BY FewerFetches
<1> QED  BY <1>1, LiveInvariance, PTL DEF Spec
===============================================================================
