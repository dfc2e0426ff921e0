------------------------------ MODULE DiscoveryUI ------------------------------
(***************************************************************************)
(* The discovery page: one search, one package in the detail pane, and a    *)
(* few packages to compare, all fetched asynchronously while the server     *)
(* may publish another snapshot (src/ui/app.ts).                           *)
(*                                                                         *)
(* An action is one turn of the event loop, up to the next await.  Answers *)
(* arrive in any order.                                                    *)
(***************************************************************************)
EXTENDS Naturals, FiniteSets

CONSTANTS
  Records,       \* record ids
  None,          \* nothing selected, an empty comparison slot
  CompareLimit,  \* packages that can be compared: 3 in the code
  MaxSnapshots,  \* bound: snapshots the server publishes
  MaxSearches,   \* bound: searches
  MaxClicks      \* bound: results opened or checked

ASSUME UIAssumption ==
  /\ None \notin Records /\ None \notin [key : Nat, package : Nat]
  /\ CompareLimit \in Nat /\ MaxSearches \in Nat /\ MaxClicks \in Nat
  /\ MaxSnapshots \in Nat \ {0}

VARIABLES
  server,      \* the snapshot that is active in the server
  snapshot,    \* the snapshot of the page's last answered search, 0 for ''
  results,     \* the records listed
  selected,    \* the record whose detail was asked for
  detail,      \* what the detail pane shows
  detailToken, \* detail requests and searches so far
  searchToken, \* searches so far
  compared,    \* for a record to compare, its slot
  busy,        \* whether the search button is disabled
  searching,   \* the searches in flight, by token
  loading,     \* the package requests in flight
  clicks       \* results opened or checked so far

vars == <<server, snapshot, results, selected, detail, detailToken, searchToken, compared, busy,
          searching, loading, clicks>>

Snapshots == 0..MaxSnapshots

(* A slot knows the request that is to fill it, and the snapshot of the    *)
(* package it holds (0: not yet).                                          *)
Slot == [key : 1..MaxClicks, package : Snapshots]

Pane == [kind : {"empty", "loading", "package", "error"}, id : Records \cup {None},
         snapshot : Snapshots]

(* A package request: for the pane, under a detail token, awaited by a     *)
(* search (0: by a click); or for a slot.                                  *)
Request == [for : {"pane", "slot"}, id : Records, snapshot : Snapshots, key : Nat,
            search : 0..MaxSearches]

TypeOK ==
  /\ server \in 1..MaxSnapshots /\ snapshot \in Snapshots
  /\ results \subseteq Records
  /\ selected \in results \cup {None}
  /\ detail \in Pane
  /\ detailToken \in Nat /\ searchToken \in 0..MaxSearches /\ clicks \in 0..MaxClicks
  /\ compared \in [Records -> Slot \cup {None}]
  /\ busy \in BOOLEAN
  /\ searching \subseteq 1..MaxSearches
  /\ loading \subseteq Request

NoSlots == [id \in Records |-> None]
Reserved == {id \in Records : compared[id] # None}
Shown(kind, id, s) == [kind |-> kind, id |-> id, snapshot |-> s]

Init ==
  /\ server = 1 /\ snapshot = 0
  /\ results = {} /\ selected = None
  /\ detail = Shown("empty", None, 0)
  /\ detailToken = 0 /\ searchToken = 0 /\ clicks = 0
  /\ compared = NoSlots
  /\ busy = FALSE
  /\ searching = {} /\ loading = {}

--------------------------------------------------------------------------------
(* Of the definitions below, those whose names say what is kept, counted,  *)
(* left busy or looked up otherwise (SubmitKeepingDetailToken,             *)
(* SubmitKeepingSelection, SearchFailedStayingBusy, CheckCountingLoaded,   *)
(* OwnsById, SlotAfterKeeping) are plausible bugs that Next does not use.  *)

Publish ==
  /\ server < MaxSnapshots
  /\ server' = server + 1
  /\ UNCHANGED <<snapshot, results, selected, detail, detailToken, searchToken, compared, busy,
                 searching, loading, clicks>>

SubmitKeepingDetailToken ==
  /\ ~busy /\ searchToken < MaxSearches
  /\ searchToken' = searchToken + 1
  /\ compared' = NoSlots
  /\ selected' = None /\ results' = {}
  /\ busy' = TRUE
  /\ searching' = searching \cup {searchToken'}
  /\ UNCHANGED <<server, snapshot, detail, detailToken, loading, clicks>>

SubmitKeepingSelection ==
  /\ ~busy /\ searchToken < MaxSearches
  /\ searchToken' = searchToken + 1 /\ detailToken' = detailToken + 1
  /\ compared' = NoSlots
  /\ results' = {}
  /\ busy' = TRUE
  /\ searching' = searching \cup {searchToken'}
  /\ UNCHANGED <<server, snapshot, selected, detail, loading, clicks>>

(* search() up to its await.  What the detail pane shows stays.            *)
Submit ==
  /\ ~busy /\ searchToken < MaxSearches
  /\ searchToken' = searchToken + 1 /\ detailToken' = detailToken + 1
  /\ compared' = NoSlots
  /\ selected' = None /\ results' = {}
  /\ busy' = TRUE
  /\ searching' = searching \cup {searchToken'}
  /\ UNCHANGED <<server, snapshot, detail, loading, clicks>>

(* showDetail(id) up to its await, from the snapshot s.                    *)
ShowDetail(id, s, search) ==
  /\ detailToken' = detailToken + 1
  /\ selected' = id
  /\ detail' = Shown("loading", None, 0)
  /\ loading' = loading \cup {[for |-> "pane", id |-> id, snapshot |-> s, key |-> detailToken',
                               search |-> search]}

(* A search is answered: its snapshot and results replace the page's, and  *)
(* its first result is opened.  The button waits for that package too.     *)
SearchAnswered(t) ==
  /\ t \in searching
  /\ searching' = searching \ {t}
  /\ IF t # searchToken
       THEN UNCHANGED <<snapshot, results, selected, detail, detailToken, busy, loading>>
       ELSE /\ snapshot' = server
            /\ results' \in SUBSET Records
            /\ IF results' = {}
                 THEN /\ detail' = Shown("empty", None, 0)
                      /\ busy' = FALSE
                      /\ UNCHANGED <<selected, detailToken, loading>>
                 ELSE /\ \E first \in results' : ShowDetail(first, snapshot', t)
                      /\ UNCHANGED busy
  /\ UNCHANGED <<server, searchToken, compared, clicks>>

SearchFailedStayingBusy(t) ==
  /\ t \in searching
  /\ searching' = searching \ {t}
  /\ results' = {}
  /\ UNCHANGED <<server, snapshot, selected, detail, detailToken, searchToken, compared, loading,
                 busy, clicks>>

SearchFailed(t) ==
  /\ t \in searching
  /\ searching' = searching \ {t}
  /\ IF t = searchToken THEN results' = {} /\ busy' = FALSE ELSE UNCHANGED <<results, busy>>
  /\ UNCHANGED <<server, snapshot, selected, detail, detailToken, searchToken, compared, loading,
                 clicks>>

(* A result is opened.                                                     *)
Open(id) ==
  /\ clicks < MaxClicks /\ id \in results
  /\ clicks' = clicks + 1
  /\ ShowDetail(id, snapshot, 0)
  /\ UNCHANGED <<server, snapshot, results, searchToken, compared, busy, searching>>

PaneOf(r, ok) ==
  IF r.key # detailToken THEN detail
  ELSE IF ok THEN Shown("package", r.id, r.snapshot) ELSE Shown("error", None, 0)

(* The package for the detail pane arrives, or an error does.              *)
DetailAnswered(r, ok) ==
  /\ r \in loading /\ r.for = "pane"
  /\ loading' = loading \ {r}
  /\ detail' = PaneOf(r, ok)
  /\ busy' = IF r.search = searchToken THEN FALSE ELSE busy
  /\ UNCHANGED <<server, snapshot, results, selected, detailToken, searchToken, compared,
                 searching, clicks>>

RequestSlot(id) ==
  loading' = loading \cup {[for |-> "slot", id |-> id, snapshot |-> snapshot, key |-> clicks',
                            search |-> 0]}

CheckCountingLoaded(id) ==
  /\ clicks < MaxClicks /\ id \in results /\ compared[id] = None
  /\ Cardinality({x \in Reserved : compared[x].package # 0}) < CompareLimit
  /\ clicks' = clicks + 1
  /\ compared' = [compared EXCEPT ![id] = [key |-> clicks', package |-> 0]]
  /\ RequestSlot(id)
  /\ UNCHANGED <<server, snapshot, results, selected, detail, detailToken, searchToken, busy,
                 searching>>

(* The box of a result is checked: its slot is reserved before the fetch.  *)
Check(id) ==
  /\ clicks < MaxClicks /\ id \in results /\ compared[id] = None
  /\ Cardinality(Reserved) < CompareLimit
  /\ clicks' = clicks + 1
  /\ compared' = [compared EXCEPT ![id] = [key |-> clicks', package |-> 0]]
  /\ RequestSlot(id)
  /\ UNCHANGED <<server, snapshot, results, selected, detail, detailToken, searchToken, busy,
                 searching>>

Uncheck(id) ==
  /\ id \in Reserved
  /\ compared' = [compared EXCEPT ![id] = None]
  /\ UNCHANGED <<server, snapshot, results, selected, detail, detailToken, searchToken, busy,
                 searching, loading, clicks>>

(* Whether the slot that asked for a package is still the record's slot.   *)
OwnsById(r) == compared[r.id] # None

Owns(r) == compared[r.id] # None /\ compared[r.id].key = r.key

SlotAfterKeeping(r, ok) ==
  IF ok THEN [compared[r.id] EXCEPT !.package = r.snapshot] ELSE compared[r.id]

SlotAfter(r, ok) == IF ok THEN [compared[r.id] EXCEPT !.package = r.snapshot] ELSE None

(* The package for a slot arrives, or an error that empties the slot.      *)
SlotAnswered(r, ok) ==
  /\ r \in loading /\ r.for = "slot"
  /\ loading' = loading \ {r}
  /\ compared' = IF Owns(r) THEN [compared EXCEPT ![r.id] = SlotAfter(r, ok)] ELSE compared
  /\ UNCHANGED <<server, snapshot, results, selected, detail, detailToken, searchToken, busy,
                 searching, clicks>>

Answer ==
  \/ \E t \in searching : SearchAnswered(t) \/ SearchFailed(t)
  \/ \E r \in loading, ok \in BOOLEAN : DetailAnswered(r, ok) \/ SlotAnswered(r, ok)

Next ==
  \/ Publish \/ Submit \/ Answer
  \/ \E id \in Records : Open(id) \/ Check(id) \/ Uncheck(id)

Spec == Init /\ [][Next]_vars

(* Every fetch is answered or fails.  Users and builders do as they like.  *)
FairSpec == Spec /\ WF_vars(Answer)

--------------------------------------------------------------------------------
(* Properties.                                                             *)

(* The package in the pane is of the snapshot whose results are listed,    *)
(* and is the selected one, whatever answers arrive late: Verify and the   *)
(* source link of the pane send its id with that snapshot.                 *)
DetailCurrent ==
  detail.kind = "package" =>
    /\ detail.snapshot = snapshot
    /\ selected # None => detail.id = selected

(* All packages to compare are listed results of one snapshot.             *)
ComparedCurrent ==
  \A id \in Reserved : id \in results /\ compared[id].package \in {0, snapshot}

(* Clicks that overlap their fetches do not exceed the limit.              *)
ComparedLimited == Cardinality(Reserved) <= CompareLimit

(* The search button is enabled again after every search.                  *)
SearchEnabledAgain == busy ~> ~busy

(* A reserved slot is filled or given up: it cannot keep Compare disabled. *)
SlotsSettle ==
  \A id \in Records :
    compared[id] # None /\ compared[id].package = 0
      ~> compared[id] = None \/ compared[id].package # 0
===============================================================================
