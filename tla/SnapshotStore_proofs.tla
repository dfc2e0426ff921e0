------------------------- MODULE SnapshotStore_proofs -------------------------
(***************************************************************************)
(* Proofs about SnapshotStore, for any number of builds and requests.      *)
(***************************************************************************)
EXTENDS SnapshotStore, Integers, TLAPS

(* The flock has one holder: the build that is past its acquisition.       *)
LockInv == \A b \in Builds : pc[b] \in HoldsLock <=> lock = b

(* What a build has established when it reaches a statement of _build.     *)
BuildInv ==
  \A b \in Builds :
    /\ pc[b] \in {"committed", "synced", "pointed", "pointerSynced", "publishing"}
         => db[b] = "complete"
    /\ pc[b] \in {"synced", "pointed", "pointerSynced", "publishing"} => b \in dbSynced
    /\ pc[b] \in {"pointerSynced", "publishing"}
         => b \in pointerSynced /\ survivors = {active}
    /\ b \in published => pc[b] \in {"replaced"} \cup Ended

(* A published snapshot is on disk, and stays whole until it is removed.   *)
PublishedInv ==
  \A b \in published :
    /\ b \in dbSynced /\ b \in pointerSynced
    /\ db[b] \in {"complete", "absent"}

(* The pointer, now and after a power loss, names a whole published one.   *)
PointerInv ==
  /\ active \in survivors
  /\ \A s \in survivors : s # None => s \in published /\ db[s] = "complete"
  /\ RollbackAtMostOne

RequestInv ==
  \A r \in Requests :
    /\ pin[r] \in published \cup {None}
    /\ rpc[r] # "idle" => pin[r] \in published /\ left[r] \in 1..MaxReads
    /\ seen[r] \subseteq {<<pin[r], "complete">>}

IInv == TypeOK /\ LockInv /\ BuildInv /\ PublishedInv /\ PointerInv /\ RequestInv

--------------------------------------------------------------------------------
(* Every variable keeps its type; `left` counts down and stops at zero.    *)
LEMMA TypeInit == Init => TypeOK
BY StoreAssumption DEF Init, TypeOK, Contents

(* A build step changes the build's pc and, of the rest, what it names.    *)
LEMMA TypeStep ==
  ASSUME TypeOK, RequestInv, [Next]_vars
  PROVE TypeOK'
<1> USE StoreAssumption
<1> USE DEF TypeOK, Contents, Running, HoldsLock, UnpublishedPoints, PublicationPoints, Ended,
            buildVars, diskVars, requestVars, Goto, ReleaseLock
<1>1. ASSUME NEW b \in Builds, StartBuild(b) PROVE TypeOK'
  BY <1>1 DEF StartBuild
<1>2. ASSUME NEW b \in Builds, AcquireLock(b) PROVE TypeOK'
  BY <1>2 DEF AcquireLock
<1>3. ASSUME NEW b \in Builds, Program(b) PROVE TypeOK'
  <2>1. CASE CreateDb(b)  BY <2>1 DEF CreateDb
  <2>2. CASE EnterTry(b)  BY <2>2 DEF EnterTry
  <2>3. CASE Commit(b)  BY <2>3 DEF Commit
  <2>4. CASE SyncDb(b)  BY <2>4 DEF SyncDb
  <2>5. CASE WritePointer(b)  BY <2>5 DEF WritePointer
  <2>6. CASE SyncPointer(b)  BY <2>6 DEF SyncPointer
  <2>7. CASE StartPublication(b)  BY <2>7 DEF StartPublication
  <2>8. CASE Replace(b)  BY <2>8 DEF Replace
  <2>9. CASE Return(b)  BY <2>9 DEF Return
  <2> QED  BY <1>3, <2>1, <2>2, <2>3, <2>4, <2>5, <2>6, <2>7, <2>8, <2>9 DEF Program
<1>4. ASSUME NEW b \in Builds, Raise(b) PROVE TypeOK'
  BY <1>4 DEF Raise
<1>5. ASSUME NEW b \in Builds, Kill(b) PROVE TypeOK'
  BY <1>5 DEF Kill
<1>6. ASSUME NEW b \in Builds, RemoveOld(b) PROVE TypeOK'
  BY <1>6 DEF RemoveOld
<1>7. ASSUME NEW r \in Requests, ReadPointer(r) \/ NameSnapshot(r) PROVE TypeOK'
  <2>1. PICK s \in Builds : Begin(r, s)
    BY <1>7 DEF ReadPointer, NameSnapshot
  <2> QED  BY <2>1 DEF Begin
<1>8. ASSUME NEW r \in Requests, CheckFile(r) PROVE TypeOK'
  BY <1>8 DEF CheckFile
<1>9. ASSUME NEW r \in Requests, OpenDb(r) PROVE TypeOK'
  <2>1. left[r] \in 1..MaxReads /\ pin[r] \in Builds
    BY <1>9 DEF OpenDb, RequestInv
  <2>2. left[r] - 1 \in 0..MaxReads
    BY <2>1
  <2>3. seen[r] \cup {<<pin[r], db[pin[r]]>>} \in SUBSET (Builds \X Contents)
    BY <2>1
  <2>4. rpc' \in [Requests -> {"idle", "checking", "opening"}]
    BY <1>9 DEF OpenDb
  <2>5. seen' \in [Requests -> SUBSET (Builds \X Contents)]
    BY <1>9, <2>3 DEF OpenDb
  <2>6. left' \in [Requests -> 0..MaxReads]
    BY <1>9, <2>2 DEF OpenDb
  <2> QED  BY <1>9, <2>4, <2>5, <2>6 DEF OpenDb
<1>10. CASE PowerLoss
  BY <1>10 DEF PowerLoss
<1>11. CASE UNCHANGED vars
  BY <1>11 DEF vars
<1> QED
  BY <1>1, <1>2, <1>3, <1>4, <1>5, <1>6, <1>7, <1>8, <1>9, <1>10, <1>11 DEF Next, Connect

--------------------------------------------------------------------------------
LEMMA InvInit == Init => IInv
<1> SUFFICES ASSUME Init PROVE IInv
  OBVIOUS
<1>1. TypeOK
  BY TypeInit
<1>2. LockInv /\ BuildInv /\ PublishedInv
  BY StoreAssumption
  DEF Init, LockInv, BuildInv, PublishedInv, HoldsLock, UnpublishedPoints, PublicationPoints
<1>3. PointerInv /\ RequestInv
  BY DEF Init, PointerInv, RequestInv, RollbackAtMostOne
<1> QED  BY <1>1, <1>2, <1>3 DEF IInv

(* The lock keeps one build at a time between flock and rename.            *)
LEMMA LockStep == ASSUME IInv, [Next]_vars PROVE LockInv'
<1> USE StoreAssumption
<1> USE DEF IInv, TypeOK, LockInv, Running, HoldsLock, UnpublishedPoints, PublicationPoints, Ended,
            buildVars, Goto, ReleaseLock
<1>1. ASSUME NEW b \in Builds, StartBuild(b) PROVE LockInv'
  BY <1>1 DEF StartBuild
<1>2. ASSUME NEW b \in Builds, AcquireLock(b) PROVE LockInv'
  BY <1>2 DEF AcquireLock
<1>3. ASSUME NEW b \in Builds, Program(b) PROVE LockInv'
  <2>1. CASE Return(b)  BY <2>1 DEF Return
  <2>2. CASE ~Return(b)
    BY <1>3, <2>2 DEF Program, CreateDb, EnterTry, Commit, SyncDb, WritePointer, SyncPointer,
                      StartPublication, Replace
  <2> QED  BY <2>1, <2>2
<1>4. ASSUME NEW b \in Builds, Raise(b) PROVE LockInv'
  BY <1>4 DEF Raise
<1>5. ASSUME NEW b \in Builds, Kill(b) PROVE LockInv'
  BY <1>5 DEF Kill
<1>6. CASE PowerLoss
  BY <1>6 DEF PowerLoss
<1>7. CASE UNCHANGED buildVars
  BY <1>7
<1> QED
  BY <1>1, <1>2, <1>3, <1>4, <1>5, <1>6, <1>7
  DEF Next, Connect, RemoveOld, ReadPointer, NameSnapshot, Begin, CheckFile, OpenDb, vars

(* A build's own facts: the lock keeps the other builds from disturbing    *)
(* them between its fsync of the pointer and its rename.                   *)
LEMMA BuildStep == ASSUME IInv, [Next]_vars PROVE BuildInv' /\ PublishedInv'
<1> USE StoreAssumption
<1> USE DEF IInv, TypeOK, LockInv, BuildInv, PublishedInv, Running, HoldsLock, UnpublishedPoints,
            PublicationPoints, Ended, Contents, buildVars, diskVars, Goto
<1>1. ASSUME NEW b \in Builds, StartBuild(b) PROVE BuildInv' /\ PublishedInv'
  BY <1>1 DEF StartBuild
<1>2. ASSUME NEW b \in Builds, AcquireLock(b) PROVE BuildInv' /\ PublishedInv'
  BY <1>2 DEF AcquireLock
<1>3. ASSUME NEW b \in Builds, Program(b) PROVE BuildInv' /\ PublishedInv'
  <2>1. CASE CreateDb(b)  BY <2>1 DEF CreateDb
  <2>2. CASE EnterTry(b)  BY <2>2 DEF EnterTry
  <2>3. CASE Commit(b)  BY <2>3 DEF Commit
  <2>4. CASE SyncDb(b)  BY <2>4 DEF SyncDb
  <2>5. CASE WritePointer(b)  BY <2>5 DEF WritePointer
  <2>6. CASE SyncPointer(b)  BY <2>6 DEF SyncPointer
  <2>7. CASE StartPublication(b)  BY <2>7 DEF StartPublication
  <2>8. CASE Replace(b)  BY <2>8 DEF Replace
  <2>9. CASE Return(b)  BY <2>9 DEF Return
  <2> QED  BY <1>3, <2>1, <2>2, <2>3, <2>4, <2>5, <2>6, <2>7, <2>8, <2>9 DEF Program
<1>4. ASSUME NEW b \in Builds, Raise(b) PROVE BuildInv' /\ PublishedInv'
  BY <1>4 DEF Raise
<1>5. ASSUME NEW b \in Builds, Kill(b) PROVE BuildInv' /\ PublishedInv'
  BY <1>5 DEF Kill
<1>6. ASSUME NEW b \in Builds, RemoveOld(b) PROVE BuildInv' /\ PublishedInv'
  BY <1>6 DEF RemoveOld
<1>7. CASE PowerLoss
  BY <1>7 DEF PowerLoss, AfterPowerLoss
<1>8. CASE UNCHANGED <<buildVars, diskVars>>
  BY <1>8
<1> QED
  BY <1>1, <1>2, <1>3, <1>4, <1>5, <1>6, <1>7, <1>8
  DEF Next, Connect, ReadPointer, NameSnapshot, Begin, CheckFile, OpenDb, vars

(* The pointer moves in Replace and in PowerLoss only.                     *)
LEMMA PointerStep == ASSUME IInv, [Next]_vars PROVE PointerInv'
<1> USE StoreAssumption
<1> USE DEF IInv, TypeOK, BuildInv, PublishedInv, PointerInv, RollbackAtMostOne, UnpublishedPoints,
            Ended, buildVars, diskVars, Goto
<1>1. ASSUME NEW b \in Builds, StartBuild(b) \/ AcquireLock(b) \/ Kill(b) PROVE PointerInv'
  BY <1>1 DEF StartBuild, AcquireLock, Kill
<1>2. ASSUME NEW b \in Builds, Program(b) PROVE PointerInv'
  <2>1. CASE CreateDb(b) \/ Commit(b)  BY <2>1 DEF CreateDb, Commit
  <2>2. CASE SyncDb(b) \/ SyncPointer(b)  BY <2>2 DEF SyncDb, SyncPointer
  <2>3. CASE Replace(b)  BY <2>3 DEF Replace
  <2>4. CASE EnterTry(b) \/ WritePointer(b) \/ StartPublication(b) \/ Return(b)
    BY <2>4 DEF EnterTry, WritePointer, StartPublication, Return
  <2> QED  BY <1>2, <2>1, <2>2, <2>3, <2>4 DEF Program
<1>3. ASSUME NEW b \in Builds, Raise(b) PROVE PointerInv'
  BY <1>3 DEF Raise
<1>4. ASSUME NEW b \in Builds, RemoveOld(b) PROVE PointerInv'
  BY <1>4 DEF RemoveOld
<1>5. CASE PowerLoss
  BY <1>5 DEF PowerLoss, AfterPowerLoss
<1>6. CASE UNCHANGED diskVars
  BY <1>6
<1> QED
  BY <1>1, <1>2, <1>3, <1>4, <1>5, <1>6
  DEF Next, Connect, ReadPointer, NameSnapshot, Begin, CheckFile, OpenDb, vars

(* A request's snapshot is a published one, so whatever is left of it is   *)
(* whole.                                                                  *)
LEMMA RequestStep == ASSUME IInv, [Next]_vars PROVE RequestInv'
<1> USE StoreAssumption
<1> USE DEF IInv, TypeOK, PublishedInv, PointerInv, RequestInv, diskVars, requestVars
<1>1. ASSUME NEW r \in Requests, ReadPointer(r) \/ NameSnapshot(r) PROVE RequestInv'
  <2>1. PICK s \in published : Begin(r, s)
    BY <1>1 DEF ReadPointer, NameSnapshot
  <2> QED  BY <2>1 DEF Begin
<1>2. ASSUME NEW r \in Requests, CheckFile(r) PROVE RequestInv'
  BY <1>2 DEF CheckFile
<1>3. ASSUME NEW r \in Requests, OpenDb(r) PROVE RequestInv'
  <2>1. left[r] \in 1..MaxReads /\ pin[r] \in published
    BY <1>3 DEF OpenDb
  <2>2. left[r] # 1 => left[r] - 1 \in 1..MaxReads
    BY <2>1
  <2>3. db[pin[r]] # "absent" => db[pin[r]] = "complete"
    BY <2>1
  <2> QED  BY <1>3, <2>1, <2>2, <2>3 DEF OpenDb
<1>4. CASE PowerLoss
  BY <1>4 DEF PowerLoss
<1>5. CASE UNCHANGED requestVars /\ published \subseteq published'
  BY <1>5
<1> QED
  BY <1>1, <1>2, <1>3, <1>4, <1>5
  DEF Next, Program, Connect, StartBuild, AcquireLock, CreateDb, EnterTry, Commit, SyncDb,
      WritePointer, SyncPointer, StartPublication, Replace, Return, Raise, Kill, RemoveOld, vars

LEMMA InvStep == IInv /\ [Next]_vars => IInv'
<1> SUFFICES ASSUME IInv, [Next]_vars PROVE IInv'
  OBVIOUS
<1>1. TypeOK'
  BY TypeStep DEF IInv
<1> QED  BY <1>1, LockStep, BuildStep, PointerStep, RequestStep DEF IInv

(* Every reachable state of the store satisfies the inductive invariant.   *)
THEOREM Invariance == Spec => []IInv
BY InvInit, InvStep, PTL DEF Spec

--------------------------------------------------------------------------------
(* The variables of the store keep their types.                            *)
THEOREM TypeCorrect == Spec => []TypeOK
<1>1. IInv => TypeOK
  BY DEF IInv
<1> QED  BY <1>1, Invariance, PTL

(* active.json never names a database that is missing or not whole, now or *)
(* after a power loss, however builds are interrupted.                     *)
THEOREM ActiveIsComplete == Spec => []ActiveComplete
<1>1. IInv => ActiveComplete
  BY DEF IInv, TypeOK, PointerInv, ActiveComplete
<1> QED  BY <1>1, Invariance, PTL

(* One request reads one snapshot, and all of it.                          *)
THEOREM RequestsReadOneSnapshot == Spec => []OneSnapshotPerRequest
<1>1. IInv => OneSnapshotPerRequest
  BY DEF IInv, RequestInv, OneSnapshotPerRequest
<1> QED  BY <1>1, Invariance, PTL

(* No power loss undoes two publications.                                  *)
THEOREM PowerLossUndoesOne == Spec => []RollbackAtMostOne
<1>1. IInv => RollbackAtMostOne
  BY DEF IInv, PointerInv
<1> QED  BY <1>1, Invariance, PTL

(* Published databases are not rewritten, nor removed while current.       *)
THEOREM PublishedStaysImmutable == Spec => PublishedImmutable
<1> DEFINE Kept ==
      \A s \in published :
        db'[s] = db[s] \/ (db'[s] = "absent" /\ s \notin {active, active'})
<1>1. IInv /\ [Next]_vars => [Kept]_vars
  <2> SUFFICES ASSUME IInv, [Next]_vars PROVE Kept
    OBVIOUS
  <2> USE DEF IInv, TypeOK, BuildInv, PublishedInv, PointerInv, diskVars, Goto, UnpublishedPoints,
              Ended
  <2>1. ASSUME NEW b \in Builds, CreateDb(b) \/ Commit(b) PROVE Kept
    BY <2>1 DEF CreateDb, Commit
  <2>2. ASSUME NEW b \in Builds, Raise(b) PROVE Kept
    BY <2>2 DEF Raise
  <2>3. ASSUME NEW b \in Builds, RemoveOld(b) PROVE Kept
    BY <2>3 DEF RemoveOld
  <2>4. CASE PowerLoss
    BY <2>4 DEF PowerLoss, AfterPowerLoss
  <2>5. CASE UNCHANGED db
    BY <2>5
  <2> QED
    BY <2>1, <2>2, <2>3, <2>4, <2>5
    DEF Next, Program, Connect, StartBuild, AcquireLock, EnterTry, SyncDb, WritePointer,
        SyncPointer, StartPublication, Replace, Return, Kill, ReadPointer, NameSnapshot, Begin,
        CheckFile, OpenDb, vars
<1> QED  BY <1>1, Invariance, PTL DEF Spec, PublishedImmutable

--------------------------------------------------------------------------------
(* The refinement.  Fsyncs are Flush, the rename is Publish, a removed     *)
(* database is retired, and the other steps of a build are invisible.      *)
LEMMA ServedEmpty == ServedFrom({}) = {}
BY DEF ServedFrom

LEMMA ServedAdd ==
  ASSUME NEW reads, NEW s
  PROVE ServedFrom(reads \cup {<<s, "complete">>}) = ServedFrom(reads) \cup {s}
<1> DEFINE Shown(x) == IF x[2] = "complete" THEN x[1] ELSE Torn
<1>1. Shown(<<s, "complete">>) = s
  OBVIOUS
<1>2. {Shown(x) : x \in reads \cup {<<s, "complete">>}}
        = {Shown(x) : x \in reads} \cup {Shown(<<s, "complete">>)}
  OBVIOUS
<1> QED  BY <1>1, <1>2 DEF ServedFrom

(* A request that reads changes its own part of what is served.            *)
LEMMA ServedUpdate ==
  ASSUME NEW r \in Requests, NEW reads, DOMAIN seen = Requests,
         seen' = [seen EXCEPT ![r] = reads]
  PROVE [q \in Requests |-> ServedFrom(seen[q])]'
          = [[q \in Requests |-> ServedFrom(seen[q])] EXCEPT ![r] = ServedFrom(reads)]
<1>1. \A q \in Requests : seen'[q] = IF q = r THEN reads ELSE seen[q]
  OBVIOUS
<1>2. [q \in Requests |-> ServedFrom(seen'[q])]
        = [[q \in Requests |-> ServedFrom(seen[q])] EXCEPT ![r] = ServedFrom(reads)]
  BY <1>1
<1> QED  BY <1>2

LEMMA RegisterInit == Init => Register!Init
<1> SUFFICES ASSUME Init PROVE Register!Init
  OBVIOUS
<1>1. [r \in Requests |-> ServedFrom(seen[r])] = [r \in Requests |-> {}]
  BY ServedEmpty DEF Init
<1> QED  BY <1>1 DEF Init, Register!Init

(* While published databases keep their contents, so does the set of       *)
(* retired snapshots.                                                      *)
LEMMA RetiredStays ==
  ASSUME published' = published, \A s \in published : db'[s] = "absent" <=> db[s] = "absent"
  PROVE {s \in published : db[s] = "absent"}' = {s \in published : db[s] = "absent"}
OBVIOUS

LEMMA RegisterStep == IInv /\ [Next]_vars => [Register!Next]_(Register!vars)
<1> SUFFICES ASSUME IInv, [Next]_vars PROVE Register!Next \/ UNCHANGED Register!vars
  OBVIOUS
<1> USE DEF IInv, TypeOK, diskVars, requestVars, Goto
<1>1. ASSUME NEW b \in Builds, CreateDb(b) \/ Commit(b) \/ Raise(b)
      PROVE UNCHANGED Register!vars
  <2>1. b \notin published \/ UNCHANGED db
    BY <1>1 DEF CreateDb, Commit, Raise, BuildInv, UnpublishedPoints, Ended
  <2>2. published' = published /\ \A s \in published : db'[s] = "absent" <=> db[s] = "absent"
    BY <1>1, <2>1 DEF CreateDb, Commit, Raise
  <2> QED  BY <1>1, <2>2, RetiredStays DEF CreateDb, Commit, Raise, Register!vars
<1>2. ASSUME NEW b \in Builds, SyncDb(b) \/ SyncPointer(b) PROVE Register!Flush
  BY <1>2 DEF SyncDb, SyncPointer, Register!Flush
<1>3. ASSUME NEW b \in Builds, Replace(b) PROVE Register!Publish(b)
  <2>1. b \notin published /\ db[b] = "complete" /\ survivors = {active}
    BY <1>3 DEF Replace, BuildInv, Ended
  <2>2. {s \in published : db[s] = "absent"}' = {s \in published : db[s] = "absent"}
    BY <1>3, <2>1 DEF Replace
  <2>3. survivors' = {active, b}
    BY <1>3, <2>1 DEF Replace
  <2> QED  BY <1>3, <2>1, <2>2, <2>3 DEF Replace, Register!Publish
<1>4. ASSUME NEW b \in Builds, RemoveOld(b) PROVE Register!Retire(b)
  <2>1. {s \in published : db[s] = "absent"}' = {s \in published : db[s] = "absent"} \cup {b}
    BY <1>4 DEF RemoveOld
  <2> QED  BY <1>4, <2>1 DEF RemoveOld, Register!Retire
<1>5. CASE PowerLoss
  <2>1. published' = published /\ \A s \in published : db'[s] = "absent" <=> db[s] = "absent"
    BY <1>5 DEF PowerLoss, AfterPowerLoss, PublishedInv
  <2>2. active' \in survivors
    BY <1>5 DEF PowerLoss, PointerInv, PublishedInv
  <2>3. [r \in Requests |-> ServedFrom(seen[r])]' = [r \in Requests |-> {}]
    BY <1>5, ServedEmpty DEF PowerLoss
  <2> QED
    BY <1>5, <2>1, <2>2, <2>3, RetiredStays DEF PowerLoss, Register!PowerLoss, Register!Next
<1>6. ASSUME NEW r \in Requests, ReadPointer(r) \/ NameSnapshot(r) PROVE Register!Next
  <2>1. PICK s \in published : Begin(r, s)
    BY <1>6, StoreAssumption DEF ReadPointer, NameSnapshot, PointerInv
  <2>2. [q \in Requests |-> ServedFrom(seen[q])]'
          = [[q \in Requests |-> ServedFrom(seen[q])] EXCEPT ![r] = {}]
    BY <2>1, ServedUpdate, ServedEmpty DEF Begin
  <2>3. Register!Pin(r, s)
    BY <2>1, <2>2 DEF Begin, buildVars, Register!Pin
  <2> QED  BY <2>1, <2>3 DEF Register!Next
<1>7. ASSUME NEW r \in Requests, OpenDb(r), db[pin[r]] # "absent" PROVE Register!Serve(r)
  <2>1. pin[r] \in published /\ db[pin[r]] = "complete"
    BY <1>7 DEF OpenDb, RequestInv, PublishedInv
  <2>2. seen' = [seen EXCEPT ![r] = seen[r] \cup {<<pin[r], "complete">>}]
    BY <1>7, <2>1 DEF OpenDb
  <2>3. [q \in Requests |-> ServedFrom(seen[q])]'
          = [[q \in Requests |-> ServedFrom(seen[q])] EXCEPT ![r] = ServedFrom(seen[r]) \cup {pin[r]}]
    BY <2>2, ServedUpdate, ServedAdd
  <2> QED  BY <1>7, <2>1, <2>2, <2>3 DEF OpenDb, buildVars, Register!Serve
<1>8. ASSUME NEW r \in Requests, CheckFile(r) \/ (OpenDb(r) /\ db[pin[r]] = "absent")
      PROVE UNCHANGED Register!vars
  BY <1>8 DEF CheckFile, OpenDb, Register!vars
<1>9. CASE UNCHANGED <<diskVars, requestVars>>
  BY <1>9 DEF Register!vars
<1> QED
  BY <1>1, <1>2, <1>3, <1>4, <1>5, <1>6, <1>7, <1>8, <1>9
  DEF Next, Program, Connect, StartBuild, AcquireLock, EnterTry, WritePointer, StartPublication,
      Return, Kill, vars, Register!Next

(* The store implements the register of SnapshotRegister.                  *)
THEOREM StoreImplementsRegister == Spec => ImplementsRegister
BY RegisterInit, RegisterStep, Invariance, PTL DEF Spec, ImplementsRegister, Register!Spec

--------------------------------------------------------------------------------
(* What liveness rests on: the lock is free or its holder is running, and  *)
(* builds and requests come closer to their end and never go back.         *)

(* Of the processes that build, one at most is between flock and the end   *)
(* of its with statement, and none that failed or was killed keeps the     *)
(* lock from the others.                                                   *)
THEOREM WritersExclude ==
  Spec => []( /\ \A b, c \in Builds : pc[b] \in HoldsLock /\ pc[c] \in HoldsLock => b = c
              /\ lock # None => pc[lock] \in HoldsLock)
<1>1. IInv => /\ \A b, c \in Builds : pc[b] \in HoldsLock /\ pc[c] \in HoldsLock => b = c
              /\ lock # None => pc[lock] \in HoldsLock
  BY DEF IInv, TypeOK, LockInv
<1> QED  BY <1>1, Invariance, PTL

(* The statements that a build still has before it.                        *)
Statements(b) ==
  CASE pc[b] = "idle"          -> 12
    [] pc[b] = "waiting"       -> 11
    [] pc[b] = "locked"        -> 10
    [] pc[b] = "created"       -> 9
    [] pc[b] = "filling"       -> 8
    [] pc[b] = "committed"     -> 7
    [] pc[b] = "synced"        -> 6
    [] pc[b] = "pointed"       -> 5
    [] pc[b] = "pointerSynced" -> 4
    [] pc[b] = "publishing"    -> 3
    [] pc[b] = "replaced"      -> 2
    [] pc[b] \in Ended         -> 1

(* The checks and connections that a request still has before it.          *)
Connections(r) ==
  CASE rpc[r] = "idle"     -> 0
    [] rpc[r] = "checking" -> 2 * left[r]
    [] rpc[r] = "opening"  -> 2 * left[r] - 1

BuildsAdvance ==
  \A b \in Builds :
    /\ pc'[b] # pc[b] => Statements(b)' < Statements(b)
    /\ Program(b) \/ AcquireLock(b) => pc'[b] # pc[b]

RequestsAdvance ==
  \A r \in Requests :
    /\ Connect(r) => Connections(r)' < Connections(r)
    /\ rpc[r] # "idle" => Connections(r)' <= Connections(r)

LEMMA BuildsStep == ASSUME TypeOK, [Next]_vars PROVE BuildsAdvance
<1> SUFFICES ASSUME NEW b \in Builds
             PROVE  /\ pc'[b] # pc[b] => Statements(b)' < Statements(b)
                    /\ Program(b) \/ AcquireLock(b) => pc'[b] # pc[b]
  BY DEF BuildsAdvance
<1>1. Program(b) \/ AcquireLock(b) => pc'[b] # pc[b]
  BY DEF TypeOK, Program, AcquireLock, CreateDb, EnterTry, Commit, SyncDb, WritePointer,
         SyncPointer, StartPublication, Replace, Return, Goto
<1>2. ASSUME NEW c \in Builds, Program(c) \/ AcquireLock(c) \/ StartBuild(c), c # b
      PROVE  pc'[b] = pc[b]
  BY <1>2 DEF TypeOK, Program, AcquireLock, StartBuild, CreateDb, EnterTry, Commit, SyncDb,
              WritePointer, SyncPointer, StartPublication, Replace, Return, Goto
<1>3. ASSUME Program(b) \/ AcquireLock(b) \/ StartBuild(b) PROVE Statements(b)' < Statements(b)
  BY <1>3 DEF TypeOK, Program, AcquireLock, StartBuild, CreateDb, EnterTry, Commit, SyncDb,
              WritePointer, SyncPointer, StartPublication, Replace, Return, Goto, Statements, Ended
<1>4. ASSUME pc[b] \in Running, pc'[b] \in {"failed", "killed"}
      PROVE  Statements(b)' < Statements(b)
  BY <1>4 DEF Statements, Running, HoldsLock, UnpublishedPoints, PublicationPoints, Ended
<1>5. ASSUME NEW c \in Builds, Raise(c) \/ Kill(c) \/ RemoveOld(c)
      PROVE  pc'[b] = pc[b] \/ (pc[b] \in Running /\ pc'[b] \in {"failed", "killed"})
  BY <1>5 DEF TypeOK, Raise, Kill, RemoveOld, buildVars
<1>6. ASSUME PowerLoss
      PROVE  pc'[b] = pc[b] \/ (pc[b] \in Running /\ pc'[b] \in {"failed", "killed"})
  BY <1>6 DEF TypeOK, PowerLoss
<1>7. ASSUME NEW r \in Requests, ReadPointer(r) \/ NameSnapshot(r) \/ Connect(r) PROVE pc' = pc
  BY <1>7 DEF ReadPointer, NameSnapshot, Begin, Connect, CheckFile, OpenDb, buildVars
<1>8. ASSUME UNCHANGED vars PROVE pc' = pc
  BY <1>8 DEF vars, buildVars
<1> QED  BY <1>1, <1>2, <1>3, <1>4, <1>5, <1>6, <1>7, <1>8 DEF Next

LEMMA RequestsStep == ASSUME TypeOK, RequestInv, [Next]_vars PROVE RequestsAdvance
<1> SUFFICES ASSUME NEW r \in Requests
             PROVE  /\ Connect(r) => Connections(r)' < Connections(r)
                    /\ rpc[r] # "idle" => Connections(r)' <= Connections(r)
  BY DEF RequestsAdvance
<1> DEFINE Stays == rpc'[r] = rpc[r] /\ left'[r] = left[r]
<1>1. left[r] \in 0..MaxReads /\ (rpc[r] # "idle" => left[r] \in 1..MaxReads)
      /\ rpc[r] \in {"idle", "checking", "opening"}
  BY DEF TypeOK, RequestInv
<1>2. Connections(r) \in Nat
  BY <1>1, StoreAssumption DEF Connections
<1>3. Connect(r) => Connections(r)' < Connections(r) /\ Connections(r)' \in Int
  BY <1>1, StoreAssumption DEF TypeOK, Connect, CheckFile, OpenDb, Connections
<1>4. ASSUME NEW q \in Requests, Connect(q), q # r PROVE Stays
  BY <1>4 DEF TypeOK, Connect, CheckFile, OpenDb
<1>5. ASSUME NEW q \in Requests, ReadPointer(q) \/ NameSnapshot(q) PROVE rpc[r] = "idle" \/ Stays
  BY <1>5 DEF TypeOK, ReadPointer, NameSnapshot, Begin
<1>6. ASSUME NEW b \in Builds,
             StartBuild(b) \/ AcquireLock(b) \/ Program(b) \/ Raise(b) \/ Kill(b) \/ RemoveOld(b)
      PROVE  Stays
  BY <1>6 DEF Program, StartBuild, AcquireLock, CreateDb, EnterTry, Commit, SyncDb, WritePointer,
              SyncPointer, StartPublication, Replace, Return, Raise, Kill, RemoveOld, requestVars
<1>7. ASSUME PowerLoss PROVE Connections(r)' = 0
  BY <1>7 DEF PowerLoss, Connections
<1>8. ASSUME UNCHANGED vars PROVE Stays
  BY <1>8 DEF vars, requestVars
<1>9. Stays => Connections(r)' = Connections(r)
  BY DEF Connections
<1> QED  BY <1>2, <1>3, <1>4, <1>5, <1>6, <1>7, <1>8, <1>9 DEF Next

(* Every statement takes its build, and every connection its request, one  *)
(* step closer to the end; neither another process, a crash nor a power    *)
(* loss puts that off.                                                     *)
THEOREM StoreAdvances == Spec => [][BuildsAdvance /\ RequestsAdvance]_vars
<1>1. IInv /\ [Next]_vars => [BuildsAdvance /\ RequestsAdvance]_vars
  BY BuildsStep, RequestsStep DEF IInv
<1> QED  BY <1>1, Invariance, PTL DEF Spec
===============================================================================
