----------------------------- MODULE SnapshotStore -----------------------------
(***************************************************************************)
(* The index directory of a data workspace: `specsearch index build`       *)
(* processes that publish snapshots into it, and the requests of a running  *)
(* server that read them (src/src/specsearch/store.py).                    *)
(*                                                                         *)
(* A build makes <uuid>.db, commits and syncs it, writes and syncs          *)
(* <uuid>.pointer, and renames that over active.json.  A uuid4 names one    *)
(* build for ever, so a build and its snapshot are one element of Builds.   *)
(* The contents of a database matter only as absent, partial or complete.  *)
(***************************************************************************)
EXTENDS Naturals

CONSTANTS
  Builds,    \* the invocations of Store.build, each with its own uuid
  Requests,  \* the server's request slots
  MaxReads,  \* bound: connections one request opens
  None,      \* no pointer file, a free lock, a request without a snapshot
  Torn       \* a pointer file whose contents did not reach the disk

ASSUME StoreAssumption ==
  /\ None \notin Builds
  /\ Torn \notin Builds
  /\ None # Torn
  /\ MaxReads \in Nat \ {0}

VARIABLES
  pc,            \* where each build is in Store.build
  lock,          \* the build that holds the flock on writer.lock, or None
  db,            \* what <uuid>.db contains
  dbSynced,      \* builds whose database file has been fsynced
  pointerSynced, \* builds whose pointer file has been fsynced
  active,        \* the snapshot active.json names
  survivors,     \* what active.json may name after a power loss
  published,     \* history: every build that active.json has named
  rpc,           \* where each request is in Store.connect
  pin,           \* the snapshot id a request passes to every connect
  left,          \* the connections a request has still to open
  seen           \* what a request has read: snapshot ids with their contents

buildVars == <<pc, lock>>
diskVars == <<db, dbSynced, pointerSynced, active, survivors, published>>
requestVars == <<rpc, pin, left, seen>>
vars == <<buildVars, diskVars, requestVars>>

(* A definition whose name ends in a fault is the one below it as a        *)
(* plausible bug would make it.  The specification uses none of them.      *)

UnpublishedPointsIgnoringFlag ==
  {"filling", "committed", "synced", "pointed", "pointerSynced", "publishing", "replaced"}

(* The statements of _build between connect and publication_started = True *)
(* at which an exception makes the handler remove the database.            *)
UnpublishedPoints ==
  {"filling", "committed", "synced", "pointed", "pointerSynced"}

(* After publication_started = True the handler keeps the database.        *)
PublicationPoints == {"publishing", "replaced"}

HoldsLock == {"locked", "created"} \cup UnpublishedPoints \cup PublicationPoints
Running == {"waiting"} \cup HoldsLock
Ended == {"done", "failed", "killed"}
Contents == {"absent", "partial", "complete"}

TypeOK ==
  /\ pc \in [Builds -> {"idle"} \cup Running \cup Ended]
  /\ lock \in Builds \cup {None}
  /\ db \in [Builds -> Contents]
  /\ dbSynced \subseteq Builds
  /\ pointerSynced \subseteq Builds
  /\ active \in Builds \cup {None, Torn}
  /\ survivors \subseteq Builds \cup {None, Torn}
  /\ published \subseteq Builds
  /\ rpc \in [Requests -> {"idle", "checking", "opening"}]
  /\ pin \in [Requests -> Builds \cup {None}]
  /\ left \in [Requests -> 0..MaxReads]
  /\ seen \in [Requests -> SUBSET (Builds \X Contents)]

(* Store.__init__ has made an empty directory.                             *)
Init ==
  /\ pc = [b \in Builds |-> "idle"]
  /\ lock = None
  /\ db = [b \in Builds |-> "absent"]
  /\ dbSynced = {}
  /\ pointerSynced = {}
  /\ active = None
  /\ survivors = {None}
  /\ published = {}
  /\ rpc = [r \in Requests |-> "idle"]
  /\ pin = [r \in Requests |-> None]
  /\ left = [r \in Requests |-> 0]
  /\ seen = [r \in Requests |-> {}]

--------------------------------------------------------------------------------
(* Store.build and Store._build, one action per step another process or a  *)
(* crash can tell apart.                                                   *)

Goto(b, from, to) ==
  /\ pc[b] = from
  /\ pc' = [pc EXCEPT ![b] = to]

StartBuild(b) ==
  /\ Goto(b, "idle", "waiting")
  /\ UNCHANGED <<lock, diskVars, requestVars>>

AcquireLockShared(b) ==
  /\ lock' = b
  /\ Goto(b, "waiting", "locked")
  /\ UNCHANGED <<diskVars, requestVars>>

AcquireLock(b) ==
  /\ lock = None
  /\ lock' = b
  /\ Goto(b, "waiting", "locked")
  /\ UNCHANGED <<diskVars, requestVars>>

(* sqlite3.connect(path) makes the file, before the try statement.         *)
CreateDb(b) ==
  /\ Goto(b, "locked", "created")
  /\ db' = [db EXCEPT ![b] = "partial"]
  /\ UNCHANGED <<lock, dbSynced, pointerSynced, active, survivors, published, requestVars>>

EnterTry(b) ==
  /\ Goto(b, "created", "filling")
  /\ UNCHANGED <<lock, diskVars, requestVars>>

(* Packages, documents, terms, vectors and the status row become visible   *)
(* together, at con.commit().                                              *)
Commit(b) ==
  /\ Goto(b, "filling", "committed")
  /\ db' = [db EXCEPT ![b] = "complete"]
  /\ UNCHANGED <<lock, dbSynced, pointerSynced, active, survivors, published, requestVars>>

SyncDbOmitted(b) ==
  /\ Goto(b, "committed", "synced")
  /\ UNCHANGED <<lock, diskVars, requestVars>>

(* fsync also commits every directory change made so far, so a power loss  *)
(* no longer undoes the rename that made `active` what it is.              *)
SyncDb(b) ==
  /\ Goto(b, "committed", "synced")
  /\ dbSynced' = dbSynced \cup {b}
  /\ survivors' = {active}
  /\ UNCHANGED <<lock, db, pointerSynced, active, published, requestVars>>

WritePointerInPlace(b) ==
  /\ Goto(b, "synced", "pointed")
  /\ active' = Torn
  /\ UNCHANGED <<lock, db, dbSynced, pointerSynced, survivors, published, requestVars>>

WritePointer(b) ==
  /\ Goto(b, "synced", "pointed")
  /\ UNCHANGED <<lock, diskVars, requestVars>>

SyncPointer(b) ==
  /\ Goto(b, "pointed", "pointerSynced")
  /\ pointerSynced' = pointerSynced \cup {b}
  /\ survivors' = {active}
  /\ UNCHANGED <<lock, db, dbSynced, active, published, requestVars>>

StartPublication(b) ==
  /\ Goto(b, "pointerSynced", "publishing")
  /\ UNCHANGED <<lock, diskVars, requestVars>>

(* os.replace: readers see the old file or the new one.  Until the next    *)
(* fsync a power loss may still bring the old one back.                    *)
Replace(b) ==
  /\ Goto(b, "publishing", "replaced")
  /\ active' = b
  /\ survivors' = survivors \cup {b}
  /\ published' = published \cup {b}
  /\ UNCHANGED <<lock, db, dbSynced, pointerSynced, requestVars>>

ReleaseLockOmitted(b) == lock' = lock

ReleaseLock(b) == lock' = IF lock = b THEN None ELSE lock

Return(b) ==
  /\ Goto(b, "replaced", "done")
  /\ ReleaseLock(b)
  /\ UNCHANGED <<diskVars, requestVars>>

(* Any statement may raise: a duplicate record_id, a provider error, a     *)
(* full disk, KeyboardInterrupt.  The handler unlinks the database of an   *)
(* unpublished build; leaving the with statement frees the lock.           *)
Raise(b) ==
  /\ pc[b] \in Running
  /\ pc' = [pc EXCEPT ![b] = "failed"]
  /\ ReleaseLock(b)
  /\ db' = IF pc[b] \in UnpublishedPoints THEN [db EXCEPT ![b] = "absent"] ELSE db
  /\ UNCHANGED <<dbSynced, pointerSynced, active, survivors, published, requestVars>>

(* SIGKILL: no handler runs, the kernel frees the flock.                   *)
Kill(b) ==
  /\ pc[b] \in Running
  /\ pc' = [pc EXCEPT ![b] = "killed"]
  /\ ReleaseLock(b)
  /\ UNCHANGED <<diskVars, requestVars>>

(* What a power loss can leave of a database: every byte is on disk only   *)
(* once the file was synced after its commit.                              *)
AfterPowerLoss(b) ==
  IF db[b] = "absent" \/ (db[b] = "complete" /\ b \in dbSynced)
    THEN {db[b]}
    ELSE {"absent", "partial", db[b]}

(* The machine stops: builds and requests are gone, active.json is what    *)
(* the last synced rename or a later one made it, and a pointer file that  *)
(* was not synced before its rename may hold nothing.                      *)
PowerLoss ==
  /\ active' \in {IF s \in pointerSynced \cup {None} THEN s ELSE Torn : s \in survivors}
  /\ survivors' = {active'}
  /\ db' \in {d \in [Builds -> Contents] : \A b \in Builds : d[b] \in AfterPowerLoss(b)}
  /\ pc' = [b \in Builds |-> IF pc[b] \in Running THEN "killed" ELSE pc[b]]
  /\ lock' = None
  /\ rpc' = [r \in Requests |-> "idle"]
  /\ pin' = [r \in Requests |-> None]
  /\ left' = [r \in Requests |-> 0]
  /\ seen' = [r \in Requests |-> {}]
  /\ UNCHANGED <<dbSynced, pointerSynced, published>>

(* The environment: an operator deletes the database of a snapshot that is *)
(* neither current nor what a power loss would make current.  No code of   *)
(* the repository does, but connect() expects a database to disappear.     *)
RemoveOld(s) ==
  /\ s \in published \ (survivors \cup {active})
  /\ db' = [db EXCEPT ![s] = "absent"]
  /\ UNCHANGED <<buildVars, dbSynced, pointerSynced, active, survivors, published, requestVars>>

--------------------------------------------------------------------------------
(* The server.  SearchService.search and Store.status read the pointer     *)
(* once; Store.package and SearchService.verify may be given a snapshot    *)
(* that an earlier answer named.  Each then opens one connection or more.  *)

Begin(r, s) ==
  /\ rpc[r] = "idle"
  /\ rpc' = [rpc EXCEPT ![r] = "checking"]
  /\ pin' = [pin EXCEPT ![r] = s]
  /\ \E n \in 1..MaxReads : left' = [left EXCEPT ![r] = n]
  /\ seen' = [seen EXCEPT ![r] = {}]
  /\ UNCHANGED <<buildVars, diskVars>>

(* Store.active: no pointer is LookupError, which leaves no trace.         *)
ReadPointer(r) ==
  /\ active \in Builds
  /\ Begin(r, active)

NameSnapshot(r) == \E s \in published : Begin(r, s)

CheckFileRetrying(r) ==
  /\ rpc[r] = "checking"
  /\ rpc' = [rpc EXCEPT ![r] = IF db[pin[r]] = "absent" THEN "checking" ELSE "opening"]
  /\ UNCHANGED <<buildVars, diskVars, pin, left, seen>>

(* path.is_file(): LookupError("snapshot_not_found") ends the request.     *)
CheckFile(r) ==
  /\ rpc[r] = "checking"
  /\ rpc' = [rpc EXCEPT ![r] = IF db[pin[r]] = "absent" THEN "idle" ELSE "opening"]
  /\ UNCHANGED <<buildVars, diskVars, pin, left, seen>>

OpenDbOfActive(r) ==
  /\ rpc[r] = "opening" /\ active \in Builds
  /\ seen' = [seen EXCEPT ![r] = @ \cup {<<active, db[active]>>}]
  /\ left' = [left EXCEPT ![r] = @ - 1]
  /\ rpc' = [rpc EXCEPT ![r] = IF left[r] = 1 THEN "idle" ELSE "checking"]
  /\ UNCHANGED <<buildVars, diskVars, pin>>

OpenDbOnceMore(r) ==
  /\ rpc[r] = "opening"
  /\ seen' = [seen EXCEPT ![r] = @ \cup {<<pin[r], db[pin[r]]>>}]
  /\ left' = [left EXCEPT ![r] = @ - 1]
  /\ rpc' = [rpc EXCEPT ![r] = IF left[r] = 0 THEN "idle" ELSE "checking"]
  /\ UNCHANGED <<buildVars, diskVars, pin>>

(* sqlite3.connect(mode=ro) and the statements run on the connection; the  *)
(* file may have disappeared since the check.                              *)
OpenDb(r) ==
  /\ rpc[r] = "opening"
  /\ IF db[pin[r]] = "absent"
       THEN /\ rpc' = [rpc EXCEPT ![r] = "idle"]
            /\ UNCHANGED <<left, seen>>
       ELSE /\ seen' = [seen EXCEPT ![r] = @ \cup {<<pin[r], db[pin[r]]>>}]
            /\ left' = [left EXCEPT ![r] = @ - 1]
            /\ rpc' = [rpc EXCEPT ![r] = IF left[r] = 1 THEN "idle" ELSE "checking"]
  /\ UNCHANGED <<buildVars, diskVars, pin>>

--------------------------------------------------------------------------------
(* The statements of a build that run without waiting for another process. *)
Program(b) ==
  \/ CreateDb(b) \/ EnterTry(b) \/ Commit(b) \/ SyncDb(b) \/ WritePointer(b)
  \/ SyncPointer(b) \/ StartPublication(b) \/ Replace(b) \/ Return(b)

Connect(r) == CheckFile(r) \/ OpenDb(r)

Next ==
  \/ \E b \in Builds :
       StartBuild(b) \/ AcquireLock(b) \/ Program(b) \/ Raise(b) \/ Kill(b) \/ RemoveOld(b)
  \/ \E r \in Requests : ReadPointer(r) \/ NameSnapshot(r) \/ Connect(r)
  \/ PowerLoss

Spec == Init /\ [][Next]_vars

(* A process that runs keeps running, and the kernel gives a free flock to *)
(* a process that waits for it.  Nothing is assumed of users and failures. *)
Fairness ==
  /\ \A b \in Builds : WF_vars(AcquireLock(b)) /\ WF_vars(Program(b))
  /\ \A r \in Requests : WF_vars(Connect(r))

FairSpec == Spec /\ Fairness

--------------------------------------------------------------------------------
(* Properties.                                                             *)

(* Whatever build was interrupted where, and whatever a power loss undid:  *)
(* active.json names a database with all its rows, or does not exist, and  *)
(* so will it after the next power loss.                                   *)
ActiveComplete ==
  \A s \in survivors \cup {active} : s # None => s \in Builds /\ db[s] = "complete"

(* All the connections of one request read the same snapshot, entire, no   *)
(* matter how many builds publish, fail or lose their lock meanwhile.      *)
OneSnapshotPerRequest ==
  \A r \in Requests : seen[r] \subseteq {<<pin[r], "complete">>}

(* The writer lock spans the fsync of the pointer and its rename, so no    *)
(* two publications are at risk together: a power loss undoes one at most. *)
RollbackAtMostOne ==
  \E s \in Builds \cup {None} : survivors \subseteq {active, s}

(* A published snapshot is never rewritten, and never removed while it is  *)
(* current, not even by the handler of a build that fails after its rename. *)
PublishedImmutable ==
  [][\A s \in published : db'[s] = db[s] \/ (db'[s] = "absent" /\ s \notin {active, active'})]_vars

(* A build that waits for the lock ends, whatever befalls its holders.     *)
BuildTerminates == \A b \in Builds : pc[b] = "waiting" ~> pc[b] \in Ended

(* A request ends, even if the snapshot it was given disappears.           *)
RequestTerminates == \A r \in Requests : rpc[r] # "idle" ~> rpc[r] = "idle"

(* The snapshots that a set of reads saw whole; a read of anything else is *)
(* Torn, which no register serves.                                         *)
ServedFrom(reads) == {IF x[2] = "complete" THEN x[1] ELSE Torn : x \in reads}

Register == INSTANCE SnapshotRegister WITH
  Snapshots <- Builds,
  current <- active,
  recoverable <- survivors,
  retired <- {s \in published : db[s] = "absent"},
  pinned <- pin,
  served <- [r \in Requests |-> ServedFrom(seen[r])]

(* The directory of files, locks and renames is the register: publications *)
(* are atomic and requests are served from one snapshot each.              *)
ImplementsRegister == Register!Spec
===============================================================================
