--------------------------- MODULE SnapshotRegister ---------------------------
(***************************************************************************)
(* What the index store promises, without files, locks or processes: a     *)
(* register that holds the current snapshot, is overwritten whole by each   *)
(* publication, and from which every request reads one snapshot only.      *)
(***************************************************************************)
EXTENDS Naturals

CONSTANTS
  Snapshots,   \* the snapshots that can be published, each at most once
  Requests,    \* the read requests
  None         \* no snapshot

VARIABLES
  current,     \* the snapshot the register holds, or None
  recoverable, \* what the register may hold after a power loss
  published,   \* every snapshot that was ever current
  retired,     \* published snapshots whose storage has been reclaimed
  pinned,      \* the snapshot a request reads, or None between requests
  served       \* the snapshots a request has been served from

vars == <<current, recoverable, published, retired, pinned, served>>

Init ==
  /\ current = None
  /\ recoverable = {None}
  /\ published = {}
  /\ retired = {}
  /\ pinned = [r \in Requests |-> None]
  /\ served = [r \in Requests |-> {}]

(* A publication is the only way to a new current snapshot, and a power    *)
(* loss can undo no more than the latest one.                              *)
Publish(s) ==
  /\ s \notin published
  /\ current' = s
  /\ published' = published \cup {s}
  /\ recoverable' = {current, s}
  /\ UNCHANGED <<retired, pinned, served>>

Flush ==
  /\ recoverable' = {current}
  /\ UNCHANGED <<current, published, retired, pinned, served>>

PowerLoss ==
  /\ current' \in recoverable
  /\ recoverable' = {current'}
  /\ pinned' = [r \in Requests |-> None]
  /\ served' = [r \in Requests |-> {}]
  /\ UNCHANGED <<published, retired>>

(* Only a snapshot that no recovery can bring back is reclaimed.           *)
Retire(s) ==
  /\ s \in published \ (recoverable \cup {current})
  /\ retired' = retired \cup {s}
  /\ UNCHANGED <<current, recoverable, published, pinned, served>>

Pin(r, s) ==
  /\ s \in published
  /\ pinned' = [pinned EXCEPT ![r] = s]
  /\ served' = [served EXCEPT ![r] = {}]
  /\ UNCHANGED <<current, recoverable, published, retired>>

Serve(r) ==
  /\ pinned[r] \in published \ retired
  /\ served' = [served EXCEPT ![r] = @ \cup {pinned[r]}]
  /\ UNCHANGED <<current, recoverable, published, retired, pinned>>

Next ==
  \/ \E s \in Snapshots : Publish(s) \/ Retire(s)
  \/ Flush
  \/ PowerLoss
  \/ \E r \in Requests : (\E s \in Snapshots : Pin(r, s)) \/ Serve(r)

Spec == Init /\ [][Next]_vars
===============================================================================
