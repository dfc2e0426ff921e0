---------------------------- MODULE ArtifactDigest ----------------------------
(***************************************************************************)
(* Embedder.artifact_digest: the digest of the served GGUF, which threads  *)
(* of the server compute or take from a cache that they share without a    *)
(* lock, while an operator rewrites the file or puts another in its place  *)
(* (src/src/specsearch/embeddings.py).                                     *)
(*                                                                         *)
(* A file is an inode, and its version counts the writes to it.  identity  *)
(* (info) stands for both, <<file, version>>: the code relies on a write   *)
(* that changes the size or a time stamp.  A digest is that of the file    *)
(* whose first part was read at one version and whose rest at another.     *)
(***************************************************************************)
EXTENDS Naturals

CONSTANTS
  Threads,   \* threads of a server that share an Embedder
  Files,     \* files that artifact_path may name
  None,      \* no such file, nothing cached
  MaxWrites  \* bound: writes to a file

Versions == 0..MaxWrites
Stat == Files \X Versions
Digests == Files \X Versions \X Versions
Cached == [stat : Stat, artifact : Digests]

ASSUME DigestAssumption ==
  /\ None \notin Files \cup Cached
  /\ MaxWrites \in Nat

VARIABLES
  path,     \* the file that artifact_path names
  version,  \* the writes to each file so far
  cache,    \* _artifact_cache
  pc,       \* where the call of each thread is
  before,   \* the identity of the open file, read first
  head,     \* the version of the first part that was hashed
  artifact  \* the digest

vars == <<path, version, cache, pc, before, head, artifact>>

Running == {"opened", "hashing", "hashed", "confirmed", "checked"}

TypeOK ==
  /\ path \in Files \cup {None}
  /\ version \in [Files -> Versions]
  /\ cache \in Cached \cup {None}
  /\ pc \in [Threads -> {"idle", "done"} \cup Running]
  /\ before \in [Threads -> Stat]
  /\ head \in [Threads -> Versions]
  /\ artifact \in [Threads -> Digests]

(* The locals of a thread that has made no call yet are of no account.     *)
Init ==
  /\ path \in Files
  /\ version = [f \in Files |-> 0]
  /\ cache = None
  /\ pc = [t \in Threads |-> "idle"]
  /\ before = [t \in Threads |-> <<path, 0>>]
  /\ head = [t \in Threads |-> 0]
  /\ artifact = [t \in Threads |-> <<path, 0, 0>>]

StatOf(f) == <<f, version[f]>>

Goto(t, from, to) ==
  /\ pc[t] = from
  /\ pc' = [pc EXCEPT ![t] = to]

--------------------------------------------------------------------------------
(* The operator, or LM Studio: a download, a link or a rename.             *)
PointPath(f) ==
  /\ path' = f
  /\ UNCHANGED <<version, cache, pc, before, head, artifact>>

WriteFile(f) ==
  /\ version[f] < MaxWrites
  /\ version' = [version EXCEPT ![f] = @ + 1]
  /\ UNCHANGED <<path, cache, pc, before, head, artifact>>

(* path.open, and fstat of what was opened.  Without a file it raises.     *)
Open(t) ==
  /\ pc[t] \notin Running /\ path # None
  /\ pc' = [pc EXCEPT ![t] = "opened"]
  /\ before' = [before EXCEPT ![t] = StatOf(path)]
  /\ UNCHANGED <<path, version, cache, head, artifact>>

(* HitOfFile, ReturnOfIdentity: the definitions below them as a plausible  *)
(* bug would make them, which the specification does not use.              *)
HitOfFile(t) == cache # None /\ cache.stat[1] = before[t][1]

Hit(t) == cache # None /\ cache.stat = before[t]

(* The cached pair is of the open file: its digest is taken.  The three    *)
(* loads of the pair, two to compare it and one to use it, are one step,   *)
(* because the interpreter lets another thread run only at a call, a jump  *)
(* back or a blocking operation.                                           *)
TakeCached(t) ==
  /\ Hit(t)
  /\ Goto(t, "opened", "hashed")
  /\ artifact' = [artifact EXCEPT ![t] = cache.artifact]
  /\ UNCHANGED <<path, version, cache, before, head>>

(* hashlib.file_digest, which blocks again and again, begins and ends.     *)
StartHash(t) ==
  /\ ~Hit(t)
  /\ Goto(t, "opened", "hashing")
  /\ head' = [head EXCEPT ![t] = version[before[t][1]]]
  /\ UNCHANGED <<path, version, cache, before, artifact>>

FinishHash(t) ==
  /\ Goto(t, "hashing", "hashed")
  /\ artifact' = [artifact EXCEPT ![t] = <<before[t][1], head[t], version[before[t][1]]>>]
  /\ UNCHANGED <<path, version, cache, before, head>>

(* The second fstat, and then path.stat(): the open file is as it was, and *)
(* still the one at its path, or the call raises.                          *)
Confirm(t) ==
  /\ Goto(t, "hashed", IF StatOf(before[t][1]) = before[t] THEN "confirmed" ELSE "idle")
  /\ UNCHANGED <<path, version, cache, before, head, artifact>>

CheckPath(t) ==
  /\ Goto(t, "confirmed", IF path # None /\ StatOf(path) = before[t] THEN "checked" ELSE "idle")
  /\ UNCHANGED <<path, version, cache, before, head, artifact>>

ReturnOfIdentity(t) ==
  /\ Goto(t, "checked", "done")
  /\ cache' = [stat |-> before[t], artifact |-> before[t]]
  /\ UNCHANGED <<path, version, before, head, artifact>>

Return(t) ==
  /\ Goto(t, "checked", "done")
  /\ cache' = [stat |-> before[t], artifact |-> artifact[t]]
  /\ UNCHANGED <<path, version, before, head, artifact>>

Next ==
  \/ \E f \in Files \cup {None} : PointPath(f)
  \/ \E f \in Files : WriteFile(f)
  \/ \E t \in Threads :
       \/ Open(t) \/ TakeCached(t) \/ StartHash(t) \/ FinishHash(t)
       \/ Confirm(t) \/ CheckPath(t) \/ Return(t)

Spec == Init /\ [][Next]_vars

--------------------------------------------------------------------------------
(* Properties.                                                             *)

(* The digest of a file at the version of an identity.                     *)
Whole(stat) == <<stat[1], stat[2], stat[2]>>

(* However threads overlap and files change, the cached digest is that of  *)
(* the cached identity, and a call returns the digest of what it opened:   *)
(* never of a mixture, and never of another file that a thread cached.     *)
DigestTrue ==
  /\ cache # None => cache.artifact = Whole(cache.stat)
  /\ \A t \in Threads : pc[t] = "done" => artifact[t] = Whole(before[t])
===============================================================================
