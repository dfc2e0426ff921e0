------------------------- MODULE ArtifactDigest_proofs -------------------------
(***************************************************************************)
(* Proofs about ArtifactDigest, for any threads, files and writes.         *)
(***************************************************************************)
EXTENDS ArtifactDigest, TLAPS

(* A call in progress has read its file at versions that grow, up to the   *)
(* present one.  Once it has a digest, that is of the identity it read     *)
(* first, or the file has been written since and Confirm will raise.       *)
CallInv ==
  \A t \in Threads :
    /\ before[t][2] <= version[before[t][1]]
    /\ pc[t] = "hashing" => before[t][2] <= head[t] /\ head[t] <= version[before[t][1]]
    /\ pc[t] = "hashed" =>
         artifact[t] = Whole(before[t]) \/ before[t][2] < version[before[t][1]]
    /\ pc[t] \in {"confirmed", "checked", "done"} => artifact[t] = Whole(before[t])

CacheInv == cache # None => cache.artifact = Whole(cache.stat)

IInv == TypeOK /\ CallInv /\ CacheInv

--------------------------------------------------------------------------------
LEMMA InvInit == Init => IInv
<1> SUFFICES ASSUME Init PROVE IInv
  OBVIOUS
<1> USE DigestAssumption
<1>1. TypeOK
  BY DEF Init, TypeOK, Stat, Digests, Versions, Running
<1>2. ASSUME NEW t \in Threads PROVE before[t][2] <= version[before[t][1]]
  <2>1. before[t][1] = path /\ before[t][2] = 0 /\ version[path] = 0
    BY DEF Init
  <2> QED  BY <2>1
<1>3. CallInv
  BY <1>2 DEF Init, CallInv
<1>4. CacheInv
  BY DEF Init, CacheInv
<1> QED  BY <1>1, <1>3, <1>4 DEF IInv

LEMMA TypeStep == ASSUME IInv, [Next]_vars PROVE TypeOK'
<1> USE DigestAssumption DEF IInv, TypeOK, Running, Stat, Versions
<1>1. ASSUME NEW f \in Files \cup {None}, PointPath(f) PROVE TypeOK'
  BY <1>1 DEF PointPath
<1>2. ASSUME NEW f \in Files, WriteFile(f) PROVE TypeOK'
  BY <1>2 DEF WriteFile
<1>3. ASSUME NEW t \in Threads, Open(t) PROVE TypeOK'
  BY <1>3 DEF Open, StatOf
<1>4. ASSUME NEW t \in Threads, TakeCached(t) PROVE TypeOK'
  <2>1. cache.artifact \in Digests
    BY <1>4 DEF TakeCached, Hit, Cached
  <2> QED  BY <1>4, <2>1 DEF TakeCached, Goto
<1>5. ASSUME NEW t \in Threads, StartHash(t) PROVE TypeOK'
  BY <1>5 DEF StartHash, Goto
<1>6. ASSUME NEW t \in Threads, FinishHash(t) PROVE TypeOK'
  <2>1. <<before[t][1], head[t], version[before[t][1]]>> \in Digests
    BY DEF Digests
  <2> QED  BY <1>6, <2>1 DEF FinishHash, Goto
<1>7. ASSUME NEW t \in Threads, Confirm(t) PROVE TypeOK'
  BY <1>7 DEF Confirm, Goto
<1>8. ASSUME NEW t \in Threads, CheckPath(t) PROVE TypeOK'
  BY <1>8 DEF CheckPath, Goto
<1>9. ASSUME NEW t \in Threads, Return(t) PROVE TypeOK'
  BY <1>9 DEF Return, Goto, Cached
<1>10. CASE UNCHANGED vars
  BY <1>10 DEF vars
<1> QED
  BY <1>1, <1>2, <1>3, <1>4, <1>5, <1>6, <1>7, <1>8, <1>9, <1>10 DEF Next

LEMMA Squeeze ==
  ASSUME NEW b \in Nat, NEW h \in Nat, NEW v \in Nat, b <= h, h <= v
  PROVE  (h = b /\ v = b) \/ b < v
OBVIOUS

LEMMA CallStep == ASSUME IInv, [Next]_vars PROVE CallInv'
<1> USE DigestAssumption DEF IInv, TypeOK, CallInv, Running, Stat, Versions
<1>1. ASSUME NEW f \in Files \cup {None}, PointPath(f) PROVE CallInv'
  BY <1>1 DEF PointPath
<1>2. ASSUME NEW f \in Files, WriteFile(f) PROVE CallInv'
  BY <1>2 DEF WriteFile
<1>3. ASSUME NEW t \in Threads, Open(t) PROVE CallInv'
  BY <1>3 DEF Open, StatOf
<1>4. ASSUME NEW t \in Threads, TakeCached(t) PROVE CallInv'
  BY <1>4 DEF TakeCached, Hit, Goto, CacheInv
<1>5. ASSUME NEW t \in Threads, StartHash(t) PROVE CallInv'
  BY <1>5 DEF StartHash, Goto
(* If the file is still at the first version, so it was at both readings.  *)
<1>6. ASSUME NEW t \in Threads, FinishHash(t) PROVE CallInv'
  <2>1. /\ before[t][2] \in Nat /\ head[t] \in Nat /\ version[before[t][1]] \in Nat
        /\ before[t][2] <= head[t] /\ head[t] <= version[before[t][1]]
    BY <1>6 DEF FinishHash, Goto
  <2>2. \/ head[t] = before[t][2] /\ version[before[t][1]] = before[t][2]
        \/ before[t][2] < version[before[t][1]]
    BY <2>1, Squeeze
  <2>3. artifact'[t] = <<before[t][1], head[t], version[before[t][1]]>>
    BY <1>6 DEF FinishHash
  <2>4. artifact'[t] = Whole(before[t]) \/ before[t][2] < version[before[t][1]]
    BY <2>2, <2>3 DEF Whole
  <2> QED  BY <1>6, <2>4 DEF FinishHash, Goto
<1>7. ASSUME NEW t \in Threads, Confirm(t) PROVE CallInv'
  BY <1>7 DEF Confirm, Goto, StatOf
<1>8. ASSUME NEW t \in Threads, CheckPath(t) PROVE CallInv'
  BY <1>8 DEF CheckPath, Goto
<1>9. ASSUME NEW t \in Threads, Return(t) PROVE CallInv'
  BY <1>9 DEF Return, Goto
<1>10. CASE UNCHANGED vars
  BY <1>10 DEF vars
<1> QED
  BY <1>1, <1>2, <1>3, <1>4, <1>5, <1>6, <1>7, <1>8, <1>9, <1>10 DEF Next

(* Only Return writes the cache, and what it stores was confirmed.         *)
LEMMA CacheStep == ASSUME IInv, [Next]_vars PROVE CacheInv'
<1>1. ASSUME NEW t \in Threads, Return(t) PROVE CacheInv'
  BY <1>1 DEF IInv, CallInv, Return, Goto, CacheInv
<1>2. CASE UNCHANGED cache
  BY <1>2 DEF IInv, CacheInv
<1> QED
  BY <1>1, <1>2 DEF Next, vars, PointPath, WriteFile, Open, TakeCached, StartHash, FinishHash,
                    Confirm, CheckPath

LEMMA Invariance == Spec => []IInv
<1>1. IInv /\ [Next]_vars => IInv'
  BY TypeStep, CallStep, CacheStep DEF IInv
<1> QED  BY <1>1, InvInit, PTL DEF Spec

--------------------------------------------------------------------------------
(* Every variable keeps its type.                                          *)
THEOREM TypeCorrect == Spec => []TypeOK
<1>1. IInv => TypeOK
  BY DEF IInv
<1> QED  BY <1>1, Invariance, PTL

(* artifact_digest and its cache never pair a digest with an identity it   *)
(* is not of, whatever threads do and files become.                        *)
THEOREM DigestIsTrue == Spec => []DigestTrue
<1>1. IInv => DigestTrue
  BY DEF IInv, CallInv, CacheInv, DigestTrue
<1> QED  BY <1>1, Invariance, PTL
===============================================================================
