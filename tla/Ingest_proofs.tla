----------------------------- MODULE Ingest_proofs -----------------------------
(***************************************************************************)
(* Proofs about Ingest, for any paths, files and versions, and any number  *)
(* of changes to the sources.                                              *)
(***************************************************************************)
EXTENDS Ingest, FiniteSetTheorems, SequenceTheorems, TLAPS

--------------------------------------------------------------------------------
(* The order of an import.                                                 *)

(* A catalog lists every version that there is, some perhaps twice.        *)
LEMMA CatalogOrder ==
  ASSUME NEW S, NEW s \in Catalogs(S)
  PROVE  /\ s \in Seq(S) /\ Len(s) \in Nat /\ Len(s) <= MaxListed
         /\ \A x \in S : \E i \in 1..Len(s) : s[i] = x
<1>1. PICK m \in 0..MaxListed : s \in [1..m -> S]
  BY DEF Catalogs, BoundedSeq, SeqOf
<1>2. s \in Seq(S) /\ Len(s) = m /\ DOMAIN s = 1..m
  BY <1>1, IngestAssumption
<1>3. {s[i] : i \in DOMAIN s} = S
  BY DEF Catalogs, Range
<1> QED  BY <1>1, <1>2, <1>3, IngestAssumption

(* The natural numbers are well-founded.                                   *)
LEMMA Least == ASSUME NEW S \in SUBSET Nat, S # {} PROVE \E x \in S : \A y \in S : x <= y
<1> DEFINE Less == {pair \in Nat \X Nat : pair[1] < pair[2]}
<1>1. IsWellFoundedOn(Less, Nat)
  BY NatLessThanWellFounded DEF OpToRel
<1>2. PICK x \in S : \A y \in S : <<y, x>> \notin Less
  <2> HIDE DEF Less
  <2> QED  BY <1>1, WFMin
<1>3. ASSUME NEW y \in S PROVE x <= y
  <2>1. <<y, x>> \in Nat \X Nat /\ ~(y < x)
    BY <1>2
  <2> QED  BY <2>1
<1> QED  BY <1>3

(* Every package is imported, itself or an equal record after it.          *)
LEMMA LastIsImported ==
  ASSUME packages \in Seq(Package), NEW j \in DOMAIN packages
  PROVE  \E p \in Imported : RecordId(p) = RecordId(packages[j])
<1> DEFINE equal == {i \in DOMAIN packages : RecordId(packages[i]) = RecordId(packages[j])}
           after == {Len(packages) - i : i \in equal}
<1>1. DOMAIN packages = 1..Len(packages) /\ Len(packages) \in Nat
  OBVIOUS
<1>2. after \in SUBSET Nat /\ after # {}
  <2>1. \A i \in equal : Len(packages) - i \in Nat
    BY <1>1
  <2> QED  BY <2>1
<1>3. PICK d \in after : \A e \in after : d <= e
  <2> HIDE DEF after
  <2> QED  BY <1>2, Least
<1>4. PICK i \in equal : d = Len(packages) - i
  OBVIOUS
<1>5. \A k \in equal : k <= i
  <2> SUFFICES ASSUME NEW k \in equal PROVE k <= i
    OBVIOUS
  <2>1. Len(packages) - i <= Len(packages) - k
    BY <1>3, <1>4
  <2> QED  BY <1>1, <2>1
<1>6. packages[i] \in Imported
  BY <1>5 DEF Imported
<1> QED  BY <1>6

LEMMA Appended ==
  ASSUME packages \in Seq(Package), NEW fresh \in Package, packages' = Append(packages, fresh)
  PROVE  /\ packages' \in Seq(Package)
         /\ \A i \in DOMAIN packages' :
              packages'[i] = fresh \/ (i \in DOMAIN packages /\ packages'[i] = packages[i])
         /\ \A i \in DOMAIN packages : i \in DOMAIN packages' /\ packages'[i] = packages[i]
         /\ \E i \in DOMAIN packages' : packages'[i] = fresh
<1>1. /\ packages' \in Seq(Package) /\ Len(packages') = Len(packages) + 1
      /\ \A i \in 1..Len(packages) : packages'[i] = packages[i]
      /\ packages'[Len(packages) + 1] = fresh
  BY AppendProperties
<1>2. /\ DOMAIN packages = 1..Len(packages) /\ Len(packages) \in Nat
      /\ DOMAIN packages' = 1..(Len(packages) + 1)
  BY <1>1
<1> QED  BY <1>1, <1>2

--------------------------------------------------------------------------------
(* The invariant.                                                          *)

(* Where the process is, by what it reads and why.                         *)
LocalInv ==
  /\ pc \in {"lstat", "root", "reading"} => input \in Paths
  /\ pc \in {"status", "catalog"} => IF old = None THEN input = Registry ELSE input \in Versions
  /\ pc = "version" => input \in Versions
  /\ pc = "lstat" => old # None
  /\ pc = "catalog" => old = None
  /\ pc = "verified" => old # None
  /\ pc \in Resting \/ old # None => todo = <<>>
  /\ old # None => input = old.locator /\ pc \notin {"next", "imported"}
  /\ pc # "reading" => contents = Unread

(* The inputs that are still to be read, the present one included.         *)
Pending ==
  {todo[i] : i \in DOMAIN todo} \cup
  IF old = None /\ pc \in {"root", "reading", "status", "catalog", "version"} THEN {input} ELSE {}

(* Every path and listed version is pending, in error, or a package; the   *)
(* registry is read once, before any version, unless it is in error.       *)
AccountInv ==
  /\ \A i \in Paths \cup Listed :
       i \in Pending \cup errors \/ \E j \in DOMAIN packages : packages[j].locator = i
  /\ listed = None => Registry \in Pending \cup errors
  /\ \A i \in Versions :
       i \in Pending \/ (\E j \in DOMAIN packages : packages[j].locator = i) =>
         i \in Listed /\ Registry \notin Pending
  /\ \A i, j \in DOMAIN todo : todo[i] = Registry /\ todo[j] = Registry => i = j
  /\ old = None /\ pc \in {"status", "catalog"} => \A i \in DOMAIN todo : todo[i] # Registry

(* What verify has found was so at some time since it began, and what it   *)
(* returns follows from that.                                              *)
Founded ==
  LET present == seen \ {None, Bad}
  IN  IF old.locator \in Paths
        THEN /\ verdict = "matched_metadata" => \A f \in Files : old.digest[f] \in Findable(f)
             /\ verdict = "drift" =>
                  \E f \in Files : \E x \in Findable(f) : x # old.digest[f]
        ELSE /\ verdict = "matched_metadata" => old.digest \in present
             /\ verdict = "drift" => \E s \in present : s # old.digest /\ ~s.inactive
             /\ verdict = "lifecycle_blocked" => \E s \in present : s.inactive

Deserved == \A source : seen = {source} => verdict \in {VerdictOn(source), "unavailable"}

WitnessInv ==
  old # None =>
    /\ IsFiniteSet(seen)
    /\ Source(input) \in seen
    /\ pc \in {"root", "reading"} => \E s \in seen : s # None
    /\ pc \notin {"reading", "verified"} => skipped = {}
    /\ pc = "reading" =>
         \A f \in Files : IF contents[f] = None THEN f \notin skipped ELSE contents[f] \in Findable(f)
    /\ pc = "verified" => Founded /\ Deserved

IInv == TypeOK /\ LocalInv /\ AccountInv /\ DigestedIsValid /\ WitnessInv

LEMMA InvInit == Init => IInv
<1> SUFFICES ASSUME Init PROVE IInv
  OBVIOUS
<1>1. /\ todo \in Seq(Paths \cup {Registry}) /\ {todo[i] : i \in DOMAIN todo} = Paths \cup {Registry}
      /\ \A i, j \in DOMAIN todo : todo[i] = Registry /\ todo[j] = Registry => i = j
  BY IngestAssumption DEF Init, Range
<1>2. todo \in Seq(Inputs)
  BY <1>1 DEF Inputs
<1>3. TypeOK
  <2>1. tree \in [Paths -> Trees \cup {None}] /\ item \in [Versions -> Items \cup {Bad, None}]
    BY IngestAssumption DEF Init, Items
  <2>2. contents \in [Files -> Texts \cup {Bad, Absent, None}]
    BY DEF Init, Unread
  <2>3. packages \in Seq(Package) /\ changes \in 0..MaxChanges
    BY IngestAssumption DEF Init
  <2> QED  BY <1>2, <2>1, <2>2, <2>3 DEF Init, TypeOK
<1>4. LocalInv /\ DigestedIsValid /\ WitnessInv
  BY DEF Init, LocalInv, DigestedIsValid, WitnessInv, Resting
<1>5. AccountInv
  <2>1. Pending = Paths \cup {Registry} /\ DOMAIN packages = {} /\ Listed = {} /\ pc = "next"
    <3>1. old = None /\ pc = "next" /\ packages = <<>> /\ listed = None
      BY DEF Init
    <3>2. DOMAIN packages = {} /\ Listed = {}
      BY <3>1 DEF Listed
    <3>3. Pending = {todo[i] : i \in DOMAIN todo}
      BY <3>1 DEF Pending
    <3> QED  BY <1>1, <3>1, <3>2, <3>3
  <2> QED  BY <1>1, <2>1, IngestAssumption DEF AccountInv
<1> QED  BY <1>3, <1>4, <1>5 DEF IInv

(* A change to the sources leaves the process as it is.                    *)
Change == \/ \E p \in Paths : RemoveOrRestore(p) \/ \E f \in Files : Edit(p, f)
          \/ \E v \in Versions : Republish(v)

LEMMA ChangeStep ==
  ASSUME TypeOK, Change
  PROVE  /\ tree' \in [Paths -> Trees \cup {None}] /\ item' \in [Versions -> Items \cup {Bad, None}]
         /\ healthy' \in BOOLEAN /\ changes' \in 0..MaxChanges
         /\ UNCHANGED <<pc, input, contents, slash, todo, packages, errors, listed, old, verdict, skipped>>
         /\ seen' = IF old # None THEN seen \cup {Source(input)'} ELSE seen
<1> USE DEF TypeOK
<1> DEFINE Typed == /\ tree' \in [Paths -> Trees \cup {None}]
                    /\ item' \in [Versions -> Items \cup {Bad, None}]
                    /\ healthy' \in BOOLEAN
<1>1. changes' \in 0..MaxChanges
  BY IngestAssumption DEF Change, RemoveOrRestore, Edit, Republish, Watch
<1>2. /\ UNCHANGED <<pc, input, contents, slash, todo, packages, errors, listed, old, verdict, skipped>>
      /\ seen' = IF old # None THEN seen \cup {Source(input)'} ELSE seen
  BY DEF Change, RemoveOrRestore, Edit, Republish, Watch, import
<1>3. Typed
  <2>1. ASSUME NEW p \in Paths, RemoveOrRestore(p) PROVE Typed
    BY <2>1, IngestAssumption DEF RemoveOrRestore
  <2>2. ASSUME NEW p \in Paths, NEW f \in Files, Edit(p, f) PROVE Typed
    <3>1. PICK x \in Texts \cup {Bad, Absent} : tree' = [tree EXCEPT ![p][f] = x]
      BY <2>2 DEF Edit
    <3>2. tree[p] \in Trees
      BY <2>2 DEF Edit
    <3>3. [tree[p] EXCEPT ![f] = x] \in Trees
      BY <3>2 DEF Trees
    <3>4. tree' = [tree EXCEPT ![p] = [tree[p] EXCEPT ![f] = x]]
      BY <3>1
    <3> QED  BY <2>2, <3>3, <3>4 DEF Edit
  <2>3. ASSUME NEW v \in Versions, Republish(v) PROVE Typed
    BY <2>3 DEF Republish
  <2> QED  BY <2>1, <2>2, <2>3 DEF Change
<1> QED  BY <1>1, <1>2, <1>3

(* A package that was read is one, and so is the source that it is of.     *)
LEMMA GainStep ==
  ASSUME TypeOK, NEW fresh \in Package, Gain(fresh), UNCHANGED <<sources, input>>, slash' \in BOOLEAN,
         contents' \in [Files -> Texts \cup {Bad, Absent, None}]
  PROVE  TypeOK'
<1>1. packages' \in Seq(Package)
  <2>1. packages' = Append(packages, fresh) \/ packages' = packages
    BY DEF Gain, import
  <2> QED  BY <2>1, Appended DEF TypeOK
<1> QED  BY <1>1 DEF Gain, TypeOK, Verdict, import, check, sources, Resting

LEMMA LoseStep ==
  ASSUME TypeOK, NEW status \in {"unavailable", "invalid"}, input \in Inputs, Lose(status),
         UNCHANGED <<sources, input>>, slash' \in BOOLEAN, contents' \in [Files -> Texts \cup {Bad, Absent, None}]
  PROVE  TypeOK'
  BY DEF Lose, TypeOK, import, check, sources, Resting

LEMMA TypeStep == ASSUME IInv, [Next]_vars PROVE TypeOK'
<1> USE DEF IInv
<1>1. Unread \in [Files -> Texts \cup {Bad, Absent, None}]
  BY DEF Unread
<1>2. input \in Paths \cup Versions \cup {Registry} => input \in Inputs
  BY DEF Inputs
<1>3. CASE Change
  BY <1>3, ChangeStep DEF TypeOK
<1>4. CASE TakeInput
  <2>1. todo \in Seq(Inputs) /\ input \in Inputs \cup {None}
    BY DEF TypeOK
  <2>2. todo' \in Seq(Inputs) /\ input' \in Inputs \cup {None}
    BY <1>4, <2>1 DEF TakeInput
  <2>3. pc' \in {"imported", "root", "status", "version"}
    BY <1>4 DEF TakeInput
  <2> QED  BY <1>4, <2>2, <2>3 DEF TakeInput, TypeOK, sources, check, Resting
<1>5. ASSUME NEW p \in Imported, Verify(p) PROVE TypeOK'
  <2>1. p \in Package /\ p.locator \in Inputs
    BY DEF Imported, TypeOK, Package, Inputs
  <2> QED  BY <1>5, <2>1 DEF Verify, StartOf, TypeOK, sources, import
<1>6. CASE Lstat
  BY <1>2, <1>6, LoseStep DEF Lstat, Unavailable, LocalInv, TypeOK, import, check, sources
<1>7. CASE OpenTree
  BY <1>2, <1>7, LoseStep DEF OpenTree, Invalid, LocalInv, TypeOK, import, check, sources
<1>8. ASSUME NEW f \in Files, ReadFile(f) PROVE TypeOK'
  <2>1. Look(tree[input]) \in Trees
    BY <1>8 DEF ReadFile, LocalInv, TypeOK, Look, Nothing, Trees
  <2>2. contents' \in [Files -> Texts \cup {Bad, Absent, None}]
    BY <1>8, <2>1 DEF ReadFile, TypeOK, Trees
  <2> QED  BY <1>8, <2>2 DEF ReadFile, TypeOK, import, check, sources
<1>9. CASE FailToRead
  BY <1>1, <1>2, <1>9, LoseStep DEF FailToRead, Unavailable, LocalInv, TypeOK
<1>10. CASE FinishTree
  <2>1. contents \in Trees
    BY <1>10 DEF FinishTree, TypeOK, Trees
  <2>2. input \in Paths /\ input \in Inputs
    BY <1>2, <1>10 DEF FinishTree, LocalInv
  <2>3. [locator |-> input, digest |-> contents] \in Package
    BY <2>1, <2>2 DEF Package
  <2> QED  BY <1>1, <1>10, <2>2, <2>3, GainStep, LoseStep DEF FinishTree, Invalid, TypeOK
<1>11. CASE Redirect
  BY <1>11 DEF Redirect, TypeOK, import, check, sources
<1>12. CASE FailToFetch
  BY <1>2, <1>12, LoseStep DEF FailToFetch, Fetching, Unavailable, LocalInv, TypeOK
<1>13. CASE AnswerStatus
  <2>1. input \in Inputs
    BY <1>2, <1>13 DEF AnswerStatus, LocalInv
  <2> QED  BY <1>13, <2>1, LoseStep DEF AnswerStatus, Invalid, TypeOK, import, check, sources
<1>14. CASE AnswerCatalog
  <2>1. input \in Inputs
    BY <1>2, <1>14 DEF AnswerCatalog, LocalInv
  <2>2. CASE healthy
    <3>1. listed' \subseteq Versions
      BY <1>14, <2>2 DEF AnswerCatalog
    <3>2. PICK s \in Catalogs(listed') : todo' = s \o todo
      BY <1>14, <2>2 DEF AnswerCatalog
    <3>3. s \in Seq(listed')
      BY CatalogOrder
    <3>4. s \in Seq(Inputs)
      BY <3>1, <3>3 DEF Inputs
    <3>5. todo' \in Seq(Inputs)
      BY <3>2, <3>4, ConcatProperties DEF TypeOK
    <3> QED  BY <1>14, <2>2, <3>1, <3>5 DEF AnswerCatalog, TypeOK, check, sources
  <2>3. CASE ~healthy
    BY <1>14, <2>1, <2>3, LoseStep DEF AnswerCatalog, Invalid, TypeOK
  <2> QED  BY <2>2, <2>3 DEF TypeOK
<1>15. CASE AnswerVersion
  <2>1. input \in Versions /\ input \in Inputs /\ input \notin Paths
    BY <1>2, <1>15, IngestAssumption DEF AnswerVersion, LocalInv
  <2>2. Source(input) \in Items \cup {Bad, None}
    BY <2>1 DEF Source, TypeOK
  <2>3. Source(input) \in Items => [locator |-> input, digest |-> Source(input)] \in Package
    BY <2>1 DEF Package
  <2> QED  BY <1>15, <2>1, <2>2, <2>3, GainStep, LoseStep
           DEF AnswerVersion, Unavailable, Invalid, TypeOK
<1>16. CASE UNCHANGED vars
  BY <1>16 DEF vars, TypeOK, sources, import, check
<1>17. ASSUME NEW d \in Subdirectories, SkipDirectory(d) PROVE TypeOK'
  <2>1. contents' \in [Files -> Texts \cup {Bad, Absent, None}]
    BY <1>17 DEF SkipDirectory, TypeOK
  <2>2. skipped' \subseteq Files
    BY <1>17, IngestAssumption DEF SkipDirectory, TypeOK
  <2> QED  BY <1>17, <2>1, <2>2 DEF SkipDirectory, TypeOK, import, sources
<1> QED
  BY <1>3, <1>4, <1>5, <1>6, <1>7, <1>8, <1>9, <1>10, <1>11, <1>12, <1>13, <1>14, <1>15, <1>16,
     <1>17 DEF Next, Program, Change

LEMMA LocalStep == ASSUME IInv, [Next]_vars PROVE LocalInv'
<1> USE DEF IInv, LocalInv, Resting
<1>1. CASE Change
  BY <1>1, ChangeStep DEF Unread
<1>2. CASE TakeInput
  <2>1. todo # <<>> => Head(todo) \in Inputs
    BY DEF TypeOK
  <2> QED  BY <1>2, <2>1 DEF TakeInput, check, Inputs
<1>3. ASSUME NEW p \in Imported, Verify(p) PROVE LocalInv'
  <2>1. p \in Package /\ p # None
    BY IngestAssumption DEF Imported, TypeOK
  <2>2. p.locator \in Paths \cup Versions
    BY <2>1 DEF Package
  <2> QED  BY <1>3, <2>1, <2>2 DEF Verify, StartOf, import
<1>4. CASE Lstat
  BY <1>4 DEF Lstat, Unavailable, Lose, import, check
<1>5. CASE OpenTree
  BY <1>5 DEF OpenTree, Invalid, Lose, import, check
<1>6. ASSUME NEW f \in Files, ReadFile(f) PROVE LocalInv'
  BY <1>6 DEF ReadFile, import, check
<1>7. CASE FailToRead
  BY <1>7 DEF FailToRead, Unavailable, Lose, Unread, import, check
<1>8. CASE FinishTree
  BY <1>8 DEF FinishTree, Invalid, Lose, Gain, Unread, import, check
<1>9. CASE Redirect
  BY <1>9 DEF Redirect, import, check
<1>10. CASE FailToFetch
  BY <1>10 DEF FailToFetch, Fetching, Unavailable, Lose, import, check
<1>11. CASE AnswerStatus
  BY <1>11 DEF AnswerStatus, Invalid, Lose, import, check
<1>12. CASE AnswerCatalog
  BY <1>12 DEF AnswerCatalog, Invalid, Lose, import, check
<1>13. CASE AnswerVersion
  BY <1>13 DEF AnswerVersion, Unavailable, Invalid, Lose, Gain, import, check
<1>14. CASE UNCHANGED vars
  BY <1>14 DEF vars, sources, import, check
<1>15. ASSUME NEW d \in Subdirectories, SkipDirectory(d) PROVE LocalInv'
  BY <1>15 DEF SkipDirectory, import
<1> QED
  BY <1>1, <1>2, <1>3, <1>4, <1>5, <1>6, <1>7, <1>8, <1>9, <1>10, <1>11, <1>12, <1>13, <1>14,
     <1>15 DEF Next, Program, Change

(* Only what passed validation becomes a package.                          *)
LEMMA DigestStep == ASSUME IInv, [Next]_vars PROVE DigestedIsValid'
<1> USE DEF IInv, DigestedIsValid
<1>1. CASE UNCHANGED packages
  BY <1>1
<1>2. CASE FinishTree
  <2>1. packages' = packages \/
          /\ Valid(contents)
          /\ packages' = Append(packages, [locator |-> input, digest |-> contents])
    BY <1>2 DEF FinishTree, Gain, Invalid, Lose, import, Validated
  <2>2. input \in Paths /\ contents \in Trees
    BY <1>2 DEF FinishTree, LocalInv, TypeOK, Trees
  <2>3. [locator |-> input, digest |-> contents] \in Package
    BY <2>2 DEF Package
  <2>4. packages' = packages \/
          /\ Valid(contents)
          /\ \A i \in DOMAIN packages' :
               \/ packages'[i].digest = contents
               \/ i \in DOMAIN packages /\ packages'[i] = packages[i]
    BY <2>1, <2>3, Appended DEF TypeOK
  <2> QED  BY <2>4
<1>3. CASE AnswerVersion
  <2>1. input \in Versions /\ input \notin Paths
    BY <1>3, IngestAssumption DEF AnswerVersion, LocalInv
  <2>2. \/ packages' = packages
        \/ /\ Source(input) \notin {Bad, None}
           /\ packages' = Append(packages, [locator |-> input, digest |-> Source(input)])
    BY <1>3 DEF AnswerVersion, Gain, Unavailable, Invalid, Lose, import
  <2>3. Source(input) \notin {Bad, None} => [locator |-> input, digest |-> Source(input)] \in Package
    BY <2>1 DEF Source, TypeOK, Package
  <2> QED  BY <2>1, <2>2, <2>3, Appended DEF TypeOK
<1>4. CASE Change
  BY <1>1, <1>4, ChangeStep
<1> QED
  BY <1>1, <1>2, <1>3, <1>4
     DEF Next, Program, Change, vars, import, TakeInput, Verify, Lstat, OpenTree, ReadFile,
         SkipDirectory, FailToRead, Redirect, FailToFetch, AnswerStatus, AnswerCatalog, Lose, Unavailable, Invalid

--------------------------------------------------------------------------------
(* Nothing is forgotten.                                                   *)

Taken(i) == \E j \in DOMAIN packages : packages[j].locator = i

(* An input that ends, with a package or an error, is accounted for.       *)
LEMMA EndStep ==
  ASSUME IInv, old = None, pc \in {"root", "reading", "status", "catalog", "version"},
         pc' = "next", UNCHANGED <<old, todo, input, listed>>, TypeOK',
         \/ errors' = errors \cup {input} /\ packages' = packages
         \/ /\ errors' = errors /\ input # Registry
            /\ \E fresh \in Package : fresh.locator = input /\ packages' = Append(packages, fresh)
  PROVE  AccountInv'
<1> USE DEF IInv
<1>1. Pending = {todo[i] : i \in DOMAIN todo} \cup {input} /\ Pending' = {todo[i] : i \in DOMAIN todo}
  BY DEF Pending
<1>2. /\ \A i : Taken(i) => Taken(i)'
      /\ \A i : Taken(i)' => Taken(i) \/ (i = input /\ input # Registry)
      /\ errors \subseteq errors' /\ (input \in errors' \/ Taken(input)')
  <2>1. CASE errors' = errors \cup {input} /\ packages' = packages
    BY <2>1 DEF Taken
  <2>2. CASE /\ errors' = errors /\ input # Registry
             /\ \E fresh \in Package : fresh.locator = input /\ packages' = Append(packages, fresh)
    <3>1. PICK fresh \in Package : fresh.locator = input /\ packages' = Append(packages, fresh)
      BY <2>2
    <3> QED  BY <2>2, <3>1, Appended DEF Taken, TypeOK
  <2> QED  BY <2>1, <2>2
<1>3. \A i \in Paths \cup Listed : i \in Pending \cup errors \/ Taken(i)
  BY DEF AccountInv, Taken, Listed
<1>4. \A i \in Versions : i \in Pending \/ Taken(i) => i \in Listed /\ Registry \notin Pending
  BY DEF AccountInv, Taken, Listed
<1>5. \A i \in Paths \cup Listed : i \in Pending' \cup errors' \/ Taken(i)'
  BY <1>1, <1>2, <1>3
<1>6. \A i \in Versions : i \in Pending' \/ Taken(i)' => i \in Listed /\ Registry \notin Pending'
  BY <1>1, <1>2, <1>4
<1>7. listed = None => Registry \in Pending' \cup errors'
  <2>1. input = Registry => input \in errors'
    OBVIOUS
  <2> QED  BY <1>1, <1>2, <2>1 DEF AccountInv
<1>8. Listed' = Listed
  BY DEF Listed
<1> QED  BY <1>5, <1>6, <1>7, <1>8 DEF AccountInv, Taken

LEMMA AccountStep == ASSUME IInv, [Next]_vars PROVE AccountInv'
<1> USE DEF IInv
<1> USE TypeStep
<1>1. CASE UNCHANGED <<todo, packages, errors, listed, old>> /\ Pending' = Pending
           /\ (pc' \in {"status", "catalog"} /\ old = None => pc \in {"status", "catalog"})
  BY <1>1 DEF AccountInv, Listed
<1>2. CASE TakeInput
  <2>1. CASE todo = <<>>
    BY <1>1, <1>2, <2>1 DEF TakeInput, check, Pending
  <2>2. CASE todo # <<>>
    <3>1. /\ input' = Head(todo) /\ todo' = Tail(todo) /\ pc = "next" /\ old = None
          /\ pc' \in {"root", "status", "version"} /\ (pc' = "status" => input' = Registry)
          /\ UNCHANGED <<packages, errors, listed, old>>
      BY <1>2, <2>2 DEF TakeInput, check, LocalInv
    <3>2. /\ DOMAIN todo = 1..Len(todo) /\ Len(todo) \in Nat \ {0} /\ input' = todo[1]
          /\ DOMAIN todo' = 1..(Len(todo) - 1)
          /\ \A i \in 1..(Len(todo) - 1) : todo'[i] = todo[i + 1]
      BY <2>2, <3>1 DEF TypeOK
    <3>3. Pending' = Pending
      <4>1. Pending = {todo[i] : i \in DOMAIN todo}
        BY <3>1 DEF Pending
      <4>2. Pending' = {todo'[i] : i \in DOMAIN todo'} \cup {input'}
        BY <3>1 DEF Pending
      <4>3. ASSUME NEW i \in DOMAIN todo PROVE todo[i] \in Pending'
        <5>1. CASE i = 1
          BY <3>2, <4>2, <5>1
        <5>2. CASE i # 1
          <6>1. i - 1 \in 1..(Len(todo) - 1) /\ (i - 1) + 1 = i
            BY <3>2, <5>2
          <6> QED  BY <3>2, <4>2, <6>1
        <5> QED  BY <5>1, <5>2
      <4>4. ASSUME NEW i \in DOMAIN todo' PROVE todo'[i] \in Pending
        <5>1. i + 1 \in DOMAIN todo
          BY <3>2
        <5> QED  BY <3>2, <4>1, <5>1
      <4>5. input' \in Pending
        <5>1. 1 \in DOMAIN todo
          BY <3>2
        <5> QED  BY <3>2, <4>1, <5>1
      <4> QED  BY <4>1, <4>2, <4>3, <4>4, <4>5
    <3>4. \A i, j \in DOMAIN todo' : todo'[i] = Registry /\ todo'[j] = Registry => i = j
      <4> SUFFICES ASSUME NEW i \in DOMAIN todo', NEW j \in DOMAIN todo',
                          todo'[i] = Registry, todo'[j] = Registry
                   PROVE  i = j
        OBVIOUS
      <4>1. i + 1 \in DOMAIN todo /\ j + 1 \in DOMAIN todo
        BY <3>2
      <4>2. i + 1 = j + 1
        BY <3>2, <4>1 DEF AccountInv
      <4> QED  BY <3>2, <4>2
    <3>5. pc' = "status" => \A i \in DOMAIN todo' : todo'[i] # Registry
      <4> SUFFICES ASSUME pc' = "status", NEW i \in DOMAIN todo', todo'[i] = Registry PROVE FALSE
        OBVIOUS
      <4>1. i + 1 \in DOMAIN todo /\ 1 \in DOMAIN todo /\ todo[1] = Registry /\ todo[i + 1] = Registry
        BY <3>1, <3>2
      <4>2. i + 1 = 1
        BY <4>1 DEF AccountInv
      <4> QED  BY <3>2, <4>2
    <3> QED  BY <3>1, <3>3, <3>4, <3>5 DEF AccountInv, Listed
  <2> QED  BY <2>1, <2>2
<1>3. ASSUME NEW p \in Imported, Verify(p) PROVE AccountInv'
  <2>1. /\ UNCHANGED <<todo, packages, errors, listed>> /\ pc \in Resting /\ old' = p /\ todo = <<>>
    BY <1>3 DEF Verify, import, LocalInv
  <2>2. p # None
    BY IngestAssumption DEF Imported, TypeOK
  <2>3. Pending = {} /\ Pending' = {}
    BY <2>1, <2>2 DEF Pending, Resting
  <2> QED  BY <2>1, <2>2, <2>3 DEF AccountInv, Listed
<1>4. CASE old # None /\ UNCHANGED <<old, import>>
  BY <1>1, <1>4 DEF Pending, import
<1>5. CASE Change
  BY <1>1, <1>5, ChangeStep DEF Pending
<1>6. ASSUME old = None, pc \in {"root", "reading", "status", "catalog", "version"},
             \E status : Lose(status), UNCHANGED input
      PROVE  AccountInv'
  BY <1>6, EndStep DEF Lose, check
<1>7. CASE old = None /\ FinishTree
  <2>1. input \in Paths /\ contents \in Trees /\ input # Registry
    BY <1>7, IngestAssumption DEF FinishTree, LocalInv, TypeOK, Trees
  <2>2. [locator |-> input, digest |-> contents] \in Package
    BY <2>1 DEF Package
  <2>3. CASE Validated
    BY <1>7, <2>1, <2>2, <2>3, EndStep DEF FinishTree, Gain, check
  <2>4. CASE ~Validated
    BY <1>6, <1>7, <2>4 DEF FinishTree, Invalid
  <2> QED  BY <2>3, <2>4
<1>8. CASE old = None /\ AnswerVersion
  <2>1. input \in Versions /\ input \notin Paths /\ input # Registry
    BY <1>8, IngestAssumption DEF AnswerVersion, LocalInv
  <2>2. CASE Source(input) \in {Bad, None}
    BY <1>6, <1>8, <2>2 DEF AnswerVersion, Invalid, Unavailable
  <2>3. CASE Source(input) \notin {Bad, None}
    <3>1. [locator |-> input, digest |-> Source(input)] \in Package
      BY <2>1, <2>3 DEF Source, TypeOK, Package
    <3> QED  BY <1>8, <2>1, <2>3, <3>1, EndStep DEF AnswerVersion, Gain, check
  <2> QED  BY <2>2, <2>3
<1>9. CASE old = None /\ AnswerCatalog
  <2>1. CASE ~healthy
    BY <1>6, <1>9, <2>1 DEF AnswerCatalog, Invalid
  <2>2. CASE healthy
    <3>1. /\ listed' = {v \in Versions : item[v] # None} /\ pc = "catalog" /\ pc' = "next" /\ old' = old
          /\ UNCHANGED <<packages, errors>> /\ \E s \in Catalogs(listed') : todo' = s \o todo
      BY <1>9, <2>2 DEF AnswerCatalog, check
    <3>2. PICK s \in Catalogs(listed') : todo' = s \o todo
      BY <3>1
    <3>3. /\ s \in Seq(listed') /\ \A v \in listed' : \E i \in 1..Len(s) : s[i] = v
          /\ listed' \subseteq Versions
      <4>1. listed' \subseteq Versions
        BY <3>1
      <4>2. s \in Seq(listed') /\ \A v \in listed' : \E i \in 1..Len(s) : s[i] = v
        BY <3>2, CatalogOrder
      <4> QED  BY <4>1, <4>2
    <3>0. Listed' = listed' /\ listed' # None
      BY <3>3, IngestAssumption DEF Listed
    <3>4. /\ DOMAIN s = 1..Len(s) /\ Len(s) \in Nat
          /\ DOMAIN todo = 1..Len(todo) /\ Len(todo) \in Nat
          /\ DOMAIN todo' = 1..(Len(s) + Len(todo))
          /\ \A i \in 1..Len(s) : todo'[i] = s[i]
          /\ \A i \in (Len(s) + 1)..(Len(s) + Len(todo)) : todo'[i] = todo[i - Len(s)]
      BY <3>2, <3>3 DEF TypeOK
    <3>5. /\ input = Registry /\ Registry \in Pending /\ \A i \in DOMAIN todo : todo[i] # Registry
          /\ Pending = {todo[i] : i \in DOMAIN todo} \cup {Registry}
      BY <1>9, <3>1 DEF LocalInv, Pending, AccountInv
    <3>6. \A i \in Versions : i \notin Pending /\ ~Taken(i)
      BY <3>5 DEF AccountInv, Taken, Listed
    <3>7. Pending' = listed' \cup {todo[i] : i \in DOMAIN todo}
      <4>1. Pending' = {todo'[i] : i \in DOMAIN todo'}
        BY <3>1 DEF Pending
      <4>2. ASSUME NEW i \in DOMAIN todo'
            PROVE  todo'[i] \in listed' \/ (i - Len(s) \in DOMAIN todo /\ todo'[i] = todo[i - Len(s)])
        <5>1. i \in 1..Len(s) \/ i \in (Len(s) + 1)..(Len(s) + Len(todo))
          BY <3>4
        <5>2. ASSUME i \in 1..Len(s) PROVE todo'[i] \in listed'
          BY <3>3, <3>4, <5>2
        <5>3. ASSUME i \in (Len(s) + 1)..(Len(s) + Len(todo))
              PROVE  i - Len(s) \in DOMAIN todo /\ todo'[i] = todo[i - Len(s)]
          BY <3>4, <5>3
        <5> QED  BY <5>1, <5>2, <5>3
      <4>3. ASSUME NEW v \in listed' PROVE v \in Pending'
        BY <3>3, <3>4, <4>1
      <4>4. ASSUME NEW i \in DOMAIN todo PROVE todo[i] \in Pending'
        <5>1. i + Len(s) \in (Len(s) + 1)..(Len(s) + Len(todo)) /\ (i + Len(s)) - Len(s) = i
          BY <3>4
        <5> QED  BY <3>4, <4>1, <5>1
      <4> QED  BY <4>1, <4>2, <4>3, <4>4
    <3>8. Registry \notin Pending'
      BY <3>3, <3>5, <3>7, IngestAssumption
    <3>9. \A i \in DOMAIN todo' : todo'[i] # Registry
      BY <3>8 DEF Pending
    <3>10. \A i \in Paths : i \in Pending' \cup errors' \/ Taken(i)'
      BY <3>1, <3>5, <3>7, IngestAssumption DEF AccountInv, Taken, Listed
    <3>11. \A i \in Versions : i \in Pending' \/ Taken(i)' => i \in listed'
      BY <3>1, <3>5, <3>6, <3>7 DEF Taken, AccountInv
    <3> QED  BY <3>0, <3>7, <3>8, <3>9, <3>10, <3>11 DEF AccountInv, Taken
  <2> QED  BY <2>1, <2>2
<1>10. CASE old = None /\ AnswerStatus
  <2>1. CASE healthy
    <3>1. UNCHANGED <<todo, packages, errors, listed, old, input>> /\ pc = "status" /\ pc' = "catalog"
      BY <1>10, <2>1 DEF AnswerStatus, import, check
    <3> QED  BY <1>1, <1>10, <3>1 DEF Pending
  <2>2. CASE ~healthy
    BY <1>6, <1>10, <2>2 DEF AnswerStatus, Invalid
  <2> QED  BY <2>1, <2>2
<1>11. CASE old = None /\ FailToFetch
  BY <1>6, <1>11 DEF FailToFetch, Fetching, Unavailable
<1>12. CASE old = None /\ FailToRead
  BY <1>6, <1>12 DEF FailToRead, Unavailable
<1>13. CASE old = None /\ OpenTree
  <2>1. CASE tree[input] = None
    BY <1>6, <1>13, <2>1 DEF OpenTree, Invalid
  <2>2. CASE tree[input] # None
    <3>1. UNCHANGED <<todo, packages, errors, listed, old, input>> /\ pc = "root" /\ pc' = "reading"
      BY <1>13, <2>2 DEF OpenTree, import, check
    <3> QED  BY <1>1, <1>13, <3>1 DEF Pending
  <2> QED  BY <2>1, <2>2
<1>14. ASSUME NEW f \in Files, ReadFile(f) PROVE AccountInv'
  BY <1>1, <1>14 DEF ReadFile, import, check, Pending
<1>20. ASSUME NEW d \in Subdirectories, SkipDirectory(d) PROVE AccountInv'
  BY <1>1, <1>20 DEF SkipDirectory, import, Pending
<1>15. CASE Redirect
  BY <1>1, <1>15 DEF Redirect, import, check, Pending
<1>16. CASE UNCHANGED vars
  BY <1>1, <1>16 DEF vars, import, check, Pending
<1>17. CASE old # None /\ (Lstat \/ OpenTree \/ FailToRead \/ FinishTree)
  BY <1>4, <1>17 DEF Lstat, OpenTree, FailToRead, FinishTree, Unavailable, Invalid, Lose, Gain, check
<1>18. CASE old # None /\ (FailToFetch \/ AnswerStatus \/ AnswerVersion)
  BY <1>4, <1>18
     DEF FailToFetch, AnswerStatus, AnswerVersion, Unavailable, Invalid, Lose, Gain, check
<1>19. (Lstat => old # None) /\ (AnswerCatalog => old = None)
  BY DEF Lstat, AnswerCatalog, LocalInv
<1> QED
  BY <1>2, <1>3, <1>5, <1>7, <1>8, <1>9, <1>10, <1>11, <1>12, <1>13, <1>14, <1>15, <1>16, <1>17,
     <1>18, <1>19, <1>20 DEF Next, Program, Change

--------------------------------------------------------------------------------
(* What verify returns is founded.                                         *)

(* The verdict on what was read.                                           *)
LEMMA FreshServes ==
  ASSUME IInv, old # None, NEW fresh \in Package, fresh.locator = old.locator, Gain(fresh),
         UNCHANGED <<sources, input>>,
         fresh.locator \in Paths =>
           /\ Valid(fresh.digest)
           /\ \A f \in Files : fresh.digest[f] \in Findable(f)
           /\ \A source : seen = {source} => source # None /\ Without(source) = fresh.digest,
         fresh.locator \in Versions => fresh.digest \in seen
  PROVE  WitnessInv'
<1> USE DEF IInv
<1>1. /\ verdict' = Verdict(fresh) /\ pc' = "verified" /\ UNCHANGED <<old, seen, skipped>>
      /\ Source(input)' = Source(input)
  BY DEF Gain, sources, Source
<1>2. IsFiniteSet(seen) /\ Source(input) \in seen
  BY DEF WitnessInv
<1>3. \A x \in Trees \cup Items : x # None /\ x # Bad
  BY IngestAssumption
<1>4. old \in Package
  BY DEF TypeOK
<1>5. \A f : Findable(f)' = Findable(f)
  BY <1>1 DEF Findable
<1>6. Founded'
  <2>1. CASE old.locator \in Paths
    <3>1. /\ old.locator \notin Versions /\ old.digest \in Trees /\ fresh.digest \in Trees
          /\ fresh.locator \notin Versions
      BY <1>4, <2>1, IngestAssumption DEF Package
    <3>2. verdict' = IF fresh.digest # old.digest THEN "drift" ELSE "matched_metadata"
      BY <1>1, <3>1 DEF Verdict
    <3>3. CASE fresh.digest # old.digest
      <4>1. PICK f \in Files : fresh.digest[f] # old.digest[f]
        BY <3>1, <3>3 DEF Trees
      <4>2. fresh.digest[f] \in Findable(f)
        BY <2>1, <4>1
      <4> QED  BY <1>1, <1>5, <2>1, <3>2, <3>3, <4>1, <4>2 DEF Founded
    <3>4. CASE fresh.digest = old.digest
      BY <1>1, <1>5, <2>1, <3>2, <3>4 DEF Founded
    <3> QED  BY <3>3, <3>4
  <2>2. CASE old.locator \notin Paths
    <3>1. old.locator \in Versions /\ fresh.digest \in Items /\ fresh.digest \in seen
      BY <1>4, <2>2, IngestAssumption DEF Package
    <3>2. fresh.digest \in seen \ {None, Bad}
      BY <1>3, <3>1
    <3>3. verdict' = IF fresh.digest.inactive THEN "lifecycle_blocked"
                     ELSE IF fresh.digest # old.digest THEN "drift" ELSE "matched_metadata"
      BY <1>1, <3>1 DEF Verdict
    <3> QED  BY <1>1, <2>2, <3>2, <3>3 DEF Founded
  <2> QED  BY <2>1, <2>2
<1>7. Deserved'
  <2> SUFFICES ASSUME NEW source, seen = {source} PROVE verdict' = VerdictOn(source)
    BY <1>1 DEF Deserved, VerdictOn, Verdict, Without
  <2>1. fresh = [locator |-> old.locator, digest |-> fresh.digest]
    BY DEF Package
  <2>2. CASE old.locator \in Paths
    BY <1>1, <2>1, <2>2 DEF VerdictOn
  <2>3. CASE old.locator \notin Paths
    <3>1. old.locator \in Versions /\ fresh.digest \in Items
      BY <1>4, <2>3, IngestAssumption DEF Package
    <3>2. source = fresh.digest /\ source # None /\ source # Bad
      BY <1>3, <3>1
    <3> QED  BY <1>1, <2>1, <2>3, <3>2 DEF VerdictOn
  <2> QED  BY <2>2, <2>3
<1> QED  BY <1>1, <1>2, <1>6, <1>7 DEF WitnessInv

(* A verdict that is given without anything read.                          *)
LEMMA LostServes ==
  ASSUME IInv, old # None, NEW status \in {"unavailable", "invalid"}, Lose(status),
         UNCHANGED <<sources, input>>,
         \A source : seen = {source} => status \in {VerdictOn(source), "unavailable"}
  PROVE  WitnessInv'
<1>1. verdict' = status /\ pc' = "verified" /\ UNCHANGED <<old, seen, skipped>>
      /\ Source(input)' = Source(input)
  BY DEF Lose, sources, Source
<1>2. Founded'
  BY <1>1 DEF Founded
<1>3. Deserved'
  BY <1>1 DEF Deserved, VerdictOn, Verdict, Without
<1> QED  BY <1>1, <1>2, <1>3 DEF IInv, WitnessInv

LEMMA WitnessStep == ASSUME IInv, [Next]_vars PROVE WitnessInv'
<1> USE DEF IInv
<1>1. CASE Change
  <2> SUFFICES ASSUME old # None PROVE WitnessInv'
    BY <1>1, ChangeStep DEF WitnessInv
  <2>1. /\ UNCHANGED <<pc, input, contents, old, verdict, skipped>>
        /\ seen' = seen \cup {Source(input)'}
        /\ IsFiniteSet(seen) /\ Source(input) \in seen
    BY <1>1, ChangeStep DEF WitnessInv
  <2>2. IsFiniteSet(seen') /\ Source(input)' \in seen' /\ seen \subseteq seen'
    BY <2>1, FS_AddElement
  <2>5. \A f : Findable(f) \subseteq Findable(f)'
    BY <2>1, <2>2 DEF Findable
  <2>3. Founded => Founded'
    BY <2>1, <2>2, <2>5 DEF Founded
  <2>4. Deserved => Deserved'
    <3> SUFFICES ASSUME Deserved, NEW source, seen' = {source}
                 PROVE  verdict' \in {VerdictOn(source), "unavailable"}'
      BY DEF Deserved
    <3>1. seen = {source}
      BY <2>1, <2>2
    <3> QED  BY <2>1, <3>1 DEF Deserved, VerdictOn, Verdict, Without
  <2> QED  BY <2>1, <2>2, <2>3, <2>4, <2>5 DEF WitnessInv
<1>2. CASE TakeInput
  BY <1>2 DEF TakeInput, check, LocalInv, WitnessInv
<1>3. ASSUME NEW p \in Imported, Verify(p) PROVE WitnessInv'
  <2>1. /\ seen' = {Source(p.locator)} /\ input' = p.locator /\ pc' \in {"lstat", "status"}
        /\ UNCHANGED <<tree, item, healthy>> /\ skipped' = {}
    BY <1>3 DEF Verify, StartOf, sources
  <2>2. Source(input)' = Source(p.locator)
    BY <2>1 DEF Source
  <2> QED  BY <2>1, <2>2, FS_Singleton DEF WitnessInv
<1>4. ASSUME old # None, Lstat PROVE WitnessInv'
  <2>1. Source(input) = tree[input] /\ Source(input) \in seen
    BY <1>4 DEF Lstat, LocalInv, Source, WitnessInv
  <2>2. CASE tree[input] = None
    BY <1>4, <2>2, LostServes DEF Lstat, Unavailable
  <2>3. CASE tree[input] # None
    <3>1. pc = "lstat" /\ pc' = "root" /\ UNCHANGED <<tree, item, healthy, input, old, seen, skipped>>
      BY <1>4, <2>3 DEF Lstat, check, sources
    <3> QED  BY <2>1, <2>3, <3>1 DEF WitnessInv, Source
  <2> QED  BY <2>2, <2>3
<1>5. ASSUME old # None, OpenTree PROVE WitnessInv'
  <2>1. /\ Source(input) = tree[input] /\ Source(input) \in seen
        /\ \E s \in seen : s # None
    BY <1>5 DEF OpenTree, LocalInv, Source, WitnessInv
  <2>2. CASE tree[input] = None
    BY <1>5, <2>1, <2>2, LostServes DEF OpenTree, Invalid
  <2>3. CASE tree[input] # None
    <3>1. /\ pc = "root" /\ pc' = "reading" /\ contents = Unread
          /\ UNCHANGED <<tree, item, healthy, input, contents, old, seen, skipped>>
      BY <1>5, <2>3 DEF OpenTree, check, sources, LocalInv
    <3> QED  BY <1>5, <2>1, <3>1 DEF WitnessInv, Source, Unread
  <2> QED  BY <2>2, <2>3
<1>6. ASSUME old # None, NEW f \in Files, ReadFile(f) PROVE WitnessInv'
  <2>1. /\ pc = "reading" /\ contents[f] = None
        /\ contents' = [contents EXCEPT ![f] = Look(tree[input])[f]]
        /\ UNCHANGED <<tree, item, healthy, pc, input, old, seen, skipped>>
    BY <1>6 DEF ReadFile, check, sources
  <2>2. tree[input] \in seen
    BY <1>6, <2>1 DEF LocalInv, WitnessInv, Source
  <2>3. f \notin skipped /\ Look(tree[input])[f] \in Findable(f)
    BY <1>6, <2>1, <2>2 DEF WitnessInv, Findable
  <2>4. ASSUME NEW g \in Files
        PROVE  IF contents'[g] = None THEN g \notin skipped ELSE contents'[g] \in Findable(g)
    BY <1>6, <2>1, <2>3 DEF WitnessInv, TypeOK
  <2>5. \A g : Findable(g)' = Findable(g)
    BY <2>1 DEF Findable
  <2> QED  BY <1>6, <2>1, <2>4, <2>5 DEF WitnessInv, Source
<1>16. ASSUME old # None, NEW d \in Subdirectories, SkipDirectory(d) PROVE WitnessInv'
  <2>1. /\ pc = "reading" /\ skipped' = skipped \cup d
        /\ contents' = [g \in Files |-> IF g \in d THEN Absent ELSE contents[g]]
        /\ UNCHANGED <<tree, item, healthy, pc, input, old, seen>>
    BY <1>16 DEF SkipDirectory, sources
  <2>2. ASSUME NEW g \in Files
        PROVE  IF contents'[g] = None THEN g \notin skipped' ELSE contents'[g] \in Findable(g)'
    <3>1. CASE g \in d
      BY <2>1, <3>1, IngestAssumption DEF Findable
    <3>2. CASE g \notin d
      BY <1>16, <2>1, <3>2 DEF WitnessInv, Findable
    <3> QED  BY <3>1, <3>2
  <2> QED  BY <1>16, <2>1, <2>2 DEF WitnessInv, Source
<1>7. ASSUME old # None, FailToRead PROVE WitnessInv'
  BY <1>7, LostServes DEF FailToRead, Unavailable
<1>8. ASSUME old # None, FinishTree PROVE WitnessInv'
  <2>1. /\ pc = "reading" /\ input \in Paths /\ input = old.locator /\ contents \in Trees
        /\ UNCHANGED <<sources, input>>
    BY <1>8 DEF FinishTree, LocalInv, TypeOK, Trees
  <2>2. \A f \in Files : contents[f] \in Findable(f)
    BY <1>8, <2>1 DEF FinishTree, WitnessInv
  <2>3. ASSUME NEW source, seen = {source} PROVE source # None /\ Without(source) = contents
    <3>1. source # None
      BY <1>8, <2>1, <2>3 DEF WitnessInv
    <3>2. \A f \in Files : contents[f] = IF f \in skipped THEN Absent ELSE source[f]
      BY <2>2, <2>3, <3>1 DEF Findable, Look
    <3>3. contents = [f \in Files |-> contents[f]]
      BY <2>1 DEF Trees
    <3> QED  BY <3>1, <3>2, <3>3 DEF Without
  <2>4. CASE Validated
    <3> DEFINE fresh == [locator |-> input, digest |-> contents]
    <3>1. fresh \in Package /\ Gain(fresh) /\ fresh.locator = old.locator /\ fresh.locator \notin Versions
      BY <1>8, <2>1, <2>4, IngestAssumption DEF FinishTree, Package
    <3>2. fresh.digest = contents /\ Valid(contents)
      BY <2>4 DEF Validated
    <3> HIDE DEF fresh
    <3> QED  BY <1>8, <2>1, <2>2, <2>3, <3>1, <3>2, FreshServes
  <2>5. CASE ~Validated
    <3>1. \A source : seen = {source} => VerdictOn(source) = "invalid"
      BY <2>1, <2>3, <2>5 DEF VerdictOn, Validated
    <3> QED  BY <1>8, <2>1, <2>5, <3>1, LostServes DEF FinishTree, Invalid
  <2> QED  BY <2>4, <2>5
<1>9. ASSUME old # None, FailToFetch PROVE WitnessInv'
  BY <1>9, LostServes DEF FailToFetch, Unavailable
<1>10. ASSUME old # None, AnswerStatus PROVE WitnessInv'
  <2>1. /\ input \in Versions /\ input \notin Paths /\ Source(input) \in seen
        /\ UNCHANGED <<sources, input>>
    BY <1>10, IngestAssumption DEF AnswerStatus, LocalInv, WitnessInv
  <2>2. CASE healthy
    <3>1. /\ pc = "status" /\ pc' = "version" /\ UNCHANGED <<old, seen, skipped>>
          /\ Source(input)' = Source(input)
      BY <1>10, <2>2 DEF AnswerStatus, check, sources, Source
    <3> QED  BY <1>10, <3>1 DEF WitnessInv
  <2>3. CASE ~healthy
    <3>0. Source(input) = Bad /\ Bad # None /\ old.locator \notin Paths
      BY <1>10, <2>1, <2>3, IngestAssumption DEF Source, LocalInv
    <3>1. \A source : seen = {source} => VerdictOn(source) = "invalid"
      BY <2>1, <3>0 DEF VerdictOn
    <3> QED  BY <1>10, <2>1, <2>3, <3>1, LostServes DEF AnswerStatus, Invalid
  <2> QED  BY <2>2, <2>3
<1>11. ASSUME old # None, AnswerVersion PROVE WitnessInv'
  <2>1. /\ input \in Versions /\ input \notin Paths /\ Source(input) \in seen /\ input = old.locator
        /\ UNCHANGED <<sources, input>>
    BY <1>11, IngestAssumption DEF AnswerVersion, LocalInv, WitnessInv
  <2>2. CASE Source(input) = None
    BY <1>11, <2>1, <2>2, LostServes, IngestAssumption DEF AnswerVersion, Unavailable
  <2>3. CASE Source(input) = Bad
    <3>1. \A source : seen = {source} => VerdictOn(source) = "invalid"
      BY <2>1, <2>3, IngestAssumption DEF VerdictOn
    <3> QED  BY <1>11, <2>1, <2>3, <3>1, LostServes, IngestAssumption DEF AnswerVersion, Invalid
  <2>4. CASE Source(input) \notin {Bad, None}
    <3> DEFINE fresh == [locator |-> input, digest |-> Source(input)]
    <3>1. fresh \in Package
      BY <2>1, <2>4 DEF Source, TypeOK, Package
    <3>2. Gain(fresh) /\ fresh.locator = old.locator /\ fresh.locator \notin Paths /\ fresh.digest \in seen
      BY <1>11, <2>1, <2>4 DEF AnswerVersion
    <3> HIDE DEF fresh
    <3> QED  BY <1>11, <2>1, <3>1, <3>2, FreshServes
  <2> QED  BY <2>2, <2>3, <2>4
<1>12. CASE UNCHANGED <<sources, input, pc, contents, old, verdict, seen, skipped>>
  <2>1. Source(input)' = Source(input) /\ \A f : Findable(f)' = Findable(f)
    BY <1>12 DEF Source, Findable, sources
  <2>2. Founded' = Founded
    BY <1>12, <2>1 DEF Founded
  <2>3. Deserved' = Deserved
    BY <1>12 DEF Deserved, VerdictOn, Verdict, Without
  <2> QED  BY <1>12, <2>1, <2>2, <2>3 DEF WitnessInv
<1>13. CASE UNCHANGED vars \/ Redirect
  BY <1>12, <1>13 DEF vars, Redirect, check
<1>14. CASE old = None /\ old' = None
  BY <1>14 DEF WitnessInv
<1>15. /\ (Lstat => old # None) /\ (AnswerCatalog => old = None)
       /\ (Program => old' = old)
  BY DEF Lstat, AnswerCatalog, LocalInv, Program, TakeInput, OpenTree, ReadFile, SkipDirectory,
     FailToRead, FinishTree, Redirect, FailToFetch, AnswerStatus, AnswerVersion, Lose, Gain, Unavailable,
     Invalid, check
<1> QED
  BY <1>1, <1>2, <1>3, <1>4, <1>5, <1>6, <1>7, <1>8, <1>9, <1>10, <1>11, <1>13, <1>14, <1>15,
     <1>16 DEF Next, Program, Change

LEMMA Invariance == Spec => []IInv
<1>1. ASSUME IInv, [Next]_vars PROVE IInv'
  BY <1>1, TypeStep, LocalStep, AccountStep, DigestStep, WitnessStep DEF IInv
<1> QED
  BY InvInit, <1>1, PTL DEF Spec

(* Sources, packages and verdicts keep their types.                        *)
THEOREM TypeCorrect == Spec => []TypeOK
<1>1. IInv => TypeOK
  BY DEF IInv
<1> QED
  BY Invariance, <1>1, PTL

(* What is digested is what was validated, however the source is edited    *)
(* while it is read.                                                       *)
THEOREM DigestsAreValid == Spec => []DigestedIsValid
<1>1. IInv => DigestedIsValid
  BY DEF IInv
<1> QED
  BY Invariance, <1>1, PTL

(* Of any paths, and any versions in a catalog, an import leaves out none  *)
(* without an error of its own; nor does it leave out a registry.          *)
THEOREM ImportsAreAccounted == Spec => []ImportAccounted
<1>1. ASSUME IInv, pc \in Resting
      PROVE  /\ \A i \in Paths \cup Listed :
                  \/ i \in errors
                  \/ \E j \in DOMAIN packages :
                       packages[j].locator = i /\ \E p \in Imported : RecordId(p) = RecordId(packages[j])
             /\ listed = None => Registry \in errors
  <2>1. Pending = {} /\ packages \in Seq(Package)
    BY <1>1 DEF IInv, LocalInv, Pending, Resting, TypeOK
  <2>2. \A i \in Paths \cup Listed : i \in errors \/ \E j \in DOMAIN packages : packages[j].locator = i
    BY <1>1, <2>1 DEF IInv, AccountInv
  <2>3. \A j \in DOMAIN packages : \E p \in Imported : RecordId(p) = RecordId(packages[j])
    BY <2>1, LastIsImported
  <2>4. listed = None => Registry \in errors
    BY <1>1, <2>1 DEF IInv, AccountInv
  <2> QED  BY <2>2, <2>3, <2>4
<1>2. IInv => ImportAccounted
  BY <1>1 DEF ImportAccounted
<1> QED
  BY Invariance, <1>2, PTL

(* A source that does not change while it is verified gets the verdict it  *)
(* deserves, as far as its directories could be opened, or is called       *)
(* unavailable, by whatever steps its files or its metadata are read.      *)
THEOREM VerdictsAreStable == Spec => []StableVerdict
<1>1. ASSUME IInv, pc = "verified", Cardinality(seen) = 1
      PROVE  \A source \in seen : verdict \in {VerdictOn(source), "unavailable"}
  <2>1. IsFiniteSet(seen) /\ Deserved
    BY <1>1 DEF IInv, LocalInv, WitnessInv
  <2>2. \E x : seen = {x}
    BY <1>1, <2>1, FS_Singleton
  <2> QED  BY <2>1, <2>2 DEF Deserved
<1>2. IInv => StableVerdict
  BY <1>1 DEF StableVerdict
<1> QED
  BY Invariance, <1>2, PTL

(* A source that changes while it is verified is called unchanged, changed *)
(* or blocked only if what decides it was once found so, or, of a file,    *)
(* its directory could not be opened.                                      *)
THEOREM VerdictsAreWitnessed == Spec => []VerdictWitnessed
<1>1. ASSUME IInv, pc = "verified" PROVE Founded
  BY <1>1 DEF IInv, LocalInv, WitnessInv
<1>2. ASSUME IInv PROVE VerdictWitnessed
  BY <1>1, <1>2 DEF Founded, VerdictWitnessed
<1> QED
  BY Invariance, <1>2, PTL

--------------------------------------------------------------------------------
(* What liveness rests on: a pair of numbers that every step of the        *)
(* program makes smaller, however the sources change.                      *)

(* The inputs that are still to be taken, with all that a catalog may add. *)
CatalogAwaited ==
  old = None /\ (pc \in {"status", "catalog"} \/ \E i \in DOMAIN todo : todo[i] = Registry)

Queue == Len(todo) + IF CatalogAwaited THEN MaxListed + 1 ELSE 0

(* How far the present input is from its end: the files that are still to  *)
(* be read, the requests that are still to be made, and their redirection. *)
Unfinished == {f \in Files : contents[f] = None}

Stage ==
  CASE pc \in Resting -> 0
    [] pc = "next"    -> 1
    [] pc = "reading" -> 2 + Cardinality(Unfinished)
    [] pc = "root"    -> 3 + Cardinality(Files)
    [] pc = "lstat"   -> 4 + Cardinality(Files)
    [] pc = "version" -> IF slash THEN 2 ELSE 3
    [] pc = "catalog" -> IF slash THEN 4 ELSE 5
    [] pc = "status"  -> IF slash THEN 6 ELSE 7

Closer == Queue' < Queue \/ (Queue' = Queue /\ Stage' < Stage)

LEMMA MeasureType ==
  ASSUME TypeOK
  PROVE  /\ Queue \in Nat /\ Stage \in Nat /\ Len(todo) \in Nat
         /\ IsFiniteSet(Unfinished) /\ Cardinality(Unfinished) \in Nat
         /\ Cardinality(Unfinished) <= Cardinality(Files)
         /\ Cardinality(Files) \in Nat /\ MaxListed \in Nat
<1>1. Cardinality(Files) \in Nat /\ MaxListed \in Nat
  BY IngestAssumption, FS_CardinalityType
<1>2. IsFiniteSet(Unfinished) /\ Cardinality(Unfinished) <= Cardinality(Files)
  BY IngestAssumption, FS_Subset DEF Unfinished
<1>3. Cardinality(Unfinished) \in Nat
  BY <1>2, FS_CardinalityType
<1>4. Len(todo) \in Nat
  BY DEF TypeOK
<1>5. Stage \in Nat
  BY <1>1, <1>3 DEF Stage, TypeOK, Resting
<1> QED  BY <1>1, <1>2, <1>3, <1>4, <1>5 DEF Queue

(* An input that ends with a package or an error leaves the queue as it is, *)
(* or without the catalog, and there is nothing below but the next input.  *)
LEMMA InputEnds ==
  ASSUME TypeOK, NEW fresh, NEW status,
         Gain(fresh) \/ Lose(status), Stage > 1, pc \notin Resting
  PROVE  Closer
<1>1. todo' = todo /\ old' = old /\ pc' \in {"next", "verified"}
  BY DEF Gain, Lose, check, import
<1>2. Stage' \in {0, 1}
  BY <1>1 DEF Stage, Resting
<1>3. Queue' <= Queue
  <2>1. CatalogAwaited' => CatalogAwaited
    BY <1>1 DEF CatalogAwaited
  <2>2. Len(todo') = Len(todo)
    BY <1>1
  <2> QED  BY <2>1, <2>2, MeasureType DEF Queue
<1>4. Queue' \in Int
  BY <1>1, MeasureType DEF Queue
<1> QED  BY <1>2, <1>3, <1>4, MeasureType DEF Closer

(* A catalog adds no more inputs than it has entries, and is read once.    *)
LEMMA CatalogServes ==
  ASSUME IInv, pc = "catalog", healthy, AnswerCatalog PROVE Queue' < Queue
<1>1. listed' \subseteq Versions /\ old = None /\ pc' = "next"
  BY DEF AnswerCatalog, IInv, LocalInv
<1>2. PICK s \in Catalogs(listed') : todo' = s \o todo
  BY DEF AnswerCatalog
<1>5. s \in Seq(listed') /\ Len(s) \in Nat /\ Len(s) <= MaxListed
  BY CatalogOrder
<1>6. /\ Len(todo') = Len(s) + Len(todo)
      /\ \A i \in DOMAIN todo' :
           todo'[i] \in listed' \/ \E j \in DOMAIN todo : todo'[i] = todo[j]
  <2>1. s \in Seq(Inputs) /\ todo \in Seq(Inputs)
    <3>1. listed' \subseteq Inputs
      BY <1>1 DEF Inputs
    <3> QED  BY <1>5, <3>1 DEF IInv, TypeOK
  <2>2. /\ Len(todo') = Len(s) + Len(todo) /\ todo' \in Seq(Inputs)
        /\ \A i \in 1..Len(s) + Len(todo) :
             todo'[i] = IF i <= Len(s) THEN s[i] ELSE todo[i - Len(s)]
    BY <1>2, <2>1, ConcatProperties
  <2>3. ASSUME NEW i \in DOMAIN todo'
        PROVE  todo'[i] \in listed' \/ \E j \in DOMAIN todo : todo'[i] = todo[j]
    <3>1. i \in 1..Len(s) + Len(todo)
      BY <2>2, <2>3
    <3>2. CASE i <= Len(s)
      BY <1>5, <2>2, <3>1, <3>2
    <3>3. CASE ~(i <= Len(s))
      <4>1. i - Len(s) \in DOMAIN todo
        BY <2>1, <3>1, <3>3
      <4> QED  BY <2>2, <3>1, <3>3, <4>1
    <3> QED  BY <3>2, <3>3
  <2> QED  BY <2>2, <2>3
<1>7. \A i \in DOMAIN todo' : todo'[i] # Registry
  BY <1>1, <1>6, IngestAssumption DEF IInv, AccountInv
<1>8. Queue' = Len(todo')
  BY <1>1, <1>7 DEF Queue, CatalogAwaited
<1>9. Queue = Len(todo) + MaxListed + 1
  BY <1>1, MeasureType DEF Queue, CatalogAwaited, IInv
<1> QED  BY <1>5, <1>6, <1>8, <1>9, MeasureType DEF IInv

LEMMA StepCloser == ASSUME IInv, Program PROVE Closer
<1>1. /\ Queue \in Nat /\ Stage \in Nat /\ Len(todo) \in Nat
      /\ IsFiniteSet(Unfinished) /\ Cardinality(Unfinished) \in Nat
      /\ Cardinality(Unfinished) <= Cardinality(Files)
      /\ Cardinality(Files) \in Nat /\ MaxListed \in Nat
  BY MeasureType DEF IInv
<1>2. TypeOK
  BY DEF IInv
<1> DEFINE Ends == \E fresh, status : Gain(fresh) \/ Lose(status)
<1>3. pc \in {"reading", "root", "lstat", "version", "catalog", "status"} =>
        Stage > 1 /\ pc \notin Resting
  BY <1>1 DEF Stage, Resting
<1>4. ASSUME Ends, pc \in {"reading", "root", "lstat", "version", "catalog", "status"} PROVE Closer
  BY <1>2, <1>3, <1>4, InputEnds
<1>5. ASSUME UNCHANGED <<todo, old>>, Stage' < Stage,
             pc' \in {"status", "catalog"} => pc \in {"status", "catalog"}
      PROVE  Closer
  <2>1. CatalogAwaited' => CatalogAwaited
    BY <1>5 DEF CatalogAwaited
  <2>2. Queue' <= Queue /\ Queue' \in Int
    BY <1>1, <1>5, <2>1 DEF Queue
  <2> QED  BY <1>1, <1>5, <2>2 DEF Closer
<1>6. CASE TakeInput
  <2>1. CASE todo = <<>>
    <3>1. UNCHANGED <<todo, old>> /\ pc = "next" /\ pc' = "imported"
      BY <1>6, <2>1 DEF TakeInput, check
    <3>2. Queue' = Queue
      BY <3>1 DEF Queue, CatalogAwaited
    <3>3. Stage' = 0 /\ Stage = 1
      BY <3>1 DEF Stage, Resting
    <3> QED  BY <3>2, <3>3 DEF Closer
  <2>2. CASE todo # <<>>
    <3>1. /\ Len(todo') = Len(todo) - 1
          /\ \A i \in DOMAIN todo' : \E j \in DOMAIN todo : todo'[i] = todo[j]
          /\ \E j \in DOMAIN todo : todo[j] = Head(todo)
      <4>1. todo \in Seq(Inputs) /\ todo' = Tail(todo)
        BY <1>2, <1>6, <2>2 DEF TakeInput, TypeOK
      <4>2. /\ DOMAIN todo = 1..Len(todo) /\ Len(todo) \in Nat \ {0} /\ Head(todo) = todo[1]
            /\ Len(todo') = Len(todo) - 1 /\ DOMAIN todo' = 1..(Len(todo) - 1)
            /\ \A i \in 1..(Len(todo) - 1) : todo'[i] = todo[i + 1]
        BY <2>2, <4>1
      <4>3. ASSUME NEW i \in DOMAIN todo' PROVE i + 1 \in DOMAIN todo /\ todo'[i] = todo[i + 1]
        BY <4>2
      <4> QED  BY <4>2, <4>3
    <3>2. old' = old /\ input' = Head(todo)
          /\ (pc' \in {"status", "catalog"} => input' = Registry)
      BY <1>6, <2>2 DEF TakeInput, check
    <3>3. CatalogAwaited' => CatalogAwaited
      BY <3>1, <3>2 DEF CatalogAwaited
    <3> QED  BY <1>1, <3>1, <3>3 DEF Queue, Closer
  <2> QED  BY <2>1, <2>2
<1>7. CASE Lstat
  <2>1. CASE tree[input] = None
    BY <1>4, <1>7, <2>1 DEF Lstat, Unavailable
  <2>2. CASE tree[input] # None
    <3>1. UNCHANGED <<todo, old>> /\ pc = "lstat" /\ pc' = "root"
      BY <1>7, <2>2 DEF Lstat, import, check
    <3>2. Stage' < Stage
      BY <1>1, <3>1 DEF Stage, Resting
    <3> QED  BY <1>5, <3>1, <3>2
  <2> QED  BY <2>1, <2>2
<1>8. CASE OpenTree
  <2>1. CASE tree[input] = None
    BY <1>4, <1>8, <2>1 DEF OpenTree, Invalid
  <2>2. CASE tree[input] # None
    <3>1. UNCHANGED <<todo, old, contents>> /\ pc = "root" /\ pc' = "reading"
      BY <1>8, <2>2 DEF OpenTree, import, check
    <3>2. Stage' < Stage
      BY <1>1, <3>1 DEF Stage, Resting, Unfinished
    <3> QED  BY <1>5, <3>1, <3>2
  <2> QED  BY <2>1, <2>2
<1>9. ASSUME NEW f \in Files, ReadFile(f) PROVE Closer
  <2>1. UNCHANGED <<todo, old>> /\ pc = "reading" /\ pc' = "reading" /\ f \in Unfinished
    BY <1>9 DEF ReadFile, import, check, Unfinished
  <2>2. Look(tree[input])[f] # None
    <3>1. input \in Paths
      BY <2>1 DEF IInv, LocalInv
    <3>2. Look(tree[input]) \in Trees
      BY <1>2, <3>1 DEF TypeOK, Look, Nothing, Trees
    <3> QED  BY <3>2, IngestAssumption DEF Trees
  <2>3. Unfinished' = Unfinished \ {f}
    BY <1>2, <1>9, <2>2 DEF ReadFile, Unfinished, TypeOK
  <2>4. Cardinality(Unfinished') = Cardinality(Unfinished) - 1
    BY <1>1, <2>1, <2>3, FS_RemoveElement
  <2>5. Stage' < Stage
    BY <1>1, <2>1, <2>4 DEF Stage, Resting
  <2> QED  BY <1>5, <2>1, <2>5
<1>16. ASSUME NEW d \in Subdirectories, SkipDirectory(d) PROVE Closer
  <2>1. UNCHANGED <<todo, old>> /\ pc = "reading" /\ pc' = "reading"
    BY <1>16 DEF SkipDirectory, import
  <2>2. d # {} /\ d \subseteq Unfinished
    BY <1>16, IngestAssumption DEF SkipDirectory, Unfinished
  <2>3. Unfinished' = Unfinished \ d
    BY <1>16, IngestAssumption DEF SkipDirectory, Unfinished
  <2>4. PICK f \in d : f \in Unfinished
    BY <2>2
  <2>5. /\ IsFiniteSet(Unfinished \ {f}) /\ Unfinished' \subseteq Unfinished \ {f}
        /\ Cardinality(Unfinished \ {f}) = Cardinality(Unfinished) - 1
    BY <1>1, <2>3, <2>4, FS_RemoveElement
  <2>6. Cardinality(Unfinished') <= Cardinality(Unfinished) - 1 /\ Cardinality(Unfinished') \in Nat
    BY <2>5, FS_Subset, FS_CardinalityType
  <2>7. Stage' < Stage
    BY <1>1, <2>1, <2>6 DEF Stage, Resting
  <2> QED  BY <1>5, <2>1, <2>7
<1>10. CASE FailToRead \/ FinishTree
  BY <1>4, <1>10 DEF FailToRead, FinishTree, Unavailable, Invalid
<1>11. CASE Redirect
  <2>1. UNCHANGED <<todo, old>> /\ pc' = pc /\ ~slash /\ slash' = TRUE
        /\ pc \in {"status", "catalog", "version"}
    BY <1>11 DEF Redirect, Fetching, import, check
  <2>2. Stage' < Stage
    BY <2>1 DEF Stage, Resting
  <2> QED  BY <1>5, <2>1, <2>2
<1>12. CASE FailToFetch
  BY <1>4, <1>12 DEF FailToFetch, Fetching, Unavailable
<1>13. CASE AnswerStatus
  <2>1. CASE ~healthy
    BY <1>4, <1>13, <2>1 DEF AnswerStatus, Invalid
  <2>2. CASE healthy
    <3>1. UNCHANGED <<todo, old>> /\ pc = "status" /\ pc' \in {"catalog", "version"}
      BY <1>13, <2>2 DEF AnswerStatus, import, check
    <3>2. Stage' < Stage
      BY <3>1 DEF Stage, Resting
    <3> QED  BY <1>5, <3>1, <3>2
  <2> QED  BY <2>1, <2>2
<1>14. CASE AnswerCatalog
  <2>1. CASE ~healthy
    BY <1>4, <1>14, <2>1 DEF AnswerCatalog, Invalid
  <2>2. CASE healthy
    BY <1>14, <2>2, CatalogServes DEF AnswerCatalog, Closer
  <2> QED  BY <2>1, <2>2
<1>15. CASE AnswerVersion
  BY <1>4, <1>15 DEF AnswerVersion, Unavailable, Invalid
<1> QED
  BY <1>6, <1>7, <1>8, <1>9, <1>10, <1>11, <1>12, <1>13, <1>14, <1>15, <1>16
     DEF Program

(* Changes of the sources take nothing back from a running command.        *)
LEMMA ChangeKeeps == ASSUME Change PROVE UNCHANGED <<Queue, Stage>>
<1>1. UNCHANGED <<pc, contents, slash, import, old>>
  BY DEF Change, RemoveOrRestore, Edit, Republish, Watch
<1> QED  BY <1>1 DEF Queue, CatalogAwaited, Stage, Unfinished, import

(* Every step of an import or a verification brings its end closer, and no *)
(* change of the sources puts it off: no sequence of edits, redirections   *)
(* and failures keeps a command going for ever.                            *)
THEOREM CommandsRunOut ==
  Spec => [][pc \notin Resting => /\ Program => Closer
                                  /\ ~Program => UNCHANGED <<Queue, Stage>>]_vars
<1>1. IInv /\ [Next]_vars =>
        [pc \notin Resting => (Program => Closer) /\ (~Program => UNCHANGED <<Queue, Stage>>)]_vars
  BY StepCloser, ChangeKeeps DEF Next, Change, Verify
<1> QED  BY <1>1, Invariance, PTL DEF Spec
===============================================================================
