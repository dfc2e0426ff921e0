-------------------------------- MODULE Ingest --------------------------------
(***************************************************************************)
(* `specsearch import` and the verification of what it has imported, while *)
(* others edit, remove and restore the package directories, and a registry *)
(* changes, redirects and fails between any two requests                   *)
(* (src/src/specsearch/ingest.py, SearchService.verify).                   *)
(*                                                                         *)
(* There is a source of local candidates with some paths, and a registry.  *)
(* A digest is what it digests: the contents of all files, or a version's  *)
(* metadata.  Bad is whatever makes parsing or validation raise.           *)
(***************************************************************************)
EXTENDS SequencesExt

CONSTANTS
  Paths,     \* the configured package directories
  Files,     \* the files that a package may have
  Manifest,  \* the one named specpm.yaml
  Subdirectories, \* the files below each directory of a package
  Versions,  \* package versions that the registry may list
  Texts,     \* valid contents of a file, or of a version's metadata
  Specs,     \* the files that a manifest of each text lists
  Bad,       \* an invalid file, payload or registry
  Absent,    \* no such file
  None,      \* no directory, no such version; not read yet, no catalog
  Registry,  \* the registry source, as an input of the import
  Sources,   \* configurations: the paths in order, and the registry once
  Originals, \* what a directory may hold at first, or when it is restored
  MaxListed, \* bound: entries of a catalog
  MaxChanges \* bound: changes to the sources

Trees == [Files -> Texts \cup {Bad, Absent}]
Items == [text : Texts, inactive : BOOLEAN]
Package == [locator : Paths, digest : Trees] \cup [locator : Versions, digest : Items]

ASSUME IngestAssumption ==
  /\ {Bad, None, Absent} \cap (Texts \cup Paths \cup Versions \cup Trees \cup Items \cup Package) = {}
  /\ Bad # None /\ Absent \notin {Bad, None} /\ \A catalog \in SUBSET Versions : catalog # None
  /\ Manifest \in Files /\ Specs \in [Texts -> SUBSET Files]
  /\ Subdirectories \subseteq SUBSET (Files \ {Manifest}) /\ {} \notin Subdirectories
  /\ Paths \cap (Versions \cup {Registry}) = {} /\ Registry \notin Versions
  /\ \A s \in Sources :
       /\ s \in Seq(Paths \cup {Registry}) /\ Range(s) = Paths \cup {Registry}
       /\ \A i, j \in DOMAIN s : s[i] = Registry /\ s[j] = Registry => i = j
  /\ Originals \subseteq Trees
  /\ IsFiniteSet(Versions) /\ IsFiniteSet(Files)
  /\ MaxListed \in Nat /\ Cardinality(Versions) <= MaxListed
  /\ MaxChanges \in Nat

VARIABLES
  tree,     \* what each directory holds
  item,     \* the metadata that the registry serves for each version
  healthy,  \* whether what it serves is valid at all
  changes,  \* changes to the sources so far
  pc,       \* where the importing or verifying process is
  todo,     \* the inputs that import_sources has still to read
  input,    \* the one it reads
  contents, \* the files that read_tree has read
  slash,    \* whether the present request was redirected
  packages, \* the packages so far, in order
  errors,   \* the inputs that gave an error
  listed,   \* history: the versions of the catalog, None until it is answered
  old,      \* the package to verify
  verdict,  \* the status that verify returns
  seen,     \* history: the states of its source since verify began
  skipped   \* history: the files whose directory verify could not open

sources == <<tree, item, healthy, changes>>
import == <<todo, packages, errors, listed>>
check == <<old, verdict, seen, skipped>>
vars == <<sources, pc, input, contents, slash, import, check>>

Inputs == Paths \cup Versions \cup {Registry}
Resting == {"imported", "verified"}

TypeOK ==
  /\ tree \in [Paths -> Trees \cup {None}]
  /\ item \in [Versions -> Items \cup {Bad, None}]
  /\ healthy \in BOOLEAN /\ changes \in 0..MaxChanges
  /\ pc \in {"next", "lstat", "root", "reading", "status", "catalog", "version"} \cup Resting
  /\ todo \in Seq(Inputs) /\ input \in Inputs \cup {None}
  /\ contents \in [Files -> Texts \cup {Bad, Absent, None}]
  /\ slash \in BOOLEAN
  /\ packages \in Seq(Package)
  /\ errors \subseteq Inputs /\ listed \in {None} \cup SUBSET Versions
  /\ old \in Package \cup {None}
  /\ verdict \in {None, "matched_metadata", "drift", "lifecycle_blocked", "unavailable", "invalid"}
  /\ skipped \subseteq Files

Unread == [f \in Files |-> None]
Nothing == [f \in Files |-> Absent]

Init ==
  /\ tree \in [Paths -> Originals]
  /\ item \in [Versions -> [text : Texts, inactive : {FALSE}] \cup {None}]
  /\ healthy = TRUE /\ changes = 0
  /\ pc = "next" /\ input = None /\ contents = Unread /\ slash = FALSE
  /\ todo \in Sources
  /\ packages = <<>> /\ errors = {} /\ listed = None
  /\ old = None /\ verdict = None /\ seen = {} /\ skipped = {}

(* The record id digests the source, the package id and version, and the   *)
(* checksum; a checksum of files covers the id and version in the manifest. *)
RecordId(p) == IF p.locator \in Paths THEN <<"candidates", p.digest>> ELSE <<p.locator, p.digest>>

(* Of equal records the last one is imported.                              *)
Imported ==
  {packages[i] : i \in {i \in DOMAIN packages :
     \A j \in DOMAIN packages : RecordId(packages[j]) = RecordId(packages[i]) => j <= i}}

--------------------------------------------------------------------------------
(* The sources change.                                                     *)

(* What verify, or an import, finds of an input.                           *)
Source(i) == IF i \in Paths THEN tree[i] ELSE IF healthy THEN item[i] ELSE Bad

Watch ==
  /\ changes < MaxChanges
  /\ changes' = changes + 1
  /\ UNCHANGED <<pc, input, contents, slash, import, old, verdict, skipped>>
  /\ seen' = IF old # None THEN seen \cup {Source(input)'} ELSE seen

Edit(p, f) ==
  /\ tree[p] # None
  /\ \E x \in Texts \cup {Bad, Absent} : tree' = [tree EXCEPT ![p][f] = x]
  /\ UNCHANGED <<item, healthy>>
  /\ Watch

RemoveOrRestore(p) ==
  /\ IF tree[p] = None THEN \E x \in Originals : tree' = [tree EXCEPT ![p] = x]
                       ELSE tree' = [tree EXCEPT ![p] = None]
  /\ UNCHANGED <<item, healthy>>
  /\ Watch

Republish(v) ==
  /\ \/ \E x \in Items \cup {Bad, None} : item' = [item EXCEPT ![v] = x] /\ UNCHANGED healthy
     \/ healthy' = ~healthy /\ UNCHANGED item
  /\ UNCHANGED tree
  /\ Watch

--------------------------------------------------------------------------------
(* How local_package and registry_package end: with a package, or with one *)
(* of two families of exceptions.  import_sources collects packages and    *)
(* errors; verify compares.                                                *)

Verdict(fresh) ==
  IF fresh.locator \in Versions /\ fresh.digest.inactive THEN "lifecycle_blocked"
  ELSE IF fresh.digest # old.digest THEN "drift" ELSE "matched_metadata"

Gain(fresh) ==
  IF old = None
    THEN /\ packages' = Append(packages, fresh) /\ pc' = "next"
         /\ UNCHANGED <<todo, errors, listed, check>>
    ELSE /\ verdict' = Verdict(fresh) /\ pc' = "verified"
         /\ UNCHANGED <<import, old, seen, skipped>>

GiveUpSource(status) ==
  IF old = None
    THEN /\ errors' = errors \cup {input} /\ pc' = "next"
         /\ todo' = SelectSeq(todo, LAMBDA i : (i \in Paths) # (input \in Paths))
         /\ UNCHANGED <<packages, listed, check>>
    ELSE verdict' = status /\ pc' = "verified" /\ UNCHANGED <<import, old, seen, skipped>>

Lose(status) ==
  IF old = None
    THEN /\ errors' = errors \cup {input} /\ pc' = "next"
         /\ UNCHANGED <<todo, packages, listed, check>>
    ELSE verdict' = status /\ pc' = "verified" /\ UNCHANGED <<import, old, seen, skipped>>

Unavailable == Lose("unavailable")
Invalid == Lose("invalid")

(* import_sources takes the next path, source or version; after the last   *)
(* one it removes duplicates.                                              *)
TakeInput ==
  /\ pc = "next"
  /\ IF todo = <<>>
       THEN pc' = "imported" /\ UNCHANGED <<todo, input>>
       ELSE /\ input' = Head(todo) /\ todo' = Tail(todo)
            /\ pc' = IF input' \in Paths THEN "root"
                     ELSE IF input' = Registry THEN "status" ELSE "version"
  /\ UNCHANGED <<sources, contents, slash, packages, errors, listed, check>>

StartWithoutLstat(p) == IF p.locator \in Paths THEN "root" ELSE "status"
StartOf(p) == IF p.locator \in Paths THEN "lstat" ELSE "status"

(* verify(), of a package of the index that was built (p \in Imported).     *)
Verify(p) ==
  /\ pc \in Resting
  /\ old' = p /\ input' = p.locator /\ verdict' = None
  /\ seen' = {Source(p.locator)} /\ skipped' = {}
  /\ pc' = StartOf(p)
  /\ UNCHANGED <<sources, contents, slash, import>>

(* root.lstat() tells a missing source from a malformed one.               *)
Lstat ==
  /\ pc = "lstat"
  /\ IF tree[input] = None THEN Unavailable ELSE pc' = "root" /\ UNCHANGED <<import, check>>
  /\ UNCHANGED <<sources, input, contents, slash>>

(* read_tree: without a directory at the root it is an ImportFailure.      *)
OpenTree ==
  /\ pc = "root"
  /\ IF tree[input] = None THEN Invalid ELSE pc' = "reading" /\ UNCHANGED <<import, check>>
  /\ UNCHANGED <<sources, input, contents, slash>>

(* A directory that was removed, and is still open, lists nothing.         *)
Look(found) == IF found = None THEN Nothing ELSE found

ReadFile(f) ==
  /\ pc = "reading" /\ contents[f] = None
  /\ contents' = [contents EXCEPT ![f] = Look(tree[input])[f]]
  /\ UNCHANGED <<sources, pc, input, slash, import, check>>

(* os.fwalk goes on without a directory that it cannot open: removed by    *)
(* then, not permitted, or too many files are open.                        *)
SkipDirectory(d) ==
  /\ pc = "reading" /\ \A f \in d : contents[f] = None
  /\ contents' = [f \in Files |-> IF f \in d THEN Absent ELSE contents[f]]
  /\ skipped' = IF old = None THEN {} ELSE skipped \cup d
  /\ UNCHANGED <<sources, pc, input, slash, import, old, verdict, seen>>

(* The root cannot be opened, or a file that was listed, or read.          *)
FailToRead ==
  /\ pc = "reading" /\ \E f \in Files : contents[f] = None
  /\ Unavailable
  /\ contents' = Unread
  /\ UNCHANGED <<sources, input, slash>>

(* Every file is valid, and those that the manifest lists are there.       *)
Valid(files) ==
  /\ \A f \in Files : files[f] # Bad
  /\ files[Manifest] # Absent
  /\ \A f \in Specs[files[Manifest]] : files[f] # Absent

ValidatedLive == tree[input] # None /\ Valid(tree[input])

(* What is parsed, and what validate_package is given: a copy.             *)
Validated == Valid(contents)

FinishTreeKeeping ==
  /\ pc = "reading" /\ \A f \in Files : contents[f] # None
  /\ IF Validated THEN Gain([locator |-> input, digest |-> contents]) ELSE Invalid
  /\ UNCHANGED <<sources, input, contents, slash>>

FinishTree ==
  /\ pc = "reading" /\ \A f \in Files : contents[f] # None
  /\ IF Validated THEN Gain([locator |-> input, digest |-> contents]) ELSE Invalid
  /\ contents' = Unread
  /\ UNCHANGED <<sources, input, slash>>

--------------------------------------------------------------------------------
(* registry_json: a redirection to the same URL with a slash is followed.  *)
Fetching == pc \in {"status", "catalog", "version"}

RedirectBack ==
  /\ Fetching
  /\ slash' = ~slash
  /\ UNCHANGED <<sources, pc, input, contents, import, check>>

Redirect ==
  /\ Fetching /\ ~slash
  /\ slash' = TRUE
  /\ UNCHANGED <<sources, pc, input, contents, import, check>>

(* Anything but an answer: no connection, an error status, a redirection   *)
(* elsewhere or a second one.                                              *)
FailToFetch ==
  /\ Fetching
  /\ slash' = FALSE
  /\ Unavailable
  /\ UNCHANGED <<sources, input, contents>>

AnswerStatus ==
  /\ pc = "status" /\ slash' = FALSE
  /\ IF healthy
       THEN /\ pc' = IF old = None THEN "catalog" ELSE "version"
            /\ UNCHANGED <<import, check>>
       ELSE Invalid
  /\ UNCHANGED <<sources, input, contents>>

(* A catalog may list a version more than once.                            *)
Catalogs(versions) == {s \in BoundedSeq(versions, MaxListed) : Range(s) = versions}

AnswerCatalog ==
  /\ pc = "catalog" /\ slash' = FALSE
  /\ IF healthy
       THEN /\ listed' = {v \in Versions : item[v] # None}
            /\ \E s \in Catalogs(listed') : todo' = s \o todo
            /\ pc' = "next"
            /\ UNCHANGED <<packages, errors, check>>
       ELSE Invalid
  /\ UNCHANGED <<sources, input, contents>>

AnswerVersionUnvalidated ==
  /\ pc = "version" /\ slash' = FALSE
  /\ IF Source(input) = None THEN Unavailable
     ELSE Gain([locator |-> input, digest |-> Source(input)])
  /\ UNCHANGED <<sources, input, contents>>

(* registry_package: the exact version, unknown, malformed or not.         *)
AnswerVersion ==
  /\ pc = "version" /\ slash' = FALSE
  /\ CASE Source(input) = None -> Unavailable
       [] Source(input) = Bad  -> Invalid
       [] OTHER                -> Gain([locator |-> input, digest |-> Source(input)])
  /\ UNCHANGED <<sources, input, contents>>

Program ==
  \/ TakeInput \/ Lstat \/ OpenTree \/ FailToRead \/ FinishTree
  \/ \E f \in Files : ReadFile(f)
  \/ \E d \in Subdirectories : SkipDirectory(d)
  \/ Redirect \/ FailToFetch \/ AnswerStatus \/ AnswerCatalog \/ AnswerVersion

Next ==
  \/ \E p \in Paths : RemoveOrRestore(p) \/ \E f \in Files : Edit(p, f)
  \/ \E v \in Versions : Republish(v)
  \/ Program
  \/ \E p \in Imported : Verify(p)

(* A running command goes on, and every request times out at the latest.   *)
Spec == Init /\ [][Next]_vars /\ WF_vars(Program)

--------------------------------------------------------------------------------
(* Properties.  (GiveUpSource, StartWithoutLstat, ValidatedLive,           *)
(* FinishTreeKeeping, RedirectBack and AnswerVersionUnvalidated are        *)
(* plausible bugs that Next does not use.)                                 *)

(* What is digested and indexed is valid, and has all that its manifest     *)
(* lists, though the package may be a mixture of edits to its source, and  *)
(* lack other files whose directory could not be opened.                   *)
DigestedIsValid ==
  \A i \in DOMAIN packages : packages[i].locator \in Paths => Valid(packages[i].digest)

Listed == IF listed = None THEN {} ELSE listed

(* Every configured path and every version in the catalog, and if it is    *)
(* listed twice, has been imported, itself or an equal record, or has an   *)
(* error of its own; and so has a registry whose catalog was not read.     *)
ImportAccounted ==
  pc \in Resting =>
    /\ listed = None => Registry \in errors
    /\ \A i \in Paths \cup Listed :
         \/ i \in errors
         \/ \E j \in DOMAIN packages :
              packages[j].locator = i /\ \E p \in Imported : RecordId(p) = RecordId(packages[j])

(* What is left of a tree without the directories that were not opened.    *)
Without(found) == [f \in Files |-> IF f \in skipped THEN Absent ELSE found[f]]

(* The verdict on a source that stays as it is.                            *)
VerdictOn(source) ==
  IF source = None THEN "unavailable"
  ELSE LET found == IF old.locator \in Paths THEN Without(source) ELSE source
           valid == IF old.locator \in Paths THEN Valid(found) ELSE source # Bad
       IN  IF valid THEN Verdict([locator |-> old.locator, digest |-> found]) ELSE "invalid"

(* A source that stays as it is gets the verdict it deserves, as far as    *)
(* its directories could be opened, unless a root, a file or the registry  *)
(* cannot be read: a missing package is never called malformed, and one    *)
(* all of whose directories were opened is called neither drifted nor      *)
(* invalid if it is not.                                                   *)
StableVerdict ==
  pc = "verified" /\ Cardinality(seen) = 1 =>
    \A source \in seen : verdict \in {VerdictOn(source), "unavailable"}

(* What verify may have come across of a file.                             *)
Findable(f) == IF f \in skipped THEN {Absent} ELSE {Look(s)[f] : s \in seen}

(* A source that changes meanwhile is not called unchanged unless each of  *)
(* its files was once found so, or its directory was not opened then as it *)
(* is not now; nor changed unless a file was found otherwise, or its       *)
(* directory was not opened.                                               *)
VerdictWitnessed ==
  LET present == seen \ {None, Bad}
  IN  pc = "verified" =>
        IF old.locator \in Paths
          THEN /\ verdict = "matched_metadata" => \A f \in Files : old.digest[f] \in Findable(f)
               /\ verdict = "drift" => \E f \in Files : Findable(f) # {old.digest[f]}
          ELSE /\ verdict = "matched_metadata" => old.digest \in present
               /\ verdict = "drift" => \E s \in present : s # old.digest /\ ~s.inactive
               /\ verdict = "lifecycle_blocked" => \E s \in present : s.inactive

(* Every import and every verification ends.                               *)
CallsEnd == pc \notin Resting ~> pc \in Resting
===============================================================================
