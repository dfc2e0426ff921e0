------------------------------- MODULE Workspace -------------------------------
(***************************************************************************)
(* The files of a data workspace outside its index: `specsearch import`    *)
(* processes that replace packages.json through a temporary file of a fixed *)
(* name, and builds that read it (src/src/specsearch/cli.py).              *)
(*                                                                         *)
(* A name refers to a file, and a process that has opened one keeps it     *)
(* whatever becomes of the name.  A file is called after the import that   *)
(* created it, and holds what an import wrote, or less.                    *)
(***************************************************************************)
EXTENDS Naturals

CONSTANTS
  Imports,     \* the invocations of `specsearch import`
  Builds,      \* the invocations of `specsearch index build`
  None,        \* no file; nothing written yet
  Torn,        \* a mixture of what two imports wrote
  ImportsAlone \* whether imports never overlap

ASSUME WorkspaceAssumption ==
  /\ None \notin Imports /\ Torn \notin Imports /\ None # Torn
  /\ ImportsAlone \in BOOLEAN

VARIABLES
  pc,       \* where each import is
  errors,   \* whether import_sources reported errors
  allowed,  \* whether --allow-rejected was given
  fd,       \* the file an import has open
  temp,     \* the file that packages.tmp names
  packages, \* the file that packages.json names
  content,  \* what each file holds
  report,   \* the import that import-report.json describes
  corpus    \* the import a build has read, None before, Torn if it failed

vars == <<pc, errors, allowed, fd, temp, packages, content, report, corpus>>

Running == {"fetched", "reported", "opened", "written", "replaced"}

(* From os.replace on, however the process then ends.                      *)
Committed == {"replaced", "done", "cut"}

TypeOK ==
  /\ pc \in [Imports -> {"idle", "done", "rejected", "raised", "killed", "cut"} \cup Running]
  /\ errors \in [Imports -> BOOLEAN] /\ allowed \in [Imports -> BOOLEAN]
  /\ fd \in [Imports -> Imports \cup {None}]
  /\ temp \in Imports \cup {None} /\ packages \in Imports \cup {None}
  /\ temp = packages => temp = None
  /\ content \in [Imports -> Imports \cup {None, Torn}]
  /\ report \in Imports \cup {None}
  /\ corpus \in [Builds -> Imports \cup {None, Torn}]

Init ==
  /\ pc = [i \in Imports |-> "idle"]
  /\ errors = [i \in Imports |-> FALSE] /\ allowed = [i \in Imports |-> FALSE]
  /\ fd = [i \in Imports |-> None]
  /\ temp = None /\ packages = None /\ report = None
  /\ content = [i \in Imports |-> None]
  /\ corpus = [b \in Builds |-> None]

Goto(i, from, to) ==
  /\ pc[i] = from
  /\ pc' = [pc EXCEPT ![i] = to]

--------------------------------------------------------------------------------
(* import_sources has gone through every source and every version, whether *)
(* or not some of them failed.                                             *)
Fetch(i) ==
  /\ ImportsAlone => \A j \in Imports : pc[j] \notin Running
  /\ Goto(i, "idle", "fetched")
  /\ \E e, a \in BOOLEAN :
       errors' = [errors EXCEPT ![i] = e] /\ allowed' = [allowed EXCEPT ![i] = a]
  /\ UNCHANGED <<fd, temp, packages, content, report, corpus>>

ReportRemovingPackages(i) ==
  /\ Goto(i, "fetched", IF errors[i] /\ ~allowed[i] THEN "rejected" ELSE "reported")
  /\ report' = i
  /\ packages' = IF errors[i] /\ ~allowed[i] THEN None ELSE packages
  /\ UNCHANGED <<errors, allowed, fd, temp, content, corpus>>

(* The report is replaced first; an import with errors ends here.          *)
Report(i) ==
  /\ Goto(i, "fetched", IF errors[i] /\ ~allowed[i] THEN "rejected" ELSE "reported")
  /\ report' = i
  /\ UNCHANGED <<errors, allowed, fd, temp, packages, content, corpus>>

OpenInPlace(i) ==
  /\ Goto(i, "reported", "opened")
  /\ LET file == IF packages = None THEN i ELSE packages
     IN  /\ packages' = file
         /\ fd' = [fd EXCEPT ![i] = file]
         /\ content' = [content EXCEPT ![file] = None]
  /\ UNCHANGED <<errors, allowed, temp, report, corpus>>

(* write_text opens packages.tmp, which it creates, or truncates if it is  *)
(* there: left by a killed import, or in use by another one.               *)
OpenTemp(i) ==
  /\ Goto(i, "reported", "opened")
  /\ LET file == IF temp = None THEN i ELSE temp
     IN  /\ temp' = file
         /\ fd' = [fd EXCEPT ![i] = file]
         /\ content' = [content EXCEPT ![file] = None]
  /\ UNCHANGED <<errors, allowed, packages, report, corpus>>

(* Another import writes to the open file of i, or has since i opened it.  *)
Shared(i) == content[fd[i]] # None \/ \E j \in Imports \ {i} : fd[j] = fd[i]

(* Two writers of one file may leave the longer one's tail behind the      *)
(* shorter one's text, or a gap where one of them was truncated.           *)
Write(i) ==
  /\ Goto(i, "opened", "written")
  /\ \E text \in IF Shared(i) THEN {i, Torn} ELSE {i} :
       content' = [content EXCEPT ![fd[i]] = text]
  /\ fd' = [fd EXCEPT ![i] = None]
  /\ UNCHANGED <<errors, allowed, temp, packages, report, corpus>>

ReplaceByCopy(i) ==
  /\ packages' = temp
  /\ Goto(i, "written", "replaced")
  /\ UNCHANGED <<errors, allowed, fd, temp, content, report, corpus>>

ReplaceThenReject(i) ==
  /\ packages' = temp /\ temp' = None
  /\ Goto(i, "written", IF errors[i] THEN "rejected" ELSE "replaced")
  /\ UNCHANGED <<errors, allowed, fd, content, report, corpus>>

(* os.replace: packages.json is the file that packages.tmp names by now;   *)
(* without one it raises FileNotFoundError.                                *)
Replace(i) ==
  /\ IF temp = None
       THEN Goto(i, "written", "raised") /\ UNCHANGED <<temp, packages>>
       ELSE Goto(i, "written", "replaced") /\ packages' = temp /\ temp' = None
  /\ UNCHANGED <<errors, allowed, fd, content, report, corpus>>

Return(i) ==
  /\ Goto(i, "replaced", "done")
  /\ UNCHANGED <<errors, allowed, fd, temp, packages, content, report, corpus>>

(* What was written stays in the file.  After os.replace nothing is undone: *)
(* the command ends with an error though its packages are in place.        *)
Stop(i, how) ==
  /\ pc[i] \in Running
  /\ pc' = [pc EXCEPT ![i] = IF pc[i] = "replaced" THEN "cut" ELSE how]
  /\ fd' = [fd EXCEPT ![i] = None]
  /\ IF pc[i] = "opened"
       THEN \E text \in {content[fd[i]], Torn} : content' = [content EXCEPT ![fd[i]] = text]
       ELSE UNCHANGED content
  /\ UNCHANGED <<errors, allowed, temp, packages, report, corpus>>

(* A full disk, an interrupt.                                              *)
Raise(i) == Stop(i, "raised")

Kill(i) == Stop(i, "killed")

(* `index build` parses packages.json before it waits for the writer lock. *)
ReadPackages(b) ==
  /\ corpus[b] = None /\ packages # None
  /\ corpus' = [corpus EXCEPT ![b] =
                  IF content[packages] = None THEN Torn ELSE content[packages]]
  /\ UNCHANGED <<pc, errors, allowed, fd, temp, packages, content, report>>

Next ==
  \/ \E i \in Imports :
       \/ Fetch(i) \/ Report(i) \/ OpenTemp(i) \/ Write(i) \/ Replace(i) \/ Return(i)
       \/ Raise(i) \/ Kill(i)
  \/ \E b \in Builds : ReadPackages(b)

Spec == Init /\ [][Next]_vars

--------------------------------------------------------------------------------
(* Properties.  (ReportRemovingPackages, OpenInPlace, ReplaceByCopy and    *)
(* ReplaceThenReject above are plausible bugs that Next does not use.)     *)

(* packages.json is always the whole output of one import.                 *)
PackagesWhole == packages # None => content[packages] \in Imports

(* An import that fails, up to its os.replace, is not what packages.json   *)
(* holds.                                                                  *)
FailedImportPreserves ==
  \A i \in Imports :
    pc[i] \in {"rejected", "raised"} => packages = None \/ content[packages] # i

(* No build is given the packages of an import that was rejected or failed, *)
(* or a file that it cannot parse.                                         *)
BuildsReadSuccess ==
  \A b \in Builds : corpus[b] # None => corpus[b] \in Imports /\ pc[corpus[b]] \in Committed

(* What became of an import; one that was killed before its os.replace has *)
(* failed.                                                                 *)
Outcome(i) ==
  CASE pc[i] \in Committed -> "succeeded"
    [] pc[i] \in {"rejected", "raised", "killed"} -> "failed"
    [] OTHER -> "pending"

Register == INSTANCE PackagesRegister WITH
  current <- IF packages = None THEN None ELSE content[packages],
  outcome <- [i \in Imports |-> Outcome(i)]

(* Imports replace the packages in one step or not at all, wherever they   *)
(* fail or are killed before it: the packages of the preceding import      *)
(* stay, and are what the next build reads.                                *)
ImplementsRegister == Register!Spec
===============================================================================
