--------------------------- MODULE Workspace_proofs ---------------------------
(***************************************************************************)
(* Proofs about Workspace, for any number of imports and builds: what      *)
(* holds of all imports, and what holds when no two of them overlap.       *)
(***************************************************************************)
EXTENDS Workspace, TLAPS

(* The file of an import that has not opened one yet will be a new one, so *)
(* that packages.tmp and packages.json are different files, as TypeOK says. *)
FileInv ==
  \A i \in Imports :
    /\ pc[i] \in {"idle", "fetched", "reported"} => temp # i /\ packages # i
    /\ fd[i] # None <=> pc[i] = "opened"

(* No file holds, and no build has read, the packages of an import that    *)
(* has not written them: those of a rejected one are nowhere.              *)
RejectedInv ==
  \A i \in Imports :
    pc[i] \notin {"written", "raised", "killed"} \cup Committed =>
      /\ \A file \in Imports : content[file] # i
      /\ \A b \in Builds : corpus[b] # i

AnyInv == TypeOK /\ FileInv /\ RejectedInv

(* When imports do not overlap.                                            *)
SoloInv == \A i, j \in Imports : pc[i] \in Running /\ pc[j] \in Running => i = j

(* The running import has packages.tmp open and empty, and then its text   *)
(* in it.                                                                  *)
WriterInv ==
  \A i \in Imports :
    /\ pc[i] = "opened" => temp # None /\ fd[i] = temp /\ content[temp] = None
    /\ pc[i] = "written" => temp # None /\ content[temp] = i

(* What packages.json holds, and what builds have read, is the text of an  *)
(* import that has replaced packages.json.                                 *)
OutcomeInv ==
  /\ packages # None => content[packages] \in Imports /\ pc[content[packages]] \in Committed
  /\ BuildsReadSuccess

IInv == AnyInv /\ SoloInv /\ WriterInv /\ OutcomeInv

--------------------------------------------------------------------------------
LEMMA InvInit == Init => IInv
<1> SUFFICES ASSUME Init PROVE IInv
  OBVIOUS
<1>1. TypeOK
  BY WorkspaceAssumption DEF Init, TypeOK, Running
<1>2. FileInv /\ RejectedInv /\ SoloInv /\ WriterInv
  BY WorkspaceAssumption DEF Init, FileInv, RejectedInv, SoloInv, WriterInv, Running, Committed
<1>3. OutcomeInv
  BY DEF Init, OutcomeInv, BuildsReadSuccess
<1> QED  BY <1>1, <1>2, <1>3 DEF IInv, AnyInv

LEMMA TypeStep == ASSUME AnyInv, [Next]_vars PROVE TypeOK'
<1> USE WorkspaceAssumption DEF AnyInv, TypeOK, Running
<1>1. ASSUME NEW i \in Imports, Fetch(i) PROVE TypeOK'
  BY <1>1 DEF Fetch, Goto
<1>2. ASSUME NEW i \in Imports, Report(i) PROVE TypeOK'
  BY <1>2 DEF Report, Goto
<1>3. ASSUME NEW i \in Imports, OpenTemp(i) PROVE TypeOK'
  BY <1>3 DEF OpenTemp, Goto, FileInv
<1>4. ASSUME NEW i \in Imports, Write(i) PROVE TypeOK'
  BY <1>4 DEF Write, Shared, Goto, FileInv
<1>5. ASSUME NEW i \in Imports, Replace(i) \/ Return(i) PROVE TypeOK'
  BY <1>5 DEF Replace, Return, Goto
<1>6. ASSUME NEW i \in Imports, Raise(i) \/ Kill(i) PROVE TypeOK'
  BY <1>6 DEF Raise, Kill, Stop
<1>7. ASSUME NEW b \in Builds, ReadPackages(b) PROVE TypeOK'
  BY <1>7 DEF ReadPackages
<1>8. CASE UNCHANGED vars
  BY <1>8 DEF vars
<1> QED
  BY <1>1, <1>2, <1>3, <1>4, <1>5, <1>6, <1>7, <1>8 DEF Next

LEMMA FileStep == ASSUME AnyInv, [Next]_vars PROVE FileInv'
<1> USE WorkspaceAssumption DEF AnyInv, TypeOK, FileInv, Running
<1>1. ASSUME NEW i \in Imports, Fetch(i) PROVE FileInv'
  BY <1>1 DEF Fetch, Goto
<1>2. ASSUME NEW i \in Imports, Report(i) PROVE FileInv'
  BY <1>2 DEF Report, Goto
<1>3. ASSUME NEW i \in Imports, OpenTemp(i) PROVE FileInv'
  BY <1>3 DEF OpenTemp, Goto
<1>4. ASSUME NEW i \in Imports, Write(i) PROVE FileInv'
  BY <1>4 DEF Write, Goto
<1>5. ASSUME NEW i \in Imports, Replace(i) \/ Return(i) PROVE FileInv'
  BY <1>5 DEF Replace, Return, Goto
<1>6. ASSUME NEW i \in Imports, Raise(i) \/ Kill(i) PROVE FileInv'
  BY <1>6 DEF Raise, Kill, Stop
<1>7. CASE UNCHANGED <<pc, fd, temp, packages>>
  BY <1>7
<1> QED
  BY <1>1, <1>2, <1>3, <1>4, <1>5, <1>6, <1>7 DEF Next, ReadPackages, vars

(* Only Write puts the packages of an import into a file.                  *)
LEMMA RejectedStep == ASSUME AnyInv, [Next]_vars PROVE RejectedInv'
<1> USE WorkspaceAssumption DEF AnyInv, TypeOK, RejectedInv, Running, Committed
<1>1. ASSUME NEW i \in Imports, Fetch(i) PROVE RejectedInv'
  BY <1>1 DEF Fetch, Goto
<1>2. ASSUME NEW i \in Imports, Report(i) PROVE RejectedInv'
  BY <1>2 DEF Report, Goto
<1>3. ASSUME NEW i \in Imports, OpenTemp(i) PROVE RejectedInv'
  BY <1>3 DEF OpenTemp, Goto
<1>4. ASSUME NEW i \in Imports, Write(i) PROVE RejectedInv'
  BY <1>4 DEF Write, Goto
<1>5. ASSUME NEW i \in Imports, Replace(i) \/ Return(i) PROVE RejectedInv'
  BY <1>5 DEF Replace, Return, Goto
<1>6. ASSUME NEW i \in Imports, Raise(i) \/ Kill(i) PROVE RejectedInv'
  BY <1>6 DEF Raise, Kill, Stop
<1>7. ASSUME NEW b \in Builds, ReadPackages(b) PROVE RejectedInv'
  BY <1>7 DEF ReadPackages
<1>8. CASE UNCHANGED vars
  BY <1>8 DEF vars
<1> QED
  BY <1>1, <1>2, <1>3, <1>4, <1>5, <1>6, <1>7, <1>8 DEF Next

LEMMA AnyInvariance == Spec => []AnyInv
<1>1. AnyInv /\ [Next]_vars => AnyInv'
  BY TypeStep, FileStep, RejectedStep DEF AnyInv
<1>2. Init => AnyInv
  BY InvInit DEF IInv
<1> QED  BY <1>1, <1>2, PTL DEF Spec

(* Only Fetch starts an import, and it does so when none is running.       *)
LEMMA SoloStep == ASSUME ImportsAlone = TRUE, IInv, [Next]_vars PROVE SoloInv'
<1> USE DEF IInv, AnyInv, TypeOK, SoloInv, Running
<1>1. ASSUME NEW i \in Imports, Fetch(i) PROVE SoloInv'
  BY <1>1 DEF Fetch, Goto
<1>2. ASSUME NEW i \in Imports, Report(i) PROVE SoloInv'
  BY <1>2 DEF Report, Goto
<1>3. ASSUME NEW i \in Imports, OpenTemp(i) \/ Write(i) PROVE SoloInv'
  BY <1>3 DEF OpenTemp, Write, Goto
<1>4. ASSUME NEW i \in Imports, Replace(i) \/ Return(i) PROVE SoloInv'
  BY <1>4 DEF Replace, Return, Goto
<1>5. ASSUME NEW i \in Imports, Raise(i) \/ Kill(i) PROVE SoloInv'
  BY <1>5 DEF Raise, Kill, Stop
<1>6. CASE UNCHANGED pc
  BY <1>6
<1> QED
  BY <1>1, <1>2, <1>3, <1>4, <1>5, <1>6 DEF Next, ReadPackages, vars

(* The file of the one running import is written by no other.              *)
LEMMA WriterStep == ASSUME ImportsAlone = TRUE, IInv, [Next]_vars PROVE WriterInv'
<1> USE WorkspaceAssumption DEF IInv, AnyInv, TypeOK, WriterInv, SoloInv, Running
<1>1. ASSUME NEW i \in Imports, Fetch(i) PROVE WriterInv'
  BY <1>1 DEF Fetch, Goto
<1>2. ASSUME NEW i \in Imports, Report(i) PROVE WriterInv'
  BY <1>2 DEF Report, Goto
<1>3. ASSUME NEW i \in Imports, OpenTemp(i) PROVE WriterInv'
  BY <1>3 DEF OpenTemp, Goto
<1>4. ASSUME NEW i \in Imports, Write(i) PROVE WriterInv'
  BY <1>4 DEF Write, Shared, Goto, FileInv
<1>5. ASSUME NEW i \in Imports, Replace(i) \/ Return(i) PROVE WriterInv'
  BY <1>5 DEF Replace, Return, Goto
<1>6. ASSUME NEW i \in Imports, Raise(i) \/ Kill(i) PROVE WriterInv'
  BY <1>6 DEF Raise, Kill, Stop
<1>7. CASE UNCHANGED <<pc, fd, temp, content>>
  BY <1>7
<1> QED
  BY <1>1, <1>2, <1>3, <1>4, <1>5, <1>6, <1>7 DEF Next, ReadPackages, vars

(* An import that is done stays so; the file that packages.json names is   *)
(* never opened again, and the next one it names is whole.                 *)
LEMMA OutcomeStep == ASSUME ImportsAlone = TRUE, IInv, [Next]_vars PROVE OutcomeInv'
<1> USE WorkspaceAssumption DEF IInv, AnyInv, TypeOK, OutcomeInv, BuildsReadSuccess, Running, Committed
<1>1. ASSUME NEW i \in Imports, Fetch(i) PROVE OutcomeInv'
  BY <1>1 DEF Fetch, Goto
<1>2. ASSUME NEW i \in Imports, Report(i) PROVE OutcomeInv'
  BY <1>2 DEF Report, Goto
<1>3. ASSUME NEW i \in Imports, OpenTemp(i) PROVE OutcomeInv'
  BY <1>3 DEF OpenTemp, Goto, FileInv
<1>4. ASSUME NEW i \in Imports, Write(i) PROVE OutcomeInv'
  BY <1>4 DEF Write, Shared, Goto, WriterInv
<1>5. ASSUME NEW i \in Imports, Replace(i) \/ Return(i) PROVE OutcomeInv'
  BY <1>5 DEF Replace, Return, Goto, WriterInv
<1>6. ASSUME NEW i \in Imports, Raise(i) \/ Kill(i) PROVE OutcomeInv'
  <2>1. /\ packages' = packages /\ corpus' = corpus
        /\ \A j \in Imports : pc[j] \in Committed => pc'[j] \in Committed
    BY <1>6 DEF Raise, Kill, Stop
  <2>2. packages # None => content'[packages] = content[packages]
    BY <1>6 DEF Raise, Kill, Stop, WriterInv
  <2> QED  BY <2>1, <2>2
<1>7. ASSUME NEW b \in Builds, ReadPackages(b) PROVE OutcomeInv'
  BY <1>7 DEF ReadPackages
<1>8. CASE UNCHANGED vars
  BY <1>8 DEF vars
<1> QED
  BY <1>1, <1>2, <1>3, <1>4, <1>5, <1>6, <1>7, <1>8 DEF Next

LEMMA Invariance == ASSUME ImportsAlone = TRUE PROVE Spec => []IInv
<1>1. IInv /\ [Next]_vars => IInv'
  BY TypeStep, FileStep, RejectedStep, SoloStep, WriterStep, OutcomeStep DEF IInv, AnyInv
<1> QED  BY <1>1, InvInit, PTL DEF Spec

--------------------------------------------------------------------------------
(* Every variable keeps its type, whether or not imports overlap.          *)
THEOREM TypeCorrect == Spec => []TypeOK
<1>1. AnyInv => TypeOK
  BY DEF AnyInv
<1> QED  BY <1>1, AnyInvariance, PTL

(* What a rejected import has fetched is in no file and in no build, and   *)
(* packages.json does not hold it, even if imports overlap.                *)
THEOREM RejectedStaysOut ==
  Spec => [](\A i \in Imports : pc[i] = "rejected" =>
               /\ packages = None \/ content[packages] # i
               /\ \A b \in Builds : corpus[b] # i)
<1>1. AnyInv => \A i \in Imports : pc[i] = "rejected" =>
                  /\ packages = None \/ content[packages] # i
                  /\ \A b \in Builds : corpus[b] # i
  BY DEF AnyInv, TypeOK, RejectedInv, Committed
<1> QED  BY <1>1, AnyInvariance, PTL

(* packages.json is never half an output, wherever imports end or are      *)
(* killed.                                                                 *)
THEOREM PackagesAreWhole == ASSUME ImportsAlone = TRUE PROVE Spec => []PackagesWhole
<1>1. IInv => PackagesWhole
  BY DEF IInv, OutcomeInv, PackagesWhole
<1> QED  BY <1>1, Invariance, PTL

(* An import that is rejected, or raises up to its os.replace, leaves the  *)
(* packages of its predecessor.                                            *)
THEOREM FailuresPreserve == ASSUME ImportsAlone = TRUE PROVE Spec => []FailedImportPreserves
<1>1. IInv => FailedImportPreserves
  BY DEF IInv, OutcomeInv, FailedImportPreserves, Committed
<1> QED  BY <1>1, Invariance, PTL

(* Whatever a build reads was written by an import that has replaced       *)
(* packages.json.                                                          *)
THEOREM BuildsAreGivenSuccess == ASSUME ImportsAlone = TRUE PROVE Spec => []BuildsReadSuccess
<1>1. IInv => BuildsReadSuccess
  BY DEF IInv, OutcomeInv
<1> QED  BY <1>1, Invariance, PTL

--------------------------------------------------------------------------------
(* The refinement: os.replace is the register's Succeed, an import that    *)
(* fails anywhere before it is Fail, and everything else stutters.         *)

LEMMA RegisterInit == Init => Register!Init
BY WorkspaceAssumption DEF Init, Outcome, Committed, Register!Init

(* What packages.json holds, with the register's name for it.              *)
Current == IF packages = None THEN None ELSE content[packages]

(* Nothing is decided before os.replace.                                   *)
Pending == {"idle", "fetched", "reported", "opened", "written"}

(* An import that moves on before its os.replace is still pending, one that *)
(* ends or replaces was pending until then, and one that has replaced has   *)
(* succeeded however it ends.                                              *)
LEMMA OutcomeMoves ==
  ASSUME TypeOK, NEW i \in Imports, NEW to, pc' = [pc EXCEPT ![i] = to]
  PROVE  /\ pc[i] \in Pending /\ to \in Pending =>
              [j \in Imports |-> Outcome(j)]' = [j \in Imports |-> Outcome(j)]
         /\ pc[i] \in Committed /\ to \in Committed =>
              [j \in Imports |-> Outcome(j)]' = [j \in Imports |-> Outcome(j)]
         /\ pc[i] \in Pending /\ to = "replaced" => Register!End(i, "succeeded")
         /\ pc[i] \in Pending /\ to \in {"rejected", "raised", "killed"} =>
              Register!End(i, "failed")
BY DEF TypeOK, Pending, Running, Committed, Outcome, Register!End

LEMMA RegisterStep ==
  ASSUME ImportsAlone = TRUE, IInv, [Next]_vars PROVE [Register!Next]_(Register!vars)
<1> USE WorkspaceAssumption DEF IInv, AnyInv, Pending, Running, Committed
<1>1. ASSUME NEW i \in Imports, Fetch(i) PROVE UNCHANGED Register!vars
  BY <1>1, OutcomeMoves DEF Fetch, Goto, Register!vars
<1>2. ASSUME NEW i \in Imports, Report(i) PROVE Register!Fail(i) \/ UNCHANGED Register!vars
  BY <1>2, OutcomeMoves DEF Report, Goto, Register!Fail, Register!vars
<1>3. ASSUME NEW i \in Imports, OpenTemp(i) PROVE UNCHANGED Register!vars
  <2>1. Current' = Current
    BY <1>3 DEF OpenTemp, Goto, Current, TypeOK, FileInv
  <2> QED  BY <1>3, <2>1, OutcomeMoves DEF OpenTemp, Goto, Current, Register!vars
<1>4. ASSUME NEW i \in Imports, Write(i) PROVE UNCHANGED Register!vars
  <2>1. Current' = Current
    BY <1>4 DEF Write, Shared, Goto, Current, TypeOK, WriterInv
  <2> QED  BY <1>4, <2>1, OutcomeMoves DEF Write, Goto, Current, Register!vars
<1>5. ASSUME NEW i \in Imports, Replace(i) PROVE Register!Succeed(i)
  <2>1. temp # None /\ pc' = [pc EXCEPT ![i] = "replaced"] /\ packages' = temp /\ content[temp] = i
    BY <1>5 DEF Replace, Goto, WriterInv
  <2>2. Current' = i
    BY <1>5, <2>1 DEF Replace, Current
  <2>3. Register!End(i, "succeeded")
    BY <1>5, <2>1, OutcomeMoves DEF Replace, Goto
  <2> QED  BY <1>5, <2>2, <2>3 DEF Replace, Current, Register!Succeed
<1>6. ASSUME NEW i \in Imports, Raise(i) \/ Kill(i)
      PROVE  Register!Fail(i) \/ UNCHANGED Register!vars
  <2>1. Current' = Current
    BY <1>6 DEF Raise, Kill, Stop, Current, TypeOK, WriterInv
  <2> QED  BY <1>6, <2>1, OutcomeMoves DEF Raise, Kill, Stop, Current, Register!Fail, Register!vars
<1>9. ASSUME NEW i \in Imports, Return(i) PROVE UNCHANGED Register!vars
  BY <1>9, OutcomeMoves DEF Return, Goto, Register!vars
<1>7. ASSUME NEW b \in Builds, ReadPackages(b) PROVE Register!Read(b)
  <2>1. packages # None /\ content[packages] \in Imports
    BY <1>7 DEF ReadPackages, OutcomeInv
  <2>2. [j \in Imports |-> Outcome(j)]' = [j \in Imports |-> Outcome(j)]
    BY <1>7 DEF ReadPackages, Outcome
  <2> QED  BY <1>7, <2>1, <2>2 DEF ReadPackages, Register!Read
<1>8. CASE UNCHANGED vars
  BY <1>8 DEF vars, Outcome, Register!vars
<1> QED
  BY <1>1, <1>2, <1>3, <1>4, <1>5, <1>6, <1>7, <1>8, <1>9 DEF Next, Register!Next

(* If imports do not overlap, the files implement the register: an import  *)
(* replaces the packages in one step or leaves those of its predecessor.   *)
THEOREM WorkspaceImplementsRegister == ASSUME ImportsAlone = TRUE PROVE Spec => ImplementsRegister
BY RegisterInit, RegisterStep, Invariance, PTL DEF Spec, ImplementsRegister, Register!Spec
===============================================================================
