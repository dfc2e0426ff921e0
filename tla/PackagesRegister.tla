--------------------------- MODULE PackagesRegister ---------------------------
(***************************************************************************)
(* What `specsearch import` promises, without files and their names: each  *)
(* import replaces the packages of the workspace whole, in one step, or    *)
(* fails and leaves those of its predecessor (README.md of the repository);*)
(* a build is given the packages of one import.                            *)
(***************************************************************************)
CONSTANTS
  Imports, \* the imports, each with its own packages
  Builds,  \* the builds that read packages
  None     \* no packages

VARIABLES
  current, \* the import whose packages the workspace holds, or None
  outcome, \* what became of each import
  corpus   \* the import whose packages a build was given, or None

vars == <<current, outcome, corpus>>

Init ==
  /\ current = None
  /\ outcome = [i \in Imports |-> "pending"]
  /\ corpus = [b \in Builds |-> None]

End(i, how) ==
  /\ outcome[i] = "pending"
  /\ outcome' = [outcome EXCEPT ![i] = how]

(* The one step at which the packages of an import replace the others.     *)
Succeed(i) ==
  /\ End(i, "succeeded")
  /\ current' = i
  /\ UNCHANGED corpus

Fail(i) ==
  /\ End(i, "failed")
  /\ UNCHANGED <<current, corpus>>

Read(b) ==
  /\ current # None /\ corpus[b] = None
  /\ corpus' = [corpus EXCEPT ![b] = current]
  /\ UNCHANGED <<current, outcome>>

Next ==
  \/ \E i \in Imports : Succeed(i) \/ Fail(i)
  \/ \E b \in Builds : Read(b)

Spec == Init /\ [][Next]_vars
===============================================================================
