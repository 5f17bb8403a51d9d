-------------------------- MODULE MCInspectionReads --------------------------
(***************************************************************************)
(* The instance of run storage: three inspections, the newest and the      *)
(* oldest of the caller's station, and two documents with one file name.   *)
(***************************************************************************)
EXTENDS InspectionReads

MCInspections == {1, 2, 3}
MCOwnStation == {1, 3}
MCAsked == {1, 2}
MCDocuments == {4, 5}
MCNameOf == <<1, 2, 3, 4, 4>>

CallerSymmetry == Permutations(Callers)
=============================================================================
