------------------------------ MODULE MCSession ------------------------------
(***************************************************************************)
(* A small instance of Session, in which the functions of the page that    *)
(* wait are interchangeable.                                               *)
(***************************************************************************)
EXTENDS Session, TLC

Symmetry == Permutations(Tasks)
=============================================================================
