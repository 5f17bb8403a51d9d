---------------------------- MODULE MCInspections ----------------------------
(***************************************************************************)
(* A small instance of Inspections: the two workers of the demo plant, in  *)
(* their order.                                                            *)
(***************************************************************************)
EXTENDS Inspections

CONSTANTS ravi, aarav

MCShopFloor == <<ravi, aarav>>
=============================================================================
