------------------------- MODULE MCVerdictPipeline -------------------------
(***************************************************************************)
(* The demo plant's rates (WHEEL_COST_MODEL in src/apps/api/main.py, in    *)
(* hundreds of rupees), for one unit and for scopes at which the supervisor*)
(* threshold and the line halt come into play.                             *)
(***************************************************************************)
EXTENDS VerdictPipeline

Wheel(scope, halt) ==
    [rework |-> 32 * scope, scrap |-> 115 * scope, escape |-> 132 * scope,
     hold |-> 3 * scope, halt |-> halt]

\* 2.4 hours of halt (the default) are 5040; 0.02 hours are 42, less than
\* holding 18 units is.
MCMarkets == {Wheel(1, 5040), Wheel(12, 5040), Wheel(18, 42), Wheel(1, NoHalt)}
=============================================================================
