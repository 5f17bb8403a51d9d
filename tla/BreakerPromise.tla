--------------------------- MODULE BreakerPromise ---------------------------
(***************************************************************************)
(* What a circuit breaker promises its callers, with the counters that     *)
(* decide when it opens and closes left out: no call starts while an open  *)
(* window runs, the window has a fixed length, only a failed call (or an   *)
(* operator) opens the breaker, one failure is enough in half-open, and    *)
(* only a successful call (or an operator) closes it.                      *)
(***************************************************************************)
EXTENDS Integers

CONSTANTS Calls, OpenDuration

VARIABLES
    mode,   \* CLOSED, OPEN or HALF_OPEN
    rest,   \* ticks left of the open window
    out,    \* the calls that are out
    report  \* what the last step reported: "success", "failure" or "none"

pvars == <<mode, rest, out, report>>

Init == mode = "CLOSED" /\ rest = 0 /\ out = {} /\ report = "none"

\* A call starts: freely when closed, as a trial once the window is over.
Start(c) ==
    /\ c \notin out
    /\ rest = 0
    /\ mode' = IF mode = "CLOSED" THEN "CLOSED" ELSE "HALF_OPEN"
    /\ out' = out \cup {c}
    /\ report' = "none"
    /\ UNCHANGED rest

\* A call ends well: it may close a half-open breaker and nothing else.
EndWell(c) ==
    /\ c \in out
    /\ out' = out \ {c}
    /\ report' = "success"
    /\ mode' \in IF mode = "HALF_OPEN" THEN {"HALF_OPEN", "CLOSED"} ELSE {mode}
    /\ UNCHANGED rest

\* A call ends badly: a half-open breaker opens at once for a whole window; any
\* other may open, or start its window again.
EndBadly(c) ==
    /\ c \in out
    /\ out' = out \ {c}
    /\ report' = "failure"
    /\ \/ mode' = "OPEN" /\ rest' = OpenDuration
       \/ mode # "HALF_OPEN" /\ UNCHANGED <<mode, rest>>

\* A call ends unreported.
Vanish(c) ==
    /\ c \in out
    /\ out' = out \ {c}
    /\ report' = "none"
    /\ UNCHANGED <<mode, rest>>

\* The operator opens or closes the breaker.
Operate ==
    /\ \/ mode' = "OPEN" /\ rest' = OpenDuration
       \/ mode' = "CLOSED" /\ rest' = 0
    /\ report' = "none"
    /\ UNCHANGED out

\* Time passes.
Wait ==
    /\ rest' = IF rest > 0 THEN rest - 1 ELSE rest
    /\ report' = "none"
    /\ UNCHANGED <<mode, out>>

Next ==
    \/ \E c \in Calls : Start(c) \/ EndWell(c) \/ EndBadly(c) \/ Vanish(c)
    \/ Operate
    \/ Wait

Spec == Init /\ [][Next]_pvars
=============================================================================
