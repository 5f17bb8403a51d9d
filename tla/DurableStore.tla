---------------------------- MODULE DurableStore ----------------------------
(***************************************************************************)
(* What a repository or document store promises its callers, whichever     *)
(* tier of open_storage() it is on (src/src/forge/application/ports and    *)
(* the tests that every adapter passes, src/tests/persistence): a write    *)
(* takes effect at one moment between the call and its return, entirely or *)
(* not at all; one that returned has taken effect; and nothing is lost but *)
(* what the tier is known to lose.                                         *)
(*                                                                         *)
(* What a tier is known to lose: MongoDB nothing; the file store the other *)
(* documents whose key makes the same file name; the process's memory, the *)
(* oldest record when there are too many, and everything when it ends.     *)
(***************************************************************************)
EXTENDS Naturals, FiniteSets

CONSTANTS
    Keys,           \* correlation ids and document keys
    Inspections,    \* the correlation ids: what the memory evicts
    Values,         \* what is written
    Callers,        \* the coroutines that write
    NameOf,         \* NameOf[k]: the file name made of k
    MaxRecords      \* how many records the memory holds

Tiers == {"mongo", "file", "ephemeral"}

VARIABLES
    mode,           \* the tier in use, or "none" after a boot that failed
    kept,           \* kept[t][k]: what tier t has for k, 0 when it has nothing
    calls           \* calls[c]: what c asked for, and whether it took effect

vars == <<mode, kept, calls>>

Idle == [phase |-> "idle", key |-> 0, value |-> 0]

Init ==
    /\ mode \in Tiers \cup {"none"}
    /\ kept = [t \in Tiers |-> [k \in Keys |-> 0]]
    /\ calls = [c \in Callers |-> Idle]

Ask(c) ==
    /\ mode \in Tiers
    /\ calls[c] = Idle
    /\ UNCHANGED <<mode, kept>>
    /\ \E k \in Keys, v \in Values :
         calls' = [calls EXCEPT ![c] = [phase |-> "asked", key |-> k, value |-> v]]

Held == {k \in Inspections : kept[mode][k] # 0}

\* What may go when k is written.
MayGo(k) ==
    CASE mode = "mongo"     -> {}
      [] mode = "file"      -> {j \in Keys \ {k} : NameOf[j] = NameOf[k]}
      [] mode = "ephemeral" -> IF /\ k \in Inspections
                                  /\ Cardinality(Held \cup {k}) > MaxRecords
                               THEN Held \ {k} ELSE {}

TakeEffect(c) ==
    /\ mode \in Tiers
    /\ calls[c].phase = "asked"
    /\ calls' = [calls EXCEPT ![c].phase = "applied"]
    /\ \E gone \in SUBSET MayGo(calls[c].key) :
         kept' = [kept EXCEPT ![mode] =
                    [k \in Keys |-> IF k = calls[c].key THEN calls[c].value
                                    ELSE IF k \in gone THEN 0 ELSE kept[mode][k]]]
    /\ UNCHANGED mode

\* The call returns: it took effect.
Return(c) ==
    /\ calls[c].phase = "applied"
    /\ calls' = [calls EXCEPT ![c] = Idle]
    /\ UNCHANGED <<mode, kept>>

\* The call raises: nothing is known of it, but of no other write either.
Raise(c) ==
    /\ calls[c].phase \in {"asked", "applied"}
    /\ calls' = [calls EXCEPT ![c] = Idle]
    /\ UNCHANGED <<mode, kept>>

\* The process ends and boots, on whichever tier it finds.
Reboot ==
    /\ mode' \in Tiers \cup {"none"}
    /\ calls' = [c \in Callers |-> Idle]
    /\ kept' = [kept EXCEPT !["ephemeral"] = [k \in Keys |-> 0]]

Next ==
    \/ \E c \in Callers : Ask(c) \/ TakeEffect(c) \/ Return(c) \/ Raise(c)
    \/ Reboot

Spec == Init /\ [][Next]_vars
=============================================================================
