---------------------------- MODULE MCLLMService ----------------------------
(***************************************************************************)
(* A small configuration of Replies, shaped like config/models.yaml: two   *)
(* models of one provider and the fake adapter.  The reasoning chain has   *)
(* one model and, to make the downgrade reachable, no fake adapter of its  *)
(* own; the fast chain is the other model and the fake adapter; the vision *)
(* chain shares that model and has no fake adapter.  MCAsks asks the same  *)
(* prompt of every tier, MCImages asks it about two images.                *)
(***************************************************************************)
EXTENDS Replies

CONSTANTS m1, m2, fk

MCEndpoints == {m1, m2, fk}

MCProviderOf == [e \in MCEndpoints |-> IF e = fk THEN "fake" ELSE "tcs"]

MCChain == [reasoning |-> <<m1>>, fast |-> <<m2, fk>>, vision |-> <<m2>>]

MCAsks == {[tier |-> t, pack |-> "p", prompt |-> "q", image |-> "none"] :
             t \in {"reasoning", "fast", "vision"}}

MCImages == {[tier |-> "vision", pack |-> "vision_analysis", prompt |-> "q",
              image |-> i] : i \in {"rim", "hub"}}

-----------------------------------------------------------------------------
Entry(e) == [endpoint |-> e, enabled |-> TRUE, configured |-> TRUE]

\* Entries with a repeated model, a provider that is switched off, a model without
\* a key, and a fake adapter, which needs none.
MCEntries ==
    [reasoning |-> <<Entry(m1), Entry(m1), [Entry(m2) EXCEPT !.configured = FALSE]>>,
     fast      |-> <<Entry(m2), [Entry(m1) EXCEPT !.enabled = FALSE],
                     [Entry(fk) EXCEPT !.configured = FALSE]>>,
     vision    |-> <<Entry(m2), Entry(m2)>>]

\* The chains are what load() makes of these entries.
ASSUME ChainsAreLoaded ==
    \A t \in DOMAIN MCChain : MCChain[t] = ChainOf(MCEntries[t])
=============================================================================
