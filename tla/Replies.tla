------------------------------- MODULE Replies -------------------------------
(***************************************************************************)
(* Both ends of LLMService: the chains that config/models.yaml and the     *)
(* environment leave over (src/src/forge/infrastructure/llm/config.py),    *)
(* and what the three callers of generate() - narrate() in the verdict     *)
(* graph, the chat endpoint and the image endpoint - tell the user of its  *)
(* outcome.                                                                *)
(*                                                                         *)
(* Each caller asks a tier of its own, so the tier of an answer says whose *)
(* it is.  What a reply says is abstracted to its provenance: who wrote it *)
(* and what went less than well.                                           *)
(***************************************************************************)
EXTENDS LLMService, SequencesExt

\* ModelTier: the tiers that models.yaml may declare.
ASSUME RepliesAssumption == Tiers \subseteq {"reasoning", "fast", "vision"}

-----------------------------------------------------------------------------
(* load(): an entry of a tier is an endpoint, whether its provider's gate  *)
(* is open (enabled_if names a variable that is set), and whether it has   *)
(* what a call needs (is_configured).                                      *)

Offered(entry) ==
    entry.enabled /\ (entry.endpoint \in FakeEndpoints \/ entry.configured)

\* Entries that resolve to the same (provider, model) count once, at the place
\* of the first: an override that repeats a model further down keeps the head.
ChainOf(entries) ==
    FoldLeft(LAMBDA chain, entry :
                 IF Offered(entry) /\ ~Contains(chain, entry.endpoint)
                 THEN Append(chain, entry.endpoint)
                 ELSE chain,
             <<>>, entries)

-----------------------------------------------------------------------------
(* The replies.                                                            *)

Reply(source, degradations) == [source |-> source, degradations |-> degradations]

\* Mutant of FromModel: whatever the chain hands out counts as a model's.
FromAnyone(completion) == TRUE

\* The stand-in of the chain is marked, and nothing else is.
FromModel(completion) == "rule_engine_fallback" \notin completion.degradations

Unreachable == {"llm_unavailable"}

\* What a reply that is made of the text itself says of it.
Credited(completion, standIn) ==
    Reply(IF FromModel(completion) THEN "llm" ELSE standIn,
          completion.degradations)

\* chat(): an LLMError is answered from the records in view.
ChatReplies(outcome) ==
    CASE outcome.outcome = "completion"  -> {Credited(outcome, "rule")}
      [] outcome.outcome = "unavailable" -> {Reply("rule", Unreachable)}
      [] OTHER -> {}

\* analyze_image(): without a model the picture is measured instead, and so it is
\* when the model's text is not JSON.
VisionReplies(outcome) ==
    CASE outcome.outcome = "completion" ->
           {Credited(outcome, "measured"),
            Reply("measured", IF FromModel(outcome) THEN {"llm_tier_downgrade"}
                                                    ELSE outcome.degradations)}
      [] outcome.outcome = "unavailable" -> {Reply("measured", Unreachable)}
      [] OTHER -> {}

\* narrate(): the deterministic reasoning stands in for an answer that failed or
\* took too long, and for one without the shape asked for.
Narratives(outcome) ==
    IF outcome.outcome = "completion"
    THEN {Credited(outcome, "rule"), Reply("rule", Unreachable)}
    ELSE {Reply("rule", Unreachable)}

\* What the caller behind the tier may tell the user of the outcome of generate().
Told(outcome) ==
    IF outcome.outcome = "none"
    THEN {}
    ELSE CASE outcome.ask.tier = "fast"      -> ChatReplies(outcome)
           [] outcome.ask.tier = "vision"    -> VisionReplies(outcome)
           [] outcome.ask.tier = "reasoning" -> Narratives(outcome)

-----------------------------------------------------------------------------
\* No reply claims more than it has: one that names a model as its source was
\* written by an endpoint behind the network, for the tier, the pack and the prompt
\* that were asked, and shows what happened on the way; and whatever else took a
\* model's place - the fake adapter's text, fresh or out of the cache, the records,
\* the measured picture, the deterministic reasoning - says that something was
\* degraded.
RepliesOwnUp ==
    \A reply \in Told(answer) :
        IF reply.source = "llm"
        THEN /\ EndpointOf(answer) \notin FakeEndpoints
             /\ AnswersThePrompt
             /\ answer.stop # 1 \/ answer.fromCache \/ answer.truncated
                  => reply.degradations # {}
        ELSE reply.degradations # {}
=============================================================================
