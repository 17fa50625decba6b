----------------------------- MODULE ReplyCosts -----------------------------
(***************************************************************************)
(* The cost of a reply, by every path it can come to the store: captured   *)
(* by the proxy from the stream of StreamParsing, reported over OTLP by a  *)
(* tracing library in one of its dialects, or imported from an export.     *)
(* Pricing turns each into columns and a cost.                             *)
(***************************************************************************)
EXTENDS StreamParsing

CONSTANTS
    Prices, MaxTokens, MaxCost,  \* as in Pricing
    Names,      \* for each vendor what its models may be called, and their true rates
    Dialects,   \* the ways to report a reply over OTLP
    Statements  \* costs that a client may state, or NULL

INSTANCE Pricing

\* needs is what a lookup must know besides the model that was asked for.
ASSUME NamesHaveRates ==
    \A v \in Vendors : \A n \in Names[v] :
        /\ DOMAIN n = {"request", "response", "needs", "rate"}
        /\ n.needs \subseteq {"response", "provider"}

Providers == [anthropic |-> "anthropic", gemini |-> "gcp.gen_ai",
              chat |-> "openai", responses |-> "openai"]

Given(key, value) == IF value = NULL THEN <<>> ELSE key :> value

\* parseExchange: the attributes of a proxied reply.  The model that answered is
\* the one that was asked for if the reply does not tell.
ProxyAttributes(result, name) ==
    LET answered == IF result.id = NULL \/ name.response = NULL THEN name.request
                    ELSE name.response
        cached   == vendor = "anthropic" \/ result.read > 0
        created  == vendor = "anthropic" \/ result.created > 0
        usage    ==
            "gen_ai.usage.input_tokens" :> result.input
            @@ "gen_ai.usage.output_tokens" :> result.output
            @@ Given("gen_ai.usage.cache_read.input_tokens", IF cached THEN result.read ELSE NULL)
            @@ Given("gen_ai.usage.cache_creation.input_tokens",
                     IF created THEN result.created ELSE NULL)
    IN  "gen_ai.provider.name" :> Providers[vendor]
        @@ "gen_ai.operation.name" :> "llm"
        @@ "gen_ai.request.model" :> name.request
        @@ "gen_ai.response.model" :> answered
        @@ IF result.hasUsage THEN usage ELSE <<>>

------------------------------------------------------------------------------
(* What tracing libraries report, by their dialects *)

\* What a dialect has keys for.
Tells ==
    [genai         |-> {"created", "read", "response", "provider"},
     older         |-> {"created", "read", "response", "provider"},
     openinference |-> {"read", "response", "provider"},
     vercel        |-> {"response", "provider"},
     langfuse      |-> {"read"}]

\* The older dialect stands for a library that reports the newer count of the
\* input as -1, which gives way to the older one; gcp.gemini is another name of
\* gcp.gen_ai.
Attributes(dialect, name) ==
    CASE dialect = "genai" ->
            ProxyAttributes([Blank EXCEPT !.id = ReplyId, !.hasUsage = TRUE, !.input = Input,
                                          !.output = Output, !.read = counts.read,
                                          !.created = counts.created], name)
      [] dialect = "older" ->
            "gen_ai.system" :> (IF vendor = "gemini" THEN "gcp.gemini" ELSE Providers[vendor])
            @@ "traceloop.span.kind" :> "unknown"
            @@ "llm.request.type" :> "llm"
            @@ "gen_ai.request.model" :> name.request
            @@ Given("gen_ai.response.model", name.response)
            @@ "gen_ai.usage.input_tokens" :> -1
            @@ "gen_ai.usage.prompt_tokens" :> Input
            @@ "gen_ai.usage.completion_tokens" :> Output
            @@ "gen_ai.usage.cache_read_input_tokens" :> counts.read
            @@ "gen_ai.usage.cache_creation.input_tokens" :> counts.created
      [] dialect = "openinference" ->
            "openinference.span.kind" :> "llm"
            @@ "llm.provider" :> Providers[vendor]
            @@ "llm.model_name" :> name.request
            @@ Given("llm.response.model_name", name.response)
            @@ "llm.token_count.prompt" :> Input
            @@ "llm.token_count.completion" :> Output
            @@ "llm.token_count.prompt_details.cache_read" :> counts.read
      [] dialect = "vercel" ->
            "ai.model.provider" :> Providers[vendor]
            @@ "ai.model.id" :> name.request
            @@ Given("ai.response.model", name.response)
            @@ "ai.usage.promptTokens" :> Input
            @@ "ai.usage.completionTokens" :> Output
      [] dialect = "langfuse" ->
            "langfuse.observation.type" :> "llm"
            @@ "langfuse.observation.model.name" :> name.request
            @@ UsageDetails :>
                  ("input" :> counts.fresh + counts.created
                   @@ Given("input_cached_tokens", IF counts.read > 0 THEN counts.read ELSE NULL)
                   @@ "output" :> Output)

\* The dialect says all that the cost depends on.
CanTell(dialect, name) ==
    /\ name.needs \subseteq Tells[dialect]
    /\ counts.read > 0 => "read" \in Tells[dialect]
    /\ counts.created > 0 => "created" \in Tells[dialect]

------------------------------------------------------------------------------
(* Exports *)

\* What GET /export has of a span, which POST /import reads: not the tokens
\* written to the cache (json:"-").
Exported(span) == [span EXCEPT !.created = NULL]

Unpriced(span) == [span EXCEPT !.cost = NULL]

------------------------------------------------------------------------------
(* Properties *)

\* What the reply costs: every token once, at the rate of its place.
Charge(name, output) ==
    counts.fresh * name.rate.input + counts.read * name.rate.read
    + counts.created * name.rate.created + output * name.rate.output

TrueCost(name) ==
    IF name.rate = NULL \/ ~ {Input, Output} \subseteq 0 .. MaxTokens THEN NULL
    ELSE IF Charge(name, Output) <= MaxCost THEN Charge(name, Output) ELSE NULL

Captured(name) == Priced("proxy", Span(ProxyAttributes(Parsed, name)))

\* Of one reply, the span captured from its stream, those that libraries report
\* of it in any dialect that can tell, and those imported from exports of them with
\* or without their cost, all have the same cost: every token once, at its own rate
\* (web/cost_entry_test.go: the same usage costs the same).  A cost that a client
\* states is kept on every path.
PricedAlike ==
    phase = "end" =>
        \A name \in Names[vendor] :
            LET reported == {Priced("otlp", Span(Attributes(d, name))) :
                                d \in {e \in Dialects : CanTell(e, name)}}
                imported == {Priced("import", Exported(s)) : s \in reported}
                             \cup {Priced("import", Unpriced(Exported(s))) :
                                      s \in reported \cup {Captured(name)}}
            IN  /\ \A s \in {Captured(name)} \cup reported \cup imported :
                      s.cost = TrueCost(name)
                /\ \A d \in Dialects :
                      LET told == Attributes(d, name)
                      IN  \A stated \in Statements :
                             LET attrs == CostDetails :> stated.details
                                          @@ TotalCost :> stated.total @@ told
                                 span  == Span(attrs)
                             IN  IF stated.refused THEN ~ Accepted(attrs)
                                 ELSE /\ Accepted(attrs)
                                      /\ Priced("otlp", span).cost = stated.cost
                                      /\ Priced("import", Exported(span)).cost = stated.cost

\* Wherever the stream ends, whatever reports of its usage came and however often,
\* the reply is not charged more than all of it costs, and not at all if its model
\* has no price; its cached tokens are among those of the input.
NeverOvercharged ==
    /\ Parsed.read + Parsed.created <= Parsed.input
    /\ \A name \in Names[vendor] :
           Captured(name).cost # NULL =>
               /\ name.rate # NULL
               /\ Captured(name).cost <=
                     Charge(name, counts.thought
                                  + FoldFunction(+, 0, [i \in DOMAIN reply |-> Len(reply[i].body)]))

==============================================================================
