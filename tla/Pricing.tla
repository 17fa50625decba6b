------------------------------- MODULE Pricing -------------------------------
(***************************************************************************)
(* What a span costs: how the usage that tracing libraries report becomes  *)
(* the columns of a span (internal/normalize), which spans are priced, by  *)
(* the path they came (internal/pipeline), and at what price               *)
(* (internal/pricing).                                                     *)
(*                                                                         *)
(* Attributes are functions from the keys of the source.  A name is its    *)
(* provider prefix and its base, and an empty string is NULL.  The value   *)
(* of a kind attribute is the kind its table has for it, or "unknown".     *)
(* Prices are whole numbers of some small unit: rounding is left out.      *)
(***************************************************************************)
EXTENDS Integers, Sequences, FiniteSets, SequencesExt, Functions, TLC

CONSTANTS
    Prices,     \* model_prices.json: from names to prices, NULL for one it lacks
    MaxTokens,  \* config.MaxTokens
    MaxCost,    \* config.MaxCostUSD
    NULL        \* nil, an empty string, or a value of the wrong type

------------------------------------------------------------------------------
(* internal/pricing *)

\* loadFrom: entries without both prices are left out.
Table ==
    [name \in {n \in DOMAIN Prices : NULL \notin {Prices[n].input, Prices[n].output}} |->
        Prices[name]]

Name(prefix, base) == [prefix |-> prefix, base |-> base]

\* The providers that the table of prices names otherwise.
ProviderAliases ==
    "aws.bedrock" :> "bedrock" @@ "gcp.vertex_ai" :> "vertex_ai"
    @@ "gcp.gemini" :> "gemini" @@ "gcp.gen_ai" :> "gemini"
    @@ "azure.ai.openai" :> "azure" @@ "azure.ai.inference" :> "azure_ai"
    @@ "mistral_ai" :> "mistral"

Alias(provider) ==
    IF provider \in DOMAIN ProviderAliases THEN ProviderAliases[provider] ELSE provider

\* lookup: the names as they are, then without their prefixes, then with the
\* provider's; each time the model that answered before the one that was asked for.
Lookup(span) ==
    LET models   == SelectSeq(<<span.response, span.request>>, LAMBDA name : name # NULL)
        stripped == [i \in DOMAIN models |-> Name(NULL, models[i].base)]
        prefixed == IF span.provider = NULL THEN <<>>
                    ELSE [i \in DOMAIN models |-> Name(Alias(span.provider), models[i].base)]
        listed   == SelectSeq(models \o stripped \o prefixed, LAMBDA name : name \in DOMAIN Table)
    IN  IF listed = <<>> THEN NULL ELSE Table[Head(listed)]

Number0(count) == IF count = NULL THEN 0 ELSE count

PriceOf(price, kind) == IF price[kind] = NULL THEN price.input ELSE price[kind]

Uncached(input, read, created) == IF input > read + created THEN input - read - created ELSE 0

CostInRange(cost) == cost \in 0 .. MaxCost

\* Cost, with NULL for a cost that is not known.
Cost(span, creation) ==
    LET price   == Lookup(span)
        read    == Number0(span.read)
        created == Number0(creation)
        cost    == Uncached(span.input, read, created) * price.input
                   + read * PriceOf(price, "read") + created * PriceOf(price, "created")
                   + span.output * price.output
    IN  IF NULL \in {span.input, span.output} \/ price = NULL THEN NULL
        ELSE IF CostInRange(cost) THEN cost ELSE NULL

------------------------------------------------------------------------------
(* internal/normalize *)

IsToken(value) == value \in 0 .. MaxTokens

\* firstString and firstToken: a value of the wrong type or out of range gives way
\* to the next key.
FirstString(values, keys) ==
    LET given == SelectSeq(keys, LAMBDA k : k \in DOMAIN values /\ values[k] # NULL)
    IN  IF given = <<>> THEN NULL ELSE values[Head(given)]

FirstToken(values, keys) ==
    LET given == SelectSeq(keys, LAMBDA k : k \in DOMAIN values /\ IsToken(values[k]))
    IN  IF given = <<>> THEN NULL ELSE values[Head(given)]

\* usageDetails and the details of the cost: an object that is not there or does
\* not parse has no fields.
Object(attrs, key) == IF key \in DOMAIN attrs /\ attrs[key] # NULL THEN attrs[key] ELSE <<>>

\* The buckets whose keys begin with "input_" or "output_".
Buckets == [input  |-> {"input", "input_cached_tokens", "input_audio_tokens"},
            output |-> {"output", "output_reasoning_tokens"}]

\* summedTokens: the buckets of a side exclude each other.
SummedTokens(details, side) ==
    LET counted == {k \in DOMAIN details \cap Buckets[side] : IsToken(details[k])}
        total   == FoldFunctionOnSet(+, 0, details, counted)
    IN  IF counted = {} \/ total > MaxTokens THEN NULL ELSE total

\* detectKind
KindLayers == <<"openinference.span.kind", "langfuse.observation.type", "traceloop.span.kind",
                "llm.request.type", "gen_ai.operation.name", "ai.operationId">>

RequestModelKeys == <<"gen_ai.request.model", "llm.request.model_name", "llm.model_name",
                      "langfuse.observation.model.name", "ai.model.id", "embedding.model_name">>
ResponseModelKeys == <<"gen_ai.response.model", "llm.response.model_name", "ai.response.model">>
ProviderKeys == <<"gen_ai.provider.name", "gen_ai.system", "llm.provider", "llm.system",
                  "ai.model.provider">>
InputKeys == <<"gen_ai.usage.input_tokens", "gen_ai.usage.prompt_tokens",
               "llm.token_count.prompt", "ai.usage.promptTokens">>
OutputKeys == <<"gen_ai.usage.output_tokens", "gen_ai.usage.completion_tokens",
                "llm.token_count.completion", "ai.usage.completionTokens">>
CacheReadKeys == <<"gen_ai.usage.cache_read.input_tokens", "gen_ai.usage.cache_read_input_tokens",
                   "llm.token_count.prompt_details.cache_read">>
CacheCreationKeys == <<"gen_ai.usage.cache_creation.input_tokens">>
EmbeddingKeys == <<"ai.usage.tokens">>
TokenKeys == InputKeys \o EmbeddingKeys \o OutputKeys \o CacheReadKeys
UsageDetails == "langfuse.observation.usage_details"
CostDetails  == "langfuse.observation.cost_details"
TotalCost    == "llm.cost.total"

\* Every layer that says nothing known gives way to the next; a model and a token
\* count make a model call of a span that none describes.
DetectKind(attrs) ==
    LET layers == SelectSeq(KindLayers,
                            LAMBDA k : k \in DOMAIN attrs /\ attrs[k] \notin {NULL, "unknown"})
    IN  IF layers # <<>> THEN attrs[Head(layers)]
        ELSE IF /\ FirstString(attrs, RequestModelKeys \o ResponseModelKeys) # NULL
                /\ \/ FirstToken(attrs, TokenKeys) # NULL
                   \/ UsageDetails \in DOMAIN attrs /\ attrs[UsageDetails] # NULL
             THEN "llm" ELSE "other"

\* explicitCost: the amounts that make the cost which a client states.
StatedAmounts(attrs) ==
    LET details == Object(attrs, CostDetails)
        numeric == {k \in DOMAIN details : details[k] # NULL}
    IN  IF "total" \in numeric THEN Restrict(details, {"total"})
        ELSE IF numeric # {} THEN Restrict(details, numeric)
        ELSE IF TotalCost \in DOMAIN attrs /\ attrs[TotalCost] # NULL
             THEN "total" :> attrs[TotalCost]
        ELSE <<>>

ExplicitCost(attrs) ==
    LET amounts == StatedAmounts(attrs)
    IN  IF amounts = <<>> THEN NULL ELSE FoldFunction(+, 0, amounts)

\* A cost out of range refuses the whole batch.
Accepted(attrs) ==
    LET amounts == StatedAmounts(attrs)
    IN  /\ \A k \in DOMAIN amounts : CostInRange(amounts[k])
        /\ ExplicitCost(attrs) # NULL => CostInRange(ExplicitCost(attrs))

OrElse(value, other) == IF value = NULL THEN other ELSE value

\* normalize.Span, of what has to do with the cost.
Span(attrs) ==
    LET details == Object(attrs, UsageDetails)
        kind    == DetectKind(attrs)
        inputs  == InputKeys \o IF kind = "embedding" THEN EmbeddingKeys ELSE <<>>
    IN  [attributes |-> attrs,
         kind     |-> kind,
         provider |-> FirstString(attrs, ProviderKeys),
         request  |-> FirstString(attrs, RequestModelKeys),
         response |-> FirstString(attrs, ResponseModelKeys),
         input    |-> OrElse(FirstToken(attrs, inputs), SummedTokens(details, "input")),
         output   |-> OrElse(FirstToken(attrs, OutputKeys), SummedTokens(details, "output")),
         read     |-> OrElse(FirstToken(attrs, CacheReadKeys),
                             FirstToken(details, <<"input_cached_tokens",
                                                   "cache_read_input_tokens">>)),
         created  |-> FirstToken(attrs, CacheCreationKeys),
         cost     |-> ExplicitCost(attrs)]

------------------------------------------------------------------------------
(* internal/pipeline *)

\* price
IsPriced(source, span) ==
    /\ span.cost = NULL
    /\ NULL \notin {span.input, span.output}
    /\ source = "proxy" \/ span.kind \in {"llm", "embedding"}

\* Mutant of Creation: an import takes the column, which no export has.
CreationColumn(source, span) == span.created

\* What was written to the cache; an import has it in the attributes only
\* (ParseCacheCreation).
Creation(source, span) ==
    IF span.created = NULL /\ source = "import"
    THEN FirstToken(span.attributes, CacheCreationKeys) ELSE span.created

\* The loop of Commit.
Priced(source, span) ==
    IF IsPriced(source, span) THEN [span EXCEPT !.cost = Cost(span, Creation(source, span))]
    ELSE span

==============================================================================
