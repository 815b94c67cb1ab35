---- MODULE Routing ----
(***************************************************************************)
(* How a chat request becomes an ordered list of providers: the lane that  *)
(* its model, its strategy and its prompt choose (virtual_models.py,       *)
(* auto_strategy.py, Orchestrator._resolve_strategy), the definition an    *)
(* admin stored for that lane (strategy_dsl.py: parser and evaluator), and *)
(* the ranking and the filter by capabilities (_rank, _score,              *)
(* _filter_capabilities).                                                  *)
(*                                                                         *)
(* One user, one request; the admin may edit the strategies before it.     *)
(* Scores, weights and shares of a quota are in twentieths, limits divide  *)
(* them.  How an edit meets requests that are under way is in module       *)
(* StrategyCache, what becomes of the list in module Dispatch.             *)
(***************************************************************************)
EXTENDS Integers, Sequences, SequencesExt, FiniteSetsExt, Filtering

CONSTANTS
    Fleets,  \* what the user's providers may be like: sequences, by name
    ChatRequests, \* requests
    Drafts,  \* definitions an admin may send for the strategy "custom"
    Foreign  \* model names that match _FOREIGN_MODEL_RE

VARIABLES
    fleet,   \* the user's providers, merged with the catalogue
    ask,     \* the request
    custom,  \* the definition of the strategy "custom", <<>> if there is none
    route    \* what has become of the request

routingVars == <<fleet, ask, custom, route>>

NoName == "none"  \* no model, no preferred provider

\* ---- strategy_dsl.py ----

Val(type, datum) == [type |-> type, datum |-> datum]
Num(n) == Val("number", n)
Str(s) == Val("string", s)
Absent == Val("absent", 0)

FieldType ==
    [weight |-> "number", last_latency_ms |-> "number", latency_ema_ms |-> "number",
     requests_today |-> "number", requests_this_minute |-> "number",
     rpd_remaining |-> "number", rpm_remaining |-> "number", total_failures |-> "number",
     tags |-> "string_array", name |-> "string", enabled |-> "bool"]

\* Mutant: any operator on any field.
AnyOp(type) == {"contains", "==", "!=", "in", "<", "<=", ">", ">="}

OpsOf(type) ==
    CASE type = "string_array" -> {"contains"}
      [] type = "string" -> {"==", "!=", "in"}
      [] type = "number" -> {"==", "!=", "<", "<=", ">", ">="}
      [] type = "bool" -> {"==", "!="}

RightValue(type, op, v) ==
    CASE op = "in" -> v.type = "list" /\ v.datum # <<>> /\ \A i \in DOMAIN v.datum : v.datum[i].type = "string"
      [] op = "contains" -> v.type = "string"
      [] OTHER -> type = "string_array" \/ v.type = type

\* A weight is a number, or anything float() takes for one.
RightWeight(section, w) == IF section = "prefer" THEN w.type = "number" ELSE w = Absent

RightClause(section, c) ==
    /\ c.field \in DOMAIN FieldType /\ c.op \in OpsOf(FieldType[c.field])
    /\ RightValue(FieldType[c.field], c.op, c.value)
    /\ RightWeight(section, c.weight)

\* parse_definition; a definition or a clause with unknown keys is no draft.
Parses(d) ==
    /\ \A i \in DOMAIN d.require : RightClause("require", d.require[i])
    /\ \A i \in DOMAIN d.prefer : RightClause("prefer", d.prefer[i])

\* context_from_provider: a share of a quota, open when there is no limit.
Remaining(scale, used, limit) == IF limit = 0 THEN scale ELSE Max({0, scale - (scale * used) \div limit})

Field(p, f) ==
    CASE f = "name" -> Str(p.name)
      [] f = "tags" -> Val("list", SetToSeq({Str(t) : t \in p.tags}))
      [] f = "enabled" -> Val("bool", TRUE)
      [] f = "last_latency_ms" -> p.latency
      [] f = "latency_ema_ms" -> p.ema
      [] f = "rpd_remaining" -> Num(Remaining(20, p.today, p.rpd))
      [] f = "rpm_remaining" -> Num(Remaining(20, p.minute, p.rpm))
      [] f = "requests_today" -> Num(p.today)
      [] f = "requests_this_minute" -> Num(p.minute)
      [] f = "total_failures" -> Num(p.failures)
      [] f = "weight" -> Num(p.weight)

\* Comparing the order of two different types is a TypeError.
Raises(c, p) ==
    LET actual == Field(p, c.field)
    IN actual # Absent /\ c.op \in {"<", "<=", ">", ">="} /\ actual.type # c.value.type

Same(a, b) == a.type = b.type /\ a.datum = b.datum

Matches(c, p) ==
    LET actual == Field(p, c.field)
    IN /\ actual # Absent
       /\ CASE c.op = "contains" -> \E i \in DOMAIN actual.datum : Same(c.value, actual.datum[i])
            [] c.op = "in" -> \E i \in DOMAIN c.value.datum : Same(actual, c.value.datum[i])
            [] c.op = "==" -> Same(actual, c.value)
            [] c.op = "!=" -> ~Same(actual, c.value)
            [] c.op = "<" -> actual.datum < c.value.datum
            [] c.op = "<=" -> actual.datum <= c.value.datum
            [] c.op = ">" -> actual.datum > c.value.datum
            [] c.op = ">=" -> actual.datum >= c.value.datum

\* Evaluation stops at the first requirement that fails.
EvaluationRaises(d, p) ==
    \/ \E i \in DOMAIN d.require :
          Raises(d.require[i], p) /\ \A j \in 1 .. i - 1 : Matches(d.require[j], p)
    \/ /\ \A i \in DOMAIN d.require : Matches(d.require[i], p)
       /\ \E i \in DOMAIN d.prefer : Raises(d.prefer[i], p)

Admits(d, p) == \A i \in DOMAIN d.require : Matches(d.require[i], p)

\* The weights of the preferences that match, up to each of them.
Preferred(prefer, p) ==
    LET sum[i \in 0 .. Len(prefer)] ==
          IF i = 0 THEN 0
          ELSE IF Matches(prefer[i], p) THEN sum[i - 1] + prefer[i].weight.datum ELSE sum[i - 1]
    IN  sum
Bonus(d, p) == Preferred(d.prefer, p)[Len(d.prefer)]

\* baseline_score: an average of zero counts as none.
Latency(p) == IF p.ema # Absent /\ p.ema.datum # 0 THEN p.ema ELSE p.latency

LatencyBonus(latency) ==
    IF latency = Absent THEN 0
    ELSE IF latency.datum < 500 THEN 40
    ELSE IF latency.datum < 1000 THEN 24
    ELSE IF latency.datum < 2000 THEN 8
    ELSE -20

Baseline(p) ==
    p.weight + Remaining(30, p.today, p.rpd) + Remaining(40, p.tokens, p.tpd)
    + LatencyBonus(Latency(p)) - 2 * Min({p.failures, 20})

\* ---- virtual_models.py, auto_strategy.py, strategy_repo.py ----

Lane ==
    [model \in {"freeai-auto", "freeai-fast", "freeai-quality", "freeai-code",
                "freeai-reasoning", "freeai-cheap", "freeai-vision", "freeai-long"} |->
       CASE model = "freeai-auto" -> "auto"
         [] model = "freeai-fast" -> "fastest"
         [] model = "freeai-quality" -> "best_quality"
         [] model = "freeai-code" -> "coding"
         [] model = "freeai-reasoning" -> "reasoning"
         [] model = "freeai-cheap" -> "cheapest"
         [] model = "freeai-vision" -> "vision"
         [] model = "freeai-long" -> "long_context"]

\* Clauses most strategies are made of.
PreferTag(tag, weight) == [field |-> "tags", op |-> "contains", value |-> Str(tag), weight |-> Num(weight)]
RequireTag(tag) == [field |-> "tags", op |-> "contains", value |-> Str(tag), weight |-> Absent]
Faster(ms, weight) == [field |-> "last_latency_ms", op |-> "<", value |-> Num(ms), weight |-> Num(weight)]
Define(require, prefer) == [require |-> require, prefer |-> prefer]

\* The definition of "auto" is NULL, which scores like an empty one.
Builtin ==
    [auto |-> Define(<<>>, <<>>),
     fastest |-> Define(<<>>, <<PreferTag("fast", 100), Faster(1000, 60)>>),
     cheapest |-> Define(<<>>, <<PreferTag("cheap", 100),
            [field |-> "rpd_remaining", op |-> ">", value |-> Num(10), weight |-> Num(60)]>>),
     best_quality |-> Define(<<>>, <<PreferTag("quality", 100), PreferTag("reasoning", 80)>>),
     coding |-> Define(<<RequireTag("coding")>>, <<PreferTag("reasoning", 100), Faster(2000, 40)>>),
     reasoning |-> Define(<<>>, <<PreferTag("reasoning", 100), PreferTag("quality", 60)>>),
     vision |-> Define(<<RequireTag("vision")>>, <<>>),
     long_context |-> Define(<<RequireTag("long_context")>>, <<>>)]

\* detect_language over how many stop words of en, es, fr, de and pt the last
\* prompt of the user has: the first of equals, English when there is none.
Language(words) ==
    LET most == Max({words[i] : i \in 1 .. 5})
    IN IF most = 0 THEN 1 ELSE Min({i \in 1 .. 5 : words[i] = most})

AutoLane(prompt) ==
    IF prompt.image \/ prompt.sees THEN "vision"
    ELSE IF prompt.long THEN "long_context"
    ELSE IF prompt.code THEN "coding"
    ELSE IF Language(prompt.words) \in prompt.reasons THEN "reasoning"
    ELSE "fastest"

Definitions == {d \in Drafts : Parses(d)} \cup {Builtin[l] : l \in DOMAIN Builtin}

\* ---- What the inputs are ----

\* What json.loads and the checks for unknown keys leave: two lists of clauses.
ASSUME DraftsAssumption ==
    \A d \in Drafts :
       /\ d.require \in Seq(ToSet(d.require)) /\ d.prefer \in Seq(ToSet(d.prefer))
       /\ \A c \in ToSet(d.prefer) : c.weight.type = "number" => c.weight.datum \in Int

\* The columns of the merged rows; a user has one row for each name.
ASSUME FleetsAssumption ==
    \A providers \in Fleets :
       /\ providers \in Seq(ToSet(providers))
       /\ \A i, j \in DOMAIN providers : providers[i].name = providers[j].name => i = j
       /\ \A p \in ToSet(providers) :
             /\ {p.rpd, p.today, p.rpm, p.minute, p.tpd, p.tokens, p.failures, p.inFlight} \subseteq Nat
             /\ p.weight \in Int
             /\ \A v \in {p.latency, p.ema} : v = Absent \/ v.type = "number"

ASSUME ForeignAssumption == NoName \notin Foreign

\* ---- The request ----

Route(pc, lane, definition, model, chain, parked) ==
    [pc |-> pc, lane |-> lane, definition |-> definition, model |-> model,
     chain |-> chain, parked |-> parked]
Unrouted == Route("new", NoName, Define(<<>>, <<>>), NoName, <<>>, {})

RoutingInit ==
    /\ fleet \in Fleets /\ ask \in ChatRequests
    /\ custom = <<>>
    /\ route = Unrouted

\* create_strategy and update_strategy; 422 for a draft that does not parse.  An
\* edit does not reach a request that has looked up its lane.
SaveDefinition(d) ==
    /\ route.pc = "new" /\ Parses(d)
    /\ custom' = <<d>>
    /\ UNCHANGED <<fleet, ask, route>>

\* delete_strategy; built-in ones cannot be deleted.
RemoveStrategy ==
    /\ route.pc = "new" /\ custom # <<>>
    /\ custom' = <<>>
    /\ UNCHANGED <<fleet, ask, route>>

\* A virtual model names its lane, any strategy beside it is ignored; a name of
\* another vendor's model means "auto"; other names go upstream as they are.
NamesLane == ask.model \in DOMAIN Lane \/ ask.model \in Foreign

AskedLane ==
    IF ask.model \in DOMAIN Lane THEN Lane[ask.model]
    ELSE IF ask.model \in Foreign THEN "auto" ELSE ask.strategy

ResolveStrategy ==
    /\ route.pc = "new"
    /\ LET lane == IF AskedLane = "auto" THEN AutoLane(ask.prompt) ELSE AskedLane
           model == IF NamesLane THEN NoName ELSE ask.model
           stored == {d \in ToSet(custom) : lane = "custom"} \cup {Builtin[l] : l \in DOMAIN Builtin \cap {lane}}
       IN route' = IF stored # {}
                   THEN Route("resolved", lane, CHOOSE d \in stored : TRUE, model, <<>>, {})
                   ELSE [Unrouted EXCEPT !.pc = "unknown strategy", !.lane = lane]
    /\ UNCHANGED <<fleet, ask, custom>>

Usable == {i \in DOMAIN fleet : fleet[i].enabled /\ fleet[i].keyed}
TokensSpent(p) == p.tpd # 0 /\ p.tokens >= p.tpd
ParkedOnes == {i \in Usable : ~fleet[i].healthy \/ TokensSpent(fleet[i])}
Considered == {i \in Usable \ ParkedOnes : fleet[i].registered}

\* _score, and with the bonus of the preferred provider what _rank sorts by.
Worth(d, p) == Baseline(p) + Bonus(d, p) - 10 * p.inFlight
Score(i) ==
    Worth(route.definition, fleet[i]) + IF fleet[i].name = ask.preferred THEN 2000 ELSE 0

\* The stable descending sort: equals stay in the order of their names.
Before(i, j) == Score(i) > Score(j) \/ (Score(i) = Score(j) /\ i < j)
Rankings(S) ==
    {chain \in [1 .. Cardinality(S) -> S] :
        ToSet(chain) = S /\ \A k, l \in DOMAIN chain : k < l => Before(chain[k], chain[l])}

RankProviders ==
    /\ route.pc = "resolved"
    /\ LET admitted == {i \in Considered : Admits(route.definition, fleet[i])}
       IN \E chain \in Rankings(admitted) :
            route' =
              IF \E i \in Considered : EvaluationRaises(route.definition, fleet[i])
              THEN [route EXCEPT !.pc = "type error"]
              ELSE IF admitted # {}
              THEN [route EXCEPT !.pc = "ranked", !.parked = ParkedOnes, !.chain = chain]
              ELSE IF ParkedOnes # {} THEN [route EXCEPT !.pc = "try later", !.parked = ParkedOnes]
              ELSE [route EXCEPT !.pc = "no provider"]
    /\ UNCHANGED <<fleet, ask, custom>>

\* Images first, then tools; only the latter looks at who is parked.
FilterCapabilities ==
    /\ route.pc = "ranked"
    /\ LET seeing == Only(route.chain, {i \in DOMAIN fleet : ask.prompt.image => fleet[i].vision})
           able == Only(seeing, {i \in DOMAIN fleet : ask.tools => fleet[i].tools})
       IN route' = [route EXCEPT !.chain = able,
                       !.pc = IF able # <<>> THEN "routed"
                              ELSE IF seeing = <<>> THEN "no vision"
                              ELSE IF \E i \in route.parked : fleet[i].registered /\ fleet[i].tools
                              THEN "try later" ELSE "no tools"]
    /\ UNCHANGED <<fleet, ask, custom>>

RoutingNext ==
    \/ \E d \in Drafts : SaveDefinition(d)
    \/ RemoveStrategy \/ ResolveStrategy \/ RankProviders \/ FilterCapabilities

RoutingSpec == RoutingInit /\ [][RoutingNext]_routingVars

\* ---- Properties ----

\* What speaks for a provider, each part as it counts.
Merits(i) ==
    <<Remaining(30, fleet[i].today, fleet[i].rpd), Remaining(40, fleet[i].tokens, fleet[i].tpd),
      LatencyBonus(Latency(fleet[i])), fleet[i].weight, - Min({fleet[i].failures, 20}),
      - fleet[i].inFlight, Bonus(route.definition, fleet[i])>>
Outdoes(i, j) ==
    /\ Merits(i) # Merits(j)
    /\ \A m \in DOMAIN Merits(i) : Merits(i)[m] >= Merits(j)[m]

CanServe(i) ==
    /\ i \in Considered /\ Admits(route.definition, fleet[i])
    /\ ask.tools => fleet[i].tools
    /\ ask.prompt.image => fleet[i].vision

\* No difference between two providers amounts to the bonus of the preferred one.
PreferenceOutweighs ==
    \A providers \in Fleets, d \in Definitions :
       \A i, j \in DOMAIN providers : Worth(d, providers[j]) < Worth(d, providers[i]) + 2000

\* Whatever definition the parser let an admin store, and whatever was known of
\* the providers, evaluating it never fails; only a lane nobody stored is
\* unknown, never a virtual model's; no name of a lane or of another vendor's
\* model goes upstream; everybody who can serve the request is asked and nobody
\* else, the preferred provider first and nobody after one it outdoes; and a
\* client with tools is told that its setup is at fault only if nobody who can
\* call tools is merely parked.
RoutedRight ==
    /\ route.pc # "type error"
    /\ route.pc = "unknown strategy" => ~NamesLane /\ ask.strategy # "auto"
    /\ route.model \notin DOMAIN Lane \cup Foreign
    /\ route.pc = "routed" =>
          /\ ToSet(route.chain) = {i \in DOMAIN fleet : CanServe(i)}
          /\ \A k \in DOMAIN route.chain :
                LET i == route.chain[k]
                IN /\ fleet[i].name = ask.preferred => k = 1
                   /\ \A l \in 1 .. k - 1 :
                        Outdoes(i, route.chain[l]) => fleet[route.chain[l]].name = ask.preferred
    /\ route.pc = "no tools" =>
          \A i \in Usable : fleet[i].registered /\ fleet[i].tools => fleet[i].healthy /\ ~TokensSpent(fleet[i])
====
