---- MODULE MCSupport ----
(***************************************************************************)
(* Components that share no variable: a behaviour of this run is one of    *)
(* one of them, chosen at the start, while the others rest in one of their *)
(* initial states.                                                         *)
(***************************************************************************)
EXTENDS Rollup, StrategyCache, ResponseEvents, Responses, Refusals, AdapterStream,
        GeminiTools, Routing

(* ------------------------------- instances ----------------------------- *)

CONSTANTS e1, e2, a, b

\* Two events in two groups, whose keys differ or are equal.
Grouped == {[e \in UsageEvent |-> IF e = e1 THEN x ELSE Unknown] : x \in {"model", Unnamed}}

\* A text or none, one call or two, with or without a text.
CallItem(p) == [kind |-> "function_call", body |-> <<p>>]
Complete ==
    {<<Message(<<>>)>>} \cup {<<Message(<<p>>)>> : p \in Piece}
    \cup {<<CallItem(p)>> : p \in Piece}
    \cup {<<Message(<<p>>), CallItem(q)>> : p, q \in Piece}
    \cup {<<CallItem(p), CallItem(q)>> : p, q \in Piece}

InputSizes == <<1, 2, 0>>

\* Refusals with every kind of hint, missing, zero or two ticks, where each hint
\* decides, and a negative one; errors of every other kind; successes with and
\* without quota left.
Hints == {None, {0}, {2}}
Http(status, wording, retryAfter, requests, tokens, delay) ==
    [status |-> status, wording |-> wording, retryAfter |-> retryAfter,
     requests |-> requests, tokens |-> tokens, retryDelay |-> delay]
Spent(reset) == <<Bucket(1, 2), Bucket(0, reset)>>
Answers ==
    {Http(429, w, h, <<>>, <<>>, None) : w \in {"", "daily"}, h \in Hints \cup {{-1}}}
    \cup {Http(429, "", None, Spent(n), <<>>, {2}) : n \in {0, 2}}
    \cup {Http(429, "", None, <<Bucket(1, 2)>>, Spent(0), None),
          Http(429, "", None, <<>>, <<>>, {0}), Http(429, "billing", None, <<>>, <<>>, None),
          Http(401, "", {0}, <<>>, <<>>, None), Http(402, "", {0}, <<>>, <<>>, None),
          Http(404, "", {2}, <<>>, <<>>, None), Http(400, "model", None, <<>>, <<>>, None),
          Http(400, "", None, <<>>, <<>>, None), Http(500, "", {2}, <<>>, <<>>, None),
          Http(400, "billing", None, <<>>, <<>>, None),
          Http(200, "", None, <<>>, <<>>, None), Http(200, "", None, Spent(3), Spent(1), None)}

\* No provider, or two that differ in one way or another in every signal.
Vendor(name, enabled, healthy, tags, vision, tools, weight, quota, latency, load) ==
    [name |-> name, enabled |-> enabled, keyed |-> TRUE, registered |-> TRUE, healthy |-> healthy,
     tags |-> tags, vision |-> vision, tools |-> tools, weight |-> weight,
     rpd |-> quota[1], today |-> quota[2], rpm |-> 2, minute |-> 1, tpd |-> quota[3], tokens |-> quota[4],
     latency |-> latency[1], ema |-> latency[2], failures |-> load[1], inFlight |-> load[2]]
Vendors(name) ==
    <<Vendor(name, TRUE, TRUE, {}, TRUE, TRUE, 20, <<0, 0, 0, 0>>, <<Absent, Absent>>, <<0, 0>>),
      Vendor(name, TRUE, TRUE, {"coding", "fast"}, FALSE, TRUE, 20, <<2, 1, 10, 5>>, <<Num(400), Num(700)>>, <<1, 0>>),
      Vendor(name, TRUE, FALSE, {"coding", "vision"}, TRUE, TRUE, 20, <<2, 1, 10, 5>>, <<Num(400), Num(700)>>, <<1, 0>>),
      Vendor(name, TRUE, TRUE, {"vision", "reasoning"}, FALSE, FALSE, 30, <<2, 0, 10, 10>>, <<Num(1500), Absent>>, <<25, 1>>),
      Vendor(name, TRUE, TRUE, {"vision", "long_context"}, TRUE, FALSE, 30, <<2, 2, 10, 0>>, <<Num(600), Num(0)>>, <<3, 2>>),
      Vendor(name, FALSE, TRUE, {"coding"}, FALSE, TRUE, 20, <<0, 0, 0, 0>>, <<Num(2500), Absent>>, <<0, 0>>)>>
TwoVendors == {<<>>} \cup {<<v, w>> : v \in ToSet(Vendors("groq")), w \in ToSet(Vendors("mistral"))}

Prompt(image, sees, long, code, words, reasons) ==
    [image |-> image, sees |-> sees, long |-> long, code |-> code, words |-> words, reasons |-> reasons]
NoWords == <<0, 0, 0, 0, 0>>
Plain == Prompt(FALSE, FALSE, FALSE, FALSE, NoWords, {})
ChatRequest(model, strat, preferred, tools, prompt) ==
    [model |-> model, strategy |-> strat, preferred |-> preferred, tools |-> tools, prompt |-> prompt]

\* The custom strategy with and without tools and preference, virtual models and
\* one of another vendor, every lane "auto" may take, and images outside of it.
SomeRequests ==
    {ChatRequest(NoName, "custom", q, t, Plain) : q \in {NoName, "mistral"}, t \in BOOLEAN}
    \cup {ChatRequest(m, "custom", NoName, FALSE, Plain) :
            m \in {"gpt-5", "freeai-code", "freeai-cheap", "freeai-quality"}}
    \cup {ChatRequest("llama-3", "auto", "groq", TRUE, p) :
            p \in {Prompt(TRUE, FALSE, TRUE, TRUE, NoWords, {}), Prompt(FALSE, FALSE, TRUE, TRUE, NoWords, {}),
                   Prompt(FALSE, FALSE, FALSE, TRUE, NoWords, {1}),
                   Prompt(FALSE, FALSE, FALSE, FALSE, <<1, 2, 0, 0, 2>>, {2}),
                   Prompt(FALSE, FALSE, FALSE, FALSE, <<1, 2, 0, 0, 2>>, {5})}}
    \cup {ChatRequest(NoName, "fastest", NoName, t, Prompt(TRUE, FALSE, FALSE, FALSE, NoWords, {})) : t \in BOOLEAN}

\* One clause with each operator that behaves in its own way on fields of every
\* type and values of every type, and definitions that mix the sections up.
Clause(field, op, value, weight) == [field |-> field, op |-> op, value |-> value, weight |-> weight]
SomeDrafts ==
    {Define(<<>>, <<Clause(f, op, v, Num(50))>>) :
        f \in {"tags", "name", "enabled", "latency_ema_ms", "rpd_remaining", "tagz"},
        op \in {"contains", "!=", "in", "<"},
        v \in {Num(0), Num(700), Num(10), Str("fast"), Str("groq"), Val("bool", TRUE),
               Val("list", <<>>), Val("list", <<Str("groq")>>), Val("list", <<Num(5)>>)}}
    \cup {Define(<<Clause(f, ">=", Num(10), Absent), RequireTag("coding")>>, <<>>) :
        f \in {"tags", "rpm_remaining", "weight"}}
    \cup {Define(<<RequireTag("fast")>>, <<PreferTag("coding", 1)>>),
          Define(<<PreferTag("fast", 1)>>, <<>>), Define(<<>>, <<RequireTag("fast")>>)}

(* ----------------------------- specification --------------------------- *)

VARIABLE part

AnyOf(S) == CHOOSE x \in S : TRUE

Init ==
    /\ part \in {"rollup", "cache", "events", "responses", "refusals", "stream", "tools", "routing"}
    /\ RollupInit /\ (part # "rollup" => account = AnyOf(Grouped))
    /\ CacheInit /\ (part # "cache" => strategy = NoStrategy)
    /\ EventsInit /\ (part # "events" => source = "stream")
    /\ ResponsesInit /\ RefusalsInit
    /\ StreamInit /\ (part # "stream" => adapter = "openai")
    /\ ToolsInit
    /\ RoutingInit /\ (part # "routing" => fleet = <<>> /\ ask = AnyOf(SomeRequests))

Rest(name, vars) == part # name /\ UNCHANGED vars

Next ==
    /\ UNCHANGED part
    /\ (part = "rollup" /\ RollupNext) \/ Rest("rollup", rollupVars)
    /\ (part = "cache" /\ CacheNext) \/ Rest("cache", cacheVars)
    /\ (part = "events" /\ EventsNext) \/ Rest("events", eventsVars)
    /\ (part = "responses" /\ ResponsesNext) \/ Rest("responses", responsesVars)
    /\ (part = "refusals" /\ RefusalsNext) \/ Rest("refusals", refusalsVars)
    /\ (part = "stream" /\ StreamNext) \/ Rest("stream", streamVars)
    /\ (part = "tools" /\ ToolsNext) \/ Rest("tools", toolsVars)
    /\ (part = "routing" /\ RoutingNext) \/ Rest("routing", routingVars)

mcVars == <<part, rollupVars, cacheVars, eventsVars, responsesVars, refusalsVars,
            streamVars, toolsVars, routingVars>>

Spec == Init /\ [][Next]_mcVars
====
