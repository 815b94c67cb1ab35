---- MODULE AdapterStream ----
(***************************************************************************)
(* stream() of the two adapters that read server-sent events:              *)
(* OpenAICompatibleProvider (Groq, Mistral, OpenRouter, NVIDIA) and        *)
(* GeminiProvider, up to the orchestrator's test for a stream without      *)
(* text.  Lines arrive one by one, and what the adapter makes of a line    *)
(* depends on whether it has passed on text before.                        *)
(*                                                                         *)
(* A line that carries no frame changes nothing and is left out.  A frame  *)
(* that is JSON but no object of the documented shape ends in an exception *)
(* the orchestrator takes for an unknown error (module Dispatch).          *)
(***************************************************************************)
EXTENDS Naturals, FiniteSetsExt

CONSTANTS
    MaxParseErrors,  \* _MAX_PARSE_ERRORS
    RefusalKinds     \* kinds classify_status gives to a refusal

ASSUME StreamAssumption ==
    /\ MaxParseErrors \in Nat \ {0}
    /\ RefusalKinds \cap {"asking", "reading", "ended", "empty_response", "parsing"} = {}

VARIABLES
    adapter,  \* "openai" or "gemini"
    reader,   \* "asking", "reading", "ended" or the kind of the error raised
    garbled,  \* parse_errors
    saw,      \* saw_content of the adapter
    spoken,   \* first_chunk_sent of the orchestrator: has the client been given text?
    denied,   \* history: the ways in which the provider said no before any text
    glitches  \* history: garbled lines since the last chunk, at most MaxParseErrors

streamVars == <<adapter, reader, garbled, saw, spoken, denied, glitches>>

StreamInit ==
    /\ adapter \in {"openai", "gemini"} /\ reader = "asking"
    /\ garbled = 0 /\ saw = FALSE /\ spoken = FALSE /\ denied = {} /\ glitches = 0

\* The provider says no; whether it is heard is up to the adapter.
Deny(how) == denied' = IF spoken THEN denied ELSE denied \cup {how}

\* Status 400 and above.
Refused ==
    /\ reader = "asking" /\ reader' \in RefusalKinds /\ Deny("status")
    /\ UNCHANGED <<adapter, garbled, saw, spoken, glitches>>

Accepted ==
    /\ reader = "asking" /\ reader' = "reading"
    /\ UNCHANGED <<adapter, garbled, saw, spoken, denied, glitches>>

\* Time-outs and lost connections, while asking or between two lines.
NetworkFails ==
    /\ reader \in {"asking", "reading"} /\ reader' = "network"
    /\ UNCHANGED <<adapter, garbled, saw, spoken, denied, glitches>>

\* A line that is not JSON.
Garbled ==
    /\ reader = "reading"
    /\ garbled' = garbled + 1 /\ glitches' = Min({glitches + 1, MaxParseErrors})
    /\ reader' = IF garbled' >= MaxParseErrors THEN "parsing" ELSE reader
    /\ UNCHANGED <<adapter, saw, spoken, denied>>

\* JSON without choices or candidates: it is a good frame for Gemini's adapter
\* and none at all for the other.
PassOver ==
    /\ garbled' = IF adapter = "gemini" THEN 0 ELSE garbled
    /\ UNCHANGED <<adapter, reader, saw, spoken, glitches>>

\* Such as the last count of tokens.
Bare == reader = "reading" /\ PassOver /\ UNCHANGED denied

\* Gemini blocks a prompt with a frame that has promptFeedback and no
\* candidates, which its adapter does not look at.
BlockedPrompt == reader = "reading" /\ adapter = "gemini" /\ PassOver /\ Deny("prompt")

\* An error object in a stream that began with status 200.  Before any text it
\* is an error; after it, and for Gemini's adapter at any time, one more frame
\* without choices.
ErrorFrame ==
    /\ reader = "reading" /\ Deny("error")
    /\ IF adapter = "openai" /\ ~saw
       THEN reader' \in RefusalKinds /\ UNCHANGED <<adapter, garbled, saw, spoken, glitches>>
       ELSE PassOver

\* Mutant: the last chunk decides.
SawLast(text) == text

Saw(text) == saw \/ text

\* A frame with text, a finish reason, both or neither (the header of the
\* role).  A filter that strikes before any text is an error, later it is only
\* the reason for the end.
Chunk(text, filtered) ==
    /\ reader = "reading" /\ garbled' = 0 /\ glitches' = 0
    /\ IF filtered THEN Deny("filter") ELSE UNCHANGED denied
    /\ IF filtered /\ ~saw
       THEN reader' = "content_filtered" /\ UNCHANGED <<saw, spoken>>
       ELSE saw' = Saw(text) /\ spoken' = (spoken \/ text) /\ UNCHANGED reader
    /\ UNCHANGED adapter

\* The provider says it is done, or just closes the connection.  The
\* orchestrator makes an error of a stream that gave it no text.
Ends ==
    /\ reader = "reading" /\ reader' = IF spoken THEN "ended" ELSE "empty_response"
    /\ UNCHANGED <<adapter, garbled, saw, spoken, denied, glitches>>

StreamNext ==
    \/ Refused \/ Accepted \/ NetworkFails \/ Garbled \/ Bare \/ BlockedPrompt
    \/ ErrorFrame \/ Ends
    \/ \E text, filtered \in BOOLEAN : Chunk(text, filtered)

StreamSpec == StreamInit /\ [][StreamNext]_streamVars

\* The ways of saying no that an adapter recognises.
Understood == {"status", "filter"} \cup (IF adapter = "openai" THEN {"error"} ELSE {})

\* Once text was passed on, a stream may break but no longer be refused, so that
\* no other provider is asked for a text that was half spoken.  Whatever the
\* provider says no by before any text ends the stream with the kind of the
\* refusal, if the adapter recognises it; what Gemini's adapter passes over, an
\* error frame or a blocked prompt, is at least not served as an answer unless
\* text followed it.  And glitches between good chunks do not add up.
HalfToldIsKept ==
    /\ spoken => reader \in {"reading", "ended", "network", "parsing"}
    /\ denied \cap Understood # {} => reader \in RefusalKinds \cup {"content_filtered"}
    /\ denied # {} /\ ~spoken => reader # "ended"
    /\ reader = "parsing" => glitches >= MaxParseErrors
====
