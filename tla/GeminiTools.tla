---- MODULE GeminiTools ----
(***************************************************************************)
(* A conversation with tools whose turns go to Gemini, which wants the     *)
(* results of a turn's calls together and a signature on the first call    *)
(* (gemini_provider.py: _to_gemini_contents, _remember_signature).  The    *)
(* signatures Gemini gave are kept in the process, outside the request;    *)
(* a restart forgets them, and turns may have come from other providers.   *)
(*                                                                         *)
(* A signature is named by the call it was given for.  Texts, images,      *)
(* arguments and the declarations of tools are left out.                   *)
(***************************************************************************)
EXTENDS Integers, Sequences, SequencesExt, FiniteSetsExt, Filtering

CONSTANTS
    MaxTurns,      \* bound: messages of the conversation
    SignatureMax   \* _SIGNATURE_CACHE_MAX

VARIABLES
    turns,       \* the messages, as the client sends them
    signatures,  \* _signatures: the calls whose signature is kept, oldest first
    contents,    \* what Gemini was sent
    next         \* the number of the next call

toolsVars == <<turns, signatures, contents, next>>

NoCall == 0
Nameless == 0   \* a result whose call is unknown
Skip == -1      \* _SKIP_SIGNATURE
Unsigned == 0

\* A call has an id and a name; other providers count ids in every answer.
ToolCall(id, name) == [id |-> id, name |-> name]
Turn(role, calls, answers) == [role |-> role, calls |-> calls, answers |-> answers]
Asking == {"user", "tool", "system"}

ToolsInit == turns = <<>> /\ signatures = <<>> /\ contents = <<>> /\ next = 1

\* What the client adds: a text, or the result of a call it was asked for, or of
\* one that is not in the conversation.
CalledIds == {c.id : c \in UNION {ToSet(turns[i].calls) : i \in DOMAIN turns}}

ClientAdds ==
    /\ Len(turns) < MaxTurns
    /\ \E turn \in {Turn("user", <<>>, NoCall), Turn("system", <<>>, NoCall)}
                   \cup {Turn("tool", <<>>, id) : id \in CalledIds \cup {99}} :
         turns' = Append(turns, turn)
    /\ contents' = <<>> /\ UNCHANGED <<signatures, next>>

\* _remember_signature; what does not fit any more is dropped at the other end.
Remember(id) ==
    LET kept == Append(Only(signatures, ToSet(signatures) \ {id}), id)
    IN IF Len(kept) > SignatureMax THEN Tail(kept) ELSE kept

\* complete: Gemini signs the first call of an answer, or none; ids are new.
GeminiAnswers ==
    /\ contents # <<>> /\ Len(turns) < MaxTurns
    /\ \E n \in 0 .. 2, signs \in BOOLEAN :
         /\ turns' = Append(turns, Turn("assistant", [i \in 1 .. n |-> ToolCall(next + i - 1, next + i - 1)], NoCall))
         /\ signatures' = IF signs /\ n > 0 THEN Remember(next) ELSE signatures
         /\ next' = next + n
    /\ contents' = <<>>

\* The request fell to another provider, whose ids may be used again.
OtherAnswers ==
    /\ turns # <<>> /\ Last(turns).role \in Asking /\ Len(turns) < MaxTurns
    /\ turns' = Append(turns, Turn("assistant", <<ToolCall(-2, next), ToolCall(-3, next + 1)>>, NoCall))
    /\ next' = next + 2
    /\ contents' = <<>> /\ UNCHANGED signatures

\* The process ends, with what it was about to send.
Restart ==
    /\ signatures # <<>> /\ signatures' = <<>>
    /\ contents' = <<>> /\ UNCHANGED <<turns, next>>

\* ---- _to_gemini_contents, one message at a time ----

Part(type, name, signature) == [type |-> type, name |-> name, signature |-> signature]
Content(role, parts) == [role |-> role, parts |-> parts]

\* Mutant: the sentinel is for answers of which nothing is known.
SignUnknown(calls, i) ==
    IF Contains(signatures, calls[i].id) THEN calls[i].id
    ELSE IF signatures = <<>> /\ i = 1 THEN Skip ELSE Unsigned

\* What a call bears: its own signature, or as the first of its turn the sentinel.
Sign(calls, i) ==
    IF Contains(signatures, calls[i].id) THEN calls[i].id
    ELSE IF i = 1 THEN Skip ELSE Unsigned

OnlyResponses(content) == content.role = "user" /\ \A i \in DOMAIN content.parts : content.parts[i].type = "response"

\* The latest call with an id has it.
NameOf(names, id) ==
    LET known == {i \in DOMAIN names : names[i].id = id}
    IN IF known = {} THEN Nameless ELSE names[Max(known)].name

AddTurn(acc, turn) ==
    LET grown == [acc EXCEPT !.names = @ \o turn.calls]
        response == Part("response", NameOf(acc.names, turn.answers), Unsigned)
        n == Len(acc.contents)
        joins == n > 0 /\ OnlyResponses(acc.contents[n])
    IN CASE turn.role = "system" -> acc
         [] turn.role = "assistant" /\ turn.calls # <<>> ->
               [grown EXCEPT !.contents = Append(@, Content("model",
                   [i \in DOMAIN turn.calls |-> Part("call", turn.calls[i].name, Sign(turn.calls, i))]))]
         [] turn.role = "tool" /\ joins ->
               [acc EXCEPT !.contents[n].parts = Append(@, response)]
         [] turn.role = "tool" /\ ~joins ->
               [acc EXCEPT !.contents = Append(@, Content("user", <<response>>))]
         [] OTHER ->
               [acc EXCEPT !.contents = Append(@,
                   Content(IF turn.role = "assistant" THEN "model" ELSE "user", <<Part("text", Nameless, Unsigned)>>))]

\* What the first messages have become.
Translations ==
    LET upTo[n \in 0 .. Len(turns)] ==
          IF n = 0 THEN [contents |-> <<>>, names |-> <<>>]
          ELSE AddTurn(upTo[n - 1], turns[n])
    IN  upTo
Translated == Translations[Len(turns)].contents

AskGemini ==
    /\ turns # <<>> /\ Last(turns).role \in Asking /\ contents = <<>>
    /\ contents' = Translated /\ contents' # <<>>
    /\ UNCHANGED <<turns, signatures, next>>

ToolsNext == ClientAdds \/ GeminiAnswers \/ OtherAnswers \/ Restart \/ AskGemini

ToolsSpec == ToolsInit /\ [][ToolsNext]_toolsVars

\* ---- Properties ----

\* The parts that must arrive, whatever turns they are put in: a result goes by
\* the name of the latest call before it that has its id.
Owed(i) ==
    LET calls == UNION {ToSet(turns[j].calls) : j \in 1 .. i - 1}
        named == {c.name : c \in {x \in calls : x.id = turns[i].answers}}
    IN CASE turns[i].role = "system" -> <<>>
         [] turns[i].role = "assistant" /\ turns[i].calls # <<>> ->
               [k \in DOMAIN turns[i].calls |-> <<"call", turns[i].calls[k].name>>]
         [] turns[i].role = "tool" -> <<<<"response", IF named = {} THEN Nameless ELSE Max(named)>>>>
         [] OTHER -> <<<<"text", Nameless>>>>

\* Whatever the process has forgotten and whoever gave the earlier answers, Gemini
\* is sent every call and every result once and in order; results are under the
\* names of their calls and never spread over two turns in a row; the first call
\* of every turn is signed; and no call bears the signature of another one.
ToolTurnsKept ==
    contents # <<>> =>
        LET parts == FlattenSeq([i \in DOMAIN contents |-> contents[i].parts])
        IN /\ [i \in DOMAIN parts |-> <<parts[i].type, parts[i].name>>]
                = FlattenSeq([i \in DOMAIN turns |-> Owed(i)])
           /\ \A i \in 1 .. Len(contents) - 1 : ~(OnlyResponses(contents[i]) /\ OnlyResponses(contents[i + 1]))
           /\ \A i \in DOMAIN contents :
                 /\ contents[i].parts[1].type = "call" => contents[i].parts[1].signature # Unsigned
                 /\ \A j \in DOMAIN contents[i].parts :
                       contents[i].parts[j].signature \in {Unsigned, Skip, contents[i].parts[j].name}
====
