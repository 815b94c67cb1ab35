---- MODULE Responses ----
(***************************************************************************)
(* POST /v1/responses: input items become chat messages, the conversation  *)
(* behind a response is stored, and later calls build on it through        *)
(* previous_response_id and item_reference.                                *)
(*                                                                         *)
(* One user.  Responses are numbered in the order of their requests.       *)
(* Contents are named by the item that brought them, names and arguments   *)
(* of calls are left out.  The orchestrator is a call that answers or      *)
(* fails (module Dispatch), the events of a stream are in ResponseEvents.  *)
(***************************************************************************)
EXTENDS Integers, Sequences, SequencesExt, FiniteSets, Filtering

CONSTANTS
    Response,     \* 1 .. n
    Instructed,   \* requests that bring instructions
    MaxMessages,  \* the most messages a chat request takes
    MaxInput,     \* bound: MaxInput[r] items in the input of r
    Answered,     \* bound: requests the orchestrator may answer
    MaxLost       \* bound: responses whose row is lost

VARIABLES
    request,  \* what each request asks: previous, input and way
    pc,       \* where it is
    found,    \* the history it read
    sent,     \* the messages the orchestrator was given
    talk,     \* the conversation to store
    replied,  \* the items of its response
    histories,\* response_store: histories by response id
    items,    \* response_store: items by id
    told,     \* history: the items of the whole chain, references resolved
    lost      \* history: responses whose row was not written, or is gone

responsesVars == <<request, pc, found, sent, talk, replied, histories, items, told, lost>>

NoResponse == 0
NoId == <<"none", 0, 0>>

\* What get_history finds: nothing, or the turns of the conversation.
NoHistory == [stored |-> FALSE, turns |-> <<>>]
History(turns) == [stored |-> TRUE, turns |-> turns]

\* Items: what they are, who made them (as message role), the call they make
\* or answer, and for a reference the id it names.
Item(type, role, id, call) == [type |-> type, role |-> role, id |-> id, call |-> call]
Say(id) == Item("message", "user", id, NoId)
TextItem(id) == Item("message", "assistant", id, NoId)
Call(id, call) == Item("function_call", "assistant", id, call)
Result(id, call) == Item("function_call_output", "tool", id, call)
Reference(id) == Item("item_reference", "none", id, NoId)

\* ---- Messages ----

ChatMessage(role, says, calls, answers) ==
    [role |-> role, says |-> says, calls |-> calls, answers |-> answers]

IsCallingTurn(m) == m.role = "assistant" /\ m.calls # <<>>

\* _append_item: consecutive calls belong to one assistant turn.
AppendItem(messages, item) ==
    CASE item.type = "function_call" ->
            IF messages # <<>> /\ IsCallingTurn(Last(messages))
            THEN [messages EXCEPT ![Len(messages)].calls = Append(@, item.call)]
            ELSE Append(messages, ChatMessage("assistant", NoId, <<item.call>>, NoId))
      [] item.type = "function_call_output" ->
            Append(messages, ChatMessage("tool", item.id, <<>>, item.call))
      [] OTHER -> Append(messages, ChatMessage(item.role, item.id, <<>>, NoId))

\* References are looked up, those that lead nowhere are dropped.
Resolved(input, known) ==
    LET named(item) == {k \in known : k.id = item.id}
        Found(item) ==
            IF item.type # "item_reference" THEN <<item>>
            ELSE IF named(item) = {} THEN <<>> ELSE <<CHOOSE k \in named(item) : TRUE>>
    IN FlattenSeq([i \in DOMAIN input |-> Found(input[i])])

\* What the first items have become.
Appended(list) ==
    LET upTo[n \in 0 .. Len(list)] == IF n = 0 THEN <<>> ELSE AppendItem(upTo[n - 1], list[n])
    IN upTo

InputToMessages(input, known) ==
    LET list == Resolved(input, known) IN Appended(list)[Len(list)]

\* _repair_tool_pairs: a result whose call is in no earlier assistant turn goes
\* on as the user's text.
Repair(messages) ==
    [i \in DOMAIN messages |->
        IF messages[i].role = "tool"
           /\ \A j \in 1 .. i - 1 : messages[i].answers \notin ToSet(messages[j].calls)
        THEN [messages[i] EXCEPT !.role = "user"]
        ELSE messages[i]]

\* Mutant: each input is repaired by itself.
ConversationOfRepaired(history, input) == history \o Repair(input)

Conversation(history, input) == Repair(history \o input)

System == ChatMessage("system", NoId, <<>>, NoId)
ToChat(r, conversation) ==
    IF r \in Instructed THEN <<System>> \o conversation ELSE conversation

\* output_items and assistant_turn: the text, if any, then the calls.
OfType(out, type) == Only(out, {item \in ToSet(out) : item.type = type})
TextOf(out) == OfType(out, "message")
CallsOf(out) == OfType(out, "function_call")
AssistantTurn(out) ==
    ChatMessage("assistant",
            IF TextOf(out) = <<>> THEN NoId ELSE TextOf(out)[1].id,
            [i \in DOMAIN CallsOf(out) |-> CallsOf(out)[i].call],
            NoId)

\* ---- Requests ----

\* A client asks on when it has its response, stored or not.
Over(r) == pc[r] \in {"saving late", "done", "failed", "refused", "not found"}
Shown(r) == pc[r] \in {"saving late", "done"} /\ replied[r] # <<>>
Known == {r \in Response : Shown(r)}
ShownItems == UNION {ToSet(replied[r]) : r \in Known}
UnknownCall == <<"call", 0, 9>>

\* What a client may put in: something to say, items it was shown, again or by
\* reference, and results of the calls it was asked for, or of an unknown one.
InputItems(r, i) ==
    {Say(<<"in", r, i>>)}
    \cup {Reference(o.id) : o \in ShownItems}
    \cup {o \in ShownItems : o.type = "function_call"}
    \cup {Result(<<"in", r, i>>, c) :
              c \in {UnknownCall} \cup {o.call : o \in {x \in ShownItems : x.type = "function_call"}}}

Inputs(r) ==
    UNION {{input \in [1 .. n -> UNION {InputItems(r, i) : i \in 1 .. n}] :
                \A i \in 1 .. n : input[i] \in InputItems(r, i)} : n \in 0 .. MaxInput[r]}

\* A plain stream, a call that is answered whole (a stream with tools is such a
\* call, replayed), or one that asks not to be stored.
Way == {"stream", "whole", "unstored"}
Ways(r) == IF r \in Answered THEN Way ELSE {"whole"}
NoRequest == [previous |-> NoResponse, input |-> <<>>, way |-> "whole"]

ResponsesInit ==
    /\ request = [r \in Response |-> NoRequest]
    /\ pc = [r \in Response |-> "idle"]
    /\ found = [r \in Response |-> NoHistory] /\ sent = [r \in Response |-> <<>>]
    /\ talk = [r \in Response |-> <<>>] /\ replied = [r \in Response |-> <<>>]
    /\ histories = [r \in Response |-> NoHistory] /\ items = {}
    /\ told = [r \in Response |-> <<>>] /\ lost = {}

Goto(r, label) == pc' = [pc EXCEPT ![r] = label]

\* _load_response_state, its first query.
Ask(r) ==
    /\ pc[r] = "idle" /\ \A q \in 1 .. r - 1 : Over(q)
    /\ \E p \in Known \cup {NoResponse}, input \in Inputs(r), way \in Ways(r) :
         /\ p = NoResponse => input # <<>>
         /\ request' = [request EXCEPT ![r] =
                [previous |-> p, input |-> input, way |-> way]]
         /\ found' = [found EXCEPT ![r] = IF p = NoResponse THEN History(<<>>) ELSE histories[p]]
    /\ Goto(r, "loading")
    /\ UNCHANGED <<sent, talk, replied, histories, items, told, lost>>

\* Its second query, then to_chat_request.
Build(r) ==
    /\ pc[r] = "loading" /\ found[r].stored
    /\ LET q == request[r]
           conversation == Conversation(found[r].turns, InputToMessages(q.input, items))
           chat == ToChat(r, conversation)
       IN /\ told' = [told EXCEPT ![r] =
                 (IF q.previous = NoResponse THEN <<>> ELSE told[q.previous] \o replied[q.previous])
                 \o Resolved(q.input, items)]
          /\ IF conversation = <<>> \/ Len(chat) > MaxMessages
             THEN Goto(r, "refused") /\ UNCHANGED <<sent, talk>>
             ELSE /\ Goto(r, "calling")
                  /\ sent' = [sent EXCEPT ![r] = chat]
                  /\ talk' = [talk EXCEPT ![r] = conversation]
    /\ UNCHANGED <<request, found, replied, histories, items, lost>>

\* 400 previous_response_not_found.
NotFound(r) ==
    /\ pc[r] = "loading" /\ ~found[r].stored
    /\ Goto(r, "not found")
    /\ UNCHANGED <<request, found, sent, talk, replied, histories, items, told, lost>>

\* The ids of calls are new, or the gateway left them out and they are counted
\* from zero in every response.
Replies(r) ==
    LET text == TextItem(<<"out", r, 1>>)
        call(n) == Call(<<"out", r, n>>, <<"call", r, n>>)
        counted == Call(<<"out", r, 2>>, <<"call", 0, 0>>)
    IN IF request[r].way = "stream" THEN {<<text>>}
       ELSE {<<text, call(2)>>, <<call(2), call(3)>>, <<counted>>}

\* Mutant: every response is sent first.
SavedAfterAll(r) == "saving late"

\* A response that was not streamed, or whose stream is a replay, is stored
\* before the client sees any of it; a stream is told first.
Saving(r) == IF request[r].way = "stream" THEN "saving late" ELSE "saving"

Reply(r) ==
    /\ pc[r] = "calling" /\ r \in Answered
    /\ \E out \in Replies(r) : replied' = [replied EXCEPT ![r] = out]
    /\ Goto(r, IF request[r].way = "unstored" THEN "done" ELSE Saving(r))
    /\ UNCHANGED <<request, found, sent, talk, histories, items, told, lost>>

Fail(r) ==
    /\ pc[r] = "calling" /\ Goto(r, "failed")
    /\ UNCHANGED <<request, found, sent, talk, replied, histories, items, told, lost>>

Lose(r) == Cardinality(lost) < MaxLost /\ lost' = lost \cup {r}

\* _save_response_state: one transaction.  A history that is too large is left
\* out of it.
Save(r) ==
    /\ pc[r] \in {"saving", "saving late"} /\ Goto(r, "done")
    /\ \/ /\ histories' = [histories EXCEPT ![r] = History(Append(talk[r], AssistantTurn(replied[r])))]
          /\ UNCHANGED lost
       \/ Lose(r) /\ UNCHANGED histories
    /\ items' = items \cup ToSet(replied[r])
                \cup {i \in ToSet(request[r].input) : i.id[1] = "out" /\ i.type # "item_reference"}
    /\ UNCHANGED <<request, found, sent, talk, replied, told>>

\* It fails without a word, or the reader of a stream leaves before it is done.
Unsaved(r) ==
    /\ pc[r] \in {"saving", "saving late"} /\ Goto(r, "done")
    /\ Lose(r)
    /\ UNCHANGED <<request, found, sent, talk, replied, histories, items, told>>

\* Rows are too old, or purged: that of a response, a moment before those of its
\* items (or long before, when a later request brought these again).
Expire(r) ==
    /\ histories[r].stored /\ histories' = [histories EXCEPT ![r] = NoHistory] /\ Lose(r)
    /\ items' \in {items, items \ ToSet(replied[r])}
    /\ UNCHANGED <<request, pc, found, sent, talk, replied, told>>

ResponsesNext ==
    \E r \in Response :
        \/ Ask(r) \/ Build(r) \/ NotFound(r) \/ Reply(r) \/ Fail(r)
        \/ Save(r) \/ Unsaved(r) \/ Expire(r)

ResponsesSpec == ResponsesInit /\ [][ResponsesNext]_responsesVars

\* ---- Properties ----

\* Something that is said: a text, a call, or the result of a call, under its role.
Fact(kind, id, call) == [kind |-> kind, id |-> id, call |-> call]

\* What a sequence of items says, whoever put them in.
Facts(chain) ==
    [i \in DOMAIN chain |->
        LET item == chain[i]
            asked == \E j \in 1 .. i - 1 :
                        chain[j].type = "function_call" /\ chain[j].call = item.call
        IN CASE item.type = "message" -> Fact(item.role, item.id, NoId)
             [] item.type = "function_call" -> Fact("call", NoId, item.call)
             [] OTHER -> Fact(IF asked THEN "tool" ELSE "user", item.id, item.call)]

\* What messages say.
FactsOf(m) ==
    (IF m.says = NoId THEN <<>> ELSE <<Fact(m.role, m.says, m.answers)>>)
    \o [i \in DOMAIN m.calls |-> Fact("call", NoId, m.calls[i])]

Said(messages) == FlattenSeq([i \in DOMAIN messages |-> FactsOf(messages[i])])

\* A chained call sends the model exactly what the client would have sent with
\* the whole conversation in 'input': every item of every earlier request and
\* response in order, results paired with their calls wherever in the chain
\* those are, and the request's own instructions but nobody else's.
ConversationKept ==
    \A r \in Response :
        sent[r] # <<>> =>
            LET chat == sent[r]
            IN Said(chat) = Facts(told[r])
               /\ {i \in DOMAIN chat : chat[i].role = "system"}
                    = IF r \in Instructed THEN {1} ELSE {}

\* A response the client has seen whole can be built upon: a call that names it
\* finds it unless the client did not want it stored, its row is gone, or it was
\* streamed, and so told before it was stored.
ChainFound ==
    \A r \in Response :
        pc[r] = "not found" =>
            LET p == request[r].previous
            IN request[p].way # "whole" \/ p \in lost
====
