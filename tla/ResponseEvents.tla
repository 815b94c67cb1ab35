---- MODULE ResponseEvents ----
(***************************************************************************)
(* The two generators that write the event stream of POST /v1/responses:   *)
(* stream_events follows the chunks of the orchestrator, replay_events     *)
(* tells a response that is already complete.  One step yields one event,  *)
(* so a client may leave, and a provider may fail, between any two.        *)
(*                                                                         *)
(* Module EventProtocol says what the client may rely on.  Texts are       *)
(* sequences of pieces; ids and the model names are left out.              *)
(***************************************************************************)
EXTENDS Integers, Sequences, SequencesExt

CONSTANTS
    Piece,      \* what one chunk may carry
    MaxChunks,  \* bound: chunks of one stream
    Outputs     \* the outputs of complete responses: sequences of items

VARIABLES
    source,   \* "stream" or "replay"
    output,   \* replay: the items of the response
    at,       \* where the generator is
    idx,      \* replay: the current item
    started,  \* stream: has the message item been opened?
    delta,    \* stream: what the current chunk carries, <<>> if nothing
    chunks,   \* stream: chunks read so far
    text,     \* stream: text_parts
    event,    \* the last event: its type, output_index and content
    seq       \* its sequence number

eventsVars == <<source, output, at, idx, started, delta, chunks, text, event, seq>>

Text == SeqOf(Piece, MaxChunks)
Event(type, index, body) == [type |-> type, index |-> index, body |-> body]
Message(body) == [kind |-> "message", body |-> body]

\* A response has an item at least (output_items).
ASSUME OutputsAssumption ==
    /\ MaxChunks \in Nat \ {0}
    /\ \A o \in Outputs :
        o \in Seq([kind : {"message", "function_call"}, body : Text]) /\ o # <<>>

EventsInit ==
    /\ \/ source = "stream" /\ output = <<>>
       \/ source = "replay" /\ output \in Outputs
    /\ at = "created" /\ idx = 1 /\ started = FALSE /\ delta = <<>> /\ chunks = 0
    /\ text = <<>>
    /\ event = Event("none", 0, <<>>) /\ seq = 0

\* ev(): every event takes the next number.
Yield(type, index, body) ==
    /\ event' = Event(type, index, body)
    /\ seq' = seq + 1

Created ==
    /\ at = "created" /\ at' = "in_progress"
    /\ Yield("created", 0, <<>>)
    /\ UNCHANGED <<source, output, idx, started, delta, chunks, text>>

InProgress ==
    /\ at = "in_progress" /\ at' = IF source = "stream" THEN "reading" ELSE "item"
    /\ Yield("in_progress", 0, <<>>)
    /\ UNCHANGED <<source, output, idx, started, delta, chunks, text>>

\* ---- stream_events ----

ItemAdded == Yield("item.added", 0, <<>>)
PartAdded == Yield("part.added", 0, <<>>)

\* The next chunk, whose content may be empty.  The first one opens the item
\* before its content is told.
FirstChunk ==
    /\ at = "reading" /\ ~started /\ chunks < MaxChunks
    /\ delta' \in SeqOf(Piece, 1)
    /\ started' = TRUE /\ chunks' = chunks + 1 /\ at' = "part"
    /\ ItemAdded
    /\ UNCHANGED <<source, output, idx, text>>

FirstPart ==
    /\ at = "part" /\ at' = IF delta = <<>> THEN "reading" ELSE "delta"
    /\ PartAdded
    /\ UNCHANGED <<source, output, idx, started, delta, chunks, text>>

\* The content of the chunk that opened the item, or of a later one.
Told(said) ==
    /\ text' = text \o said
    /\ Yield("text.delta", 0, said)

FirstDelta ==
    /\ at = "delta" /\ at' = "reading"
    /\ Told(delta) /\ delta' = <<>>
    /\ UNCHANGED <<source, output, idx, started, chunks>>

\* A later chunk without content yields nothing.
LaterChunk ==
    /\ at = "reading" /\ started /\ chunks < MaxChunks
    /\ \E p \in Piece : Told(<<p>>)
    /\ chunks' = chunks + 1
    /\ UNCHANGED <<source, output, at, idx, started, delta>>

\* Mutant: the stream without chunks has its item told by its end alone.
ChunksEndUnopened ==
    /\ at = "reading"
    /\ Yield("text.done", 0, text)
    /\ at' = "part.done"
    /\ UNCHANGED <<source, output, idx, started, delta, chunks, text>>

\* The chunks end.  A stream without any still tells an item, an empty one.
ChunksEnd ==
    /\ at = "reading"
    /\ IF started
       THEN /\ Yield("text.done", 0, text)
            /\ at' = "part.done"
       ELSE /\ ItemAdded
            /\ at' = "empty"
    /\ UNCHANGED <<source, output, idx, started, delta, chunks, text>>

EmptyItem ==
    /\ \/ at = "empty" /\ at' = "empty.done" /\ PartAdded
       \/ at = "empty.done" /\ at' = "part.done" /\ Yield("text.done", 0, text)
    /\ UNCHANGED <<source, output, idx, started, delta, chunks, text>>

Closing ==
    /\ \/ at = "part.done" /\ at' = "item.done" /\ Yield("part.done", 0, text)
       \/ at = "item.done" /\ at' = "completed" /\ Yield("item.done", 0, text)
    /\ UNCHANGED <<source, output, idx, started, delta, chunks, text>>

\* on_complete has the text before the client hears that it is complete; what
\* becomes of it is in module Responses.
Completed ==
    /\ at = "completed" /\ at' = "end"
    /\ Yield("completed", 1, <<Message(text)>>)
    /\ UNCHANGED <<source, output, idx, started, delta, chunks, text>>

\* The orchestrator raises while a chunk is awaited: create_response sends the
\* failure with its own number.
ProviderFails ==
    /\ at = "reading" /\ at' = "end"
    /\ event' = Event("failed", 0, <<>>) /\ seq' = 0
    /\ UNCHANGED <<source, output, idx, started, delta, chunks, text>>

StreamStep ==
    \/ FirstChunk \/ FirstPart \/ FirstDelta \/ LaterChunk \/ ChunksEnd \/ EmptyItem
    \/ Closing \/ Completed \/ ProviderFails

\* ---- replay_events ----

Current == output[idx]
Tell(type, body) == Yield(type, idx - 1, body)

ReplayMessage ==
    /\ idx \in DOMAIN output /\ Current.kind = "message"
    /\ \/ at = "item" /\ at' = "part" /\ Tell("item.added", <<>>)
       \/ /\ at = "part"
          /\ at' = IF Current.body = <<>> THEN "text" ELSE "delta"
          /\ Tell("part.added", <<>>)
       \/ at = "delta" /\ at' = "text" /\ Tell("text.delta", Current.body)
       \/ at = "text" /\ at' = "part.done" /\ Tell("text.done", Current.body)
       \/ at = "part.done" /\ at' = "item.done" /\ Tell("part.done", Current.body)
    /\ UNCHANGED idx

ReplayCall ==
    /\ idx \in DOMAIN output /\ Current.kind = "function_call"
    /\ \/ at = "item" /\ at' = "delta" /\ Tell("item.added", <<>>)
       \/ at = "delta" /\ at' = "arguments" /\ Tell("arguments.delta", Current.body)
       \/ at = "arguments" /\ at' = "item.done" /\ Tell("arguments.done", Current.body)
    /\ UNCHANGED idx

ReplayItemDone ==
    /\ idx \in DOMAIN output
    /\ at = "item.done" /\ at' = "item" /\ idx' = idx + 1
    /\ Tell("item.done", Current.body)

ReplayCompleted ==
    /\ at = "item" /\ idx > Len(output) /\ at' = "end"
    /\ Tell("completed", output)
    /\ UNCHANGED idx

ReplayStep ==
    /\ ReplayMessage \/ ReplayCall \/ ReplayItemDone \/ ReplayCompleted
    /\ UNCHANGED <<source, output, started, delta, chunks, text>>

EventsNext ==
    \/ Created \/ InProgress
    \/ source = "stream" /\ StreamStep
    \/ source = "replay" /\ ReplayStep

EventsSpec == EventsInit /\ [][EventsNext]_eventsVars

\* ---- What the client may rely on ----

\* The state of the protocol, as the last event leaves it.
Phase ==
    CASE event.type = "none" -> "silent"
      [] event.type \in {"created", "completed", "failed"} -> event.type
      [] OTHER -> "open"

Between == {"none", "created", "in_progress", "item.done", "completed", "failed"}
OpenItem == IF event.type \in Between THEN "none"
            ELSE IF source = "stream" THEN "message" ELSE Current.kind

PartStage ==
    CASE event.type \in {"part.added", "text.delta", "arguments.delta"} -> "open"
      [] event.type = "text.done" -> "told"
      [] event.type \in {"part.done", "arguments.done"} -> "closed"
      [] OTHER -> "none"

Heard ==
    IF event.type \in Between \cup {"item.added", "part.added"} THEN <<>>
    ELSE IF source = "stream" THEN text ELSE Current.body

Closed == IF source = "replay" THEN SubSeq(output, 1, idx - 1)
          ELSE IF event.type \in {"item.done", "completed"} THEN <<Message(text)>> ELSE <<>>

Protocol == INSTANCE EventProtocol WITH
    phase <- Phase, item <- OpenItem, part <- PartStage, heard <- Heard, closed <- Closed,
    last <- event, number <- seq

\* Whichever generator writes it, a stream opens, tells and closes its items in
\* order and one at a time, numbers its events without a gap, closes every item
\* with exactly what its deltas said, and completes with the items it closed.
ImplementsProtocol == Protocol!Spec
====
