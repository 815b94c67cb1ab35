---- MODULE EventProtocol ----
(***************************************************************************)
(* What a client of the Responses API may rely on, whichever code writes   *)
(* the stream: the order and the nesting of the events, their numbering,   *)
(* and that an item's closing events repeat exactly what its deltas said.  *)
(***************************************************************************)
EXTENDS Integers, Sequences

CONSTANT Text  \* texts and arguments, as sequences of pieces

VARIABLES
    phase,  \* "silent", "created", "open", "completed" or "failed"
    item,   \* the kind of the item that is open: "none", "message" or "function_call"
    part,   \* how far that item is: "none", "open", "told" or "closed"
    heard,  \* what its deltas have said
    closed, \* the items that are complete: kind and content
    last,   \* the last event: its type, output_index and content
    number  \* its sequence number

protocolVars == <<phase, item, part, heard, closed, last, number>>

Event(type, index, body) == [type |-> type, index |-> index, body |-> body]
NoEvent == Event("none", 0, <<>>)

Init ==
    /\ phase = "silent" /\ item = "none" /\ part = "none"
    /\ heard = <<>> /\ closed = <<>> /\ last = NoEvent /\ number = 0

Emit(type, body) ==
    /\ last' = Event(type, Len(closed), body)
    /\ number' = number + 1

Created ==
    /\ phase = "silent" /\ phase' = "created"
    /\ Emit("created", <<>>)
    /\ UNCHANGED <<item, part, heard, closed>>

InProgress ==
    /\ phase = "created" /\ phase' = "open"
    /\ Emit("in_progress", <<>>)
    /\ UNCHANGED <<item, part, heard, closed>>

ItemAdded ==
    /\ phase = "open" /\ item = "none"
    /\ item' \in {"message", "function_call"} /\ part' = "none" /\ heard' = <<>>
    /\ Emit("item.added", <<>>)
    /\ UNCHANGED <<phase, closed>>

PartAdded ==
    /\ item = "message" /\ part = "none" /\ part' = "open"
    /\ Emit("part.added", <<>>)
    /\ UNCHANGED <<phase, item, heard, closed>>

\* A text is told in pieces, the arguments of a call in one.
TextDelta ==
    /\ item = "message" /\ part = "open"
    /\ \E said \in Text \ {<<>>} :
         heard' = heard \o said /\ Emit("text.delta", said)
    /\ UNCHANGED <<phase, item, part, closed>>

ArgumentsDelta ==
    /\ item = "function_call" /\ part = "none" /\ part' = "open"
    /\ \E said \in Text : heard' = said /\ Emit("arguments.delta", said)
    /\ UNCHANGED <<phase, item, closed>>

TextDone ==
    /\ item = "message" /\ part = "open" /\ part' = "told"
    /\ Emit("text.done", heard)
    /\ UNCHANGED <<phase, item, heard, closed>>

PartDone ==
    /\ item = "message" /\ part = "told" /\ part' = "closed"
    /\ Emit("part.done", heard)
    /\ UNCHANGED <<phase, item, heard, closed>>

ArgumentsDone ==
    /\ item = "function_call" /\ part = "open" /\ part' = "closed"
    /\ Emit("arguments.done", heard)
    /\ UNCHANGED <<phase, item, heard, closed>>

ItemDone ==
    /\ item # "none" /\ part = "closed"
    /\ closed' = Append(closed, [kind |-> item, body |-> heard])
    /\ item' = "none" /\ part' = "none" /\ heard' = <<>>
    /\ Emit("item.done", heard)
    /\ UNCHANGED phase

\* The response carries the items that were closed, and at least one.
Completed ==
    /\ phase = "open" /\ item = "none" /\ closed # <<>>
    /\ phase' = "completed"
    /\ Emit("completed", closed)
    /\ UNCHANGED <<item, part, heard, closed>>

\* A failure may come anywhere before that: it abandons the item that is open
\* and does not go on with the numbering.
Failed ==
    /\ phase \in {"created", "open"} /\ phase' = "failed"
    /\ item' = "none" /\ part' = "none" /\ heard' = <<>>
    /\ last' = Event("failed", 0, <<>>) /\ number' = 0
    /\ UNCHANGED closed

Next ==
    \/ Created \/ InProgress \/ ItemAdded \/ PartAdded
    \/ TextDelta \/ ArgumentsDelta \/ TextDone \/ PartDone \/ ArgumentsDone
    \/ ItemDone \/ Completed \/ Failed

Spec == Init /\ [][Next]_protocolVars
====
