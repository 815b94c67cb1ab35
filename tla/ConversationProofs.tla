---- MODULE ConversationProofs ----
(***************************************************************************)
(* Proofs about what a model is told of a conversation: the contents that  *)
(* module GeminiTools makes of the turns of a chat, for any number of      *)
(* turns, and the messages that module Responses makes of the items of a   *)
(* chain of requests, for any chain.                                       *)
(***************************************************************************)
EXTENDS GeminiTools, Responses, InductionLemmas, SequenceTheorems, FiniteSetTheorems, TLAPS

(* ----------------- conversations with tools for Gemini ----------------- *)

CallType == [id : Int, name : Nat]
TurnType == [role : {"user", "tool", "system", "assistant"}, calls : Seq(CallType), answers : Int]
PartType == [type : {"call", "response", "text"}, name : Nat, signature : Int]
ContentType == [role : {"user", "model"}, parts : Seq(PartType)]
AccType == [contents : Seq(ContentType), names : Seq(CallType)]

\* An element that no other exceeds is the greatest.
LEMMA MaxIs ==
    ASSUME NEW S \in SUBSET Int, NEW m \in S, \A x \in S : x <= m
    PROVE  Max(S) = m
<1>1. \A x \in S : (\A y \in S : x >= y) => x = m
  OBVIOUS
<1>2. \A y \in S : m >= y
  OBVIOUS
<1> QED
  BY <1>1, <1>2, Zenon DEF Max

\* Among numbers up to n that are not none there is a greatest.
LEMMA GreatestOf ==
    ASSUME NEW n \in Nat, NEW S \in SUBSET (1 .. n), S # {}
    PROVE  \E m \in S : \A x \in S : x <= m
<1> DEFINE above == {u \in Nat : \A x \in S : x <= u}
<1>1. n \in above
  OBVIOUS
<1>2. PICK m \in above : \A u \in above : m <= u
  BY <1>1, LeastElement
<1>3. m \in Nat /\ \A x \in S : x <= m
  OBVIOUS
<1>4. m \in S
  <2> SUFFICES ASSUME m \notin S PROVE FALSE
    OBVIOUS
  <2>1. PICK x \in S : TRUE
    OBVIOUS
  <2>2. m - 1 \in above
    BY <1>3, <2>1
  <2> QED
    BY <1>2, <1>3, <2>2
<1> QED
  BY <1>3, <1>4

\* What parts say, of everything that is sent.
Gist(parts) == [i \in DOMAIN parts |-> <<parts[i].type, parts[i].name>>]
GistType == {"call", "response", "text"} \X Nat
AllParts(cs) == FlattenSeq([i \in DOMAIN cs |-> cs[i].parts])

LEMMA GistConcat ==
    ASSUME NEW s \in Seq(PartType), NEW t \in Seq(PartType)
    PROVE  /\ Gist(s) \in Seq(GistType) /\ Gist(t) \in Seq(GistType)
           /\ Gist(s \o t) = Gist(s) \o Gist(t)
<1>1. \A u \in Seq(PartType) : Gist(u) \in Seq(GistType) /\ Len(Gist(u)) = Len(u)
  <2> TAKE u \in Seq(PartType)
  <2>1. Len(u) \in Nat /\ DOMAIN u = 1 .. Len(u) /\ \A i \in 1 .. Len(u) : u[i] \in PartType
    BY LenProperties, ElementOfSeq
  <2>2. \A i \in 1 .. Len(u) : <<u[i].type, u[i].name>> \in GistType
    BY <2>1 DEF PartType, GistType
  <2>3. Gist(u) \in [1 .. Len(u) -> GistType]
    BY <2>1, <2>2 DEF Gist
  <2> QED
    BY <2>1, <2>3, SeqDef, LenProperties
<1>2. PICK st : st = s \o t
  OBVIOUS
<1>3. /\ st \in Seq(PartType) /\ Len(st) = Len(s) + Len(t) /\ Len(s) \in Nat /\ Len(t) \in Nat
      /\ DOMAIN st = 1 .. Len(st) /\ DOMAIN s = 1 .. Len(s) /\ DOMAIN t = 1 .. Len(t)
      /\ \A i \in 1 .. Len(st) : st[i] = IF i <= Len(s) THEN s[i] ELSE t[i - Len(s)]
  BY <1>2, ConcatProperties, LenProperties
<1>4. PICK gs, gt, gst : gs = Gist(s) /\ gt = Gist(t) /\ gst = Gist(st)
  OBVIOUS
<1>5. PICK both : both = gs \o gt
  OBVIOUS
<1>6. gs \in Seq(GistType) /\ gt \in Seq(GistType) /\ gst \in Seq(GistType)
      /\ Len(gs) = Len(s) /\ Len(gt) = Len(t) /\ Len(gst) = Len(s) + Len(t)
  BY <1>1, <1>3, <1>4
<1>7. /\ both \in Seq(GistType) /\ Len(both) = Len(s) + Len(t)
      /\ \A i \in 1 .. Len(both) : both[i] = IF i <= Len(s) THEN gs[i] ELSE gt[i - Len(s)]
  BY <1>5, <1>6, ConcatProperties
<1>8. ASSUME NEW i \in 1 .. Len(s) + Len(t) PROVE gst[i] = both[i]
  <2>1. CASE i <= Len(s)
    <3>1. i \in DOMAIN s /\ i \in DOMAIN st /\ st[i] = s[i]
      BY <1>3, <2>1
    <3>2. gst[i] = <<s[i].type, s[i].name>> /\ gs[i] = <<s[i].type, s[i].name>>
      BY <1>4, <3>1 DEF Gist
    <3> QED
      BY <1>3, <1>7, <2>1, <3>2
  <2>2. CASE i > Len(s)
    <3>1. PICK k : k = i - Len(s)
      OBVIOUS
    <3>2. k \in DOMAIN t /\ i \in DOMAIN st /\ st[i] = t[k]
      BY <1>3, <2>2, <3>1
    <3>3. gst[i] = <<t[k].type, t[k].name>> /\ gt[k] = <<t[k].type, t[k].name>>
      BY <1>4, <3>2 DEF Gist
    <3> QED
      BY <1>3, <1>7, <2>2, <3>1, <3>3
  <2> QED
    BY <1>3, <2>1, <2>2
<1>9. gst = both
  BY <1>6, <1>7, <1>8, SeqEqual
<1> QED
  BY <1>1, <1>2, <1>4, <1>5, <1>9

\* A content more brings its parts.
LEMMA PartsAppend ==
    ASSUME NEW cs \in Seq(ContentType), NEW c \in ContentType
    PROVE  /\ AllParts(cs) \in Seq(PartType)
           /\ AllParts(Append(cs, c)) = AllParts(cs) \o c.parts
<1>1. PICK d, p, q : d = Append(cs, c) /\ p = [i \in DOMAIN cs |-> cs[i].parts] /\ q = [i \in DOMAIN d |-> d[i].parts]
  OBVIOUS
<1>2. /\ d \in Seq(ContentType) /\ Len(cs) \in Nat /\ Len(d) = Len(cs) + 1
      /\ DOMAIN cs = 1 .. Len(cs) /\ DOMAIN d = 1 .. Len(cs) + 1
      /\ d[Len(cs) + 1] = c /\ \A i \in 1 .. Len(cs) : d[i] = cs[i]
  BY <1>1, AppendProperties, LenProperties
<1>3. \A i \in 1 .. Len(cs) : cs[i].parts \in Seq(PartType)
  <2>1. \A i \in 1 .. Len(cs) : cs[i] \in ContentType
    BY ElementOfSeq
  <2> QED
    BY <2>1 DEF ContentType
<1>4. c.parts \in Seq(PartType)
  BY DEF ContentType
<1>5. p \in Seq(Seq(PartType)) /\ Len(p) = Len(cs)
  <2>1. p \in [1 .. Len(cs) -> Seq(PartType)]
    BY <1>1, <1>2, <1>3
  <2> QED
    BY <1>2, <2>1, SeqDef, LenProperties
<1>6. q = Append(p, c.parts)
  <2>1. PICK r : r = Append(p, c.parts)
    OBVIOUS
  <2>2. /\ r \in Seq(Seq(PartType)) /\ Len(r) = Len(cs) + 1
        /\ r[Len(cs) + 1] = c.parts /\ \A i \in 1 .. Len(cs) : r[i] = p[i]
    BY <1>4, <1>5, <2>1, AppendProperties
  <2>3. q \in Seq(Seq(PartType)) /\ Len(q) = Len(cs) + 1
    <3>1. \A i \in 1 .. Len(cs) + 1 : d[i].parts \in Seq(PartType)
      BY <1>2, <1>3, <1>4
    <3>2. q \in [1 .. Len(cs) + 1 -> Seq(PartType)]
      BY <1>1, <1>2, <3>1
    <3> QED
      BY <1>2, <3>2, SeqDef, LenProperties
  <2>4. ASSUME NEW i \in 1 .. Len(cs) + 1 PROVE q[i] = r[i]
    <3>1. CASE i = Len(cs) + 1
      BY <1>1, <1>2, <2>2, <3>1
    <3>2. CASE i \in 1 .. Len(cs)
      <4>1. q[i] = cs[i].parts /\ p[i] = cs[i].parts
        BY <1>1, <1>2, <3>2
      <4> QED
        BY <2>2, <3>2, <4>1
    <3> QED
      BY <1>2, <3>1, <3>2
  <2>5. q = r
    BY <2>2, <2>3, <2>4, SeqEqual
  <2> QED
    BY <2>1, <2>5
<1>7. FlattenSeq(p) \in Seq(PartType) /\ FlattenSeq(Append(p, c.parts)) = FlattenSeq(p) \o c.parts
  BY <1>4, <1>5, FlattenAppend
<1>8. AllParts(cs) = FlattenSeq(p) /\ AllParts(d) = FlattenSeq(q)
  BY <1>1 DEF AllParts
<1> QED
  BY <1>1, <1>6, <1>7, <1>8

\* Adding at the end of a sequence is joining with what is added.
LEMMA ThenOne ==
    ASSUME NEW S, NEW s \in Seq(S), NEW t \in Seq(S), NEW x \in S
    PROVE  s \o Append(t, x) = (s \o t) \o <<x>>
<1>1. <<x>> \in Seq(S)
  OBVIOUS
<1>2. Append(t, x) = t \o <<x>>
  BY AppendIsConcat
<1>3. s \o (t \o <<x>>) = (s \o t) \o <<x>>
  BY <1>1, ConcatAssociative
<1> QED
  BY <1>2, <1>3

LEMMA OtherParts ==
    ASSUME NEW R, NEW Q, NEW c \in [role : R, parts : Q], NEW u
    PROVE  [c EXCEPT !.parts = u] = [role |-> c.role, parts |-> u]
OBVIOUS

\* The contents when one of them gets a part more.
Grown(cs, n, p) == [cs EXCEPT ![n].parts = Append(@, p)]

\* A part more for the last content is a part more in all.
LEMMA PartsGrow ==
    ASSUME NEW cs, cs \in Seq(ContentType), NEW n \in Nat, n = Len(cs), n > 0, NEW p \in PartType,
           NEW d, d = Grown(cs, n, p)
    PROVE  /\ d \in Seq(ContentType) /\ Len(d) = n
           /\ Continues(AllParts(d), AllParts(cs), <<p>>)
           /\ \A i \in 1 .. n - 1 : d[i] = cs[i]
           /\ d[n] = [role |-> cs[n].role, parts |-> Append(cs[n].parts, p)]
<1>1. /\ n \in Nat /\ DOMAIN cs = 1 .. n /\ n \in 1 .. n /\ n - 1 \in Nat
      /\ \A i \in 1 .. n : cs[i] \in ContentType
  BY LenProperties, ElementOfSeq
<1>2. PICK c, e : c = cs[n] /\ e = [role |-> cs[n].role, parts |-> Append(cs[n].parts, p)]
  OBVIOUS
<1>3. c \in ContentType /\ e \in ContentType /\ c.parts \in Seq(PartType) /\ e.parts = Append(c.parts, p)
  <2>1. c \in ContentType /\ c.parts \in Seq(PartType) /\ c.role \in {"user", "model"}
    BY <1>1, <1>2 DEF ContentType
  <2>2. Append(c.parts, p) \in Seq(PartType)
    BY <2>1, AppendProperties
  <2> QED
    BY <1>2, <2>1, <2>2 DEF ContentType
<1>4. d = [i \in 1 .. n |-> IF i = n THEN e ELSE cs[i]]
  <2>1. PICK u : u = Append(c.parts, p)
    OBVIOUS
  <2>2. [c EXCEPT !.parts = u] = [role |-> c.role, parts |-> u]
    BY <1>3, OtherParts DEF ContentType
  <2>3. [c EXCEPT !.parts = Append(@, p)] = e
    BY <1>2, <2>1, <2>2
  <2>4. d = [cs EXCEPT ![n] = [cs[n] EXCEPT !.parts = Append(@, p)]]
    BY DEF Grown
  <2> QED
    BY <1>1, <1>2, <2>3, <2>4
<1>5. d \in [1 .. n -> ContentType]
  BY <1>1, <1>3, <1>4
<1>6. d \in Seq(ContentType) /\ Len(d) = n
  BY <1>1, <1>5, SeqDef, LenProperties
<1>7. PICK f : f = [i \in 1 .. n - 1 |-> cs[i]]
  OBVIOUS
<1>8. f \in Seq(ContentType) /\ Len(f) = n - 1
  <2>1. f \in [1 .. n - 1 -> ContentType]
    BY <1>1, <1>7
  <2> QED
    BY <1>1, <2>1, SeqDef, LenProperties
<1>9. ASSUME NEW x \in ContentType, NEW s \in Seq(ContentType), Len(s) = n, s[n] = x,
             \A i \in 1 .. n - 1 : s[i] = f[i]
      PROVE  s = Append(f, x)
  <2>1. PICK g : g = Append(f, x)
    OBVIOUS
  <2>2. /\ g \in Seq(ContentType) /\ Len(g) = n /\ g[n] = x
        /\ \A i \in 1 .. n - 1 : g[i] = f[i]
    BY <1>1, <1>8, <2>1, AppendProperties
  <2>3. \A i \in 1 .. n : s[i] = g[i]
    <3>1. \A i \in 1 .. n : i \in 1 .. n - 1 \/ i = n
      BY <1>1
    <3> QED
      BY <1>9, <2>2, <3>1
  <2>4. s = g
    BY <1>9, <2>2, <2>3, SeqEqual
  <2> QED
    BY <2>1, <2>4
<1>10. cs = Append(f, c)
  BY <1>1, <1>2, <1>3, <1>7, <1>9
<1>11. d = Append(f, e)
  <2>1. d[n] = e /\ \A i \in 1 .. n - 1 : d[i] = f[i]
    BY <1>1, <1>4, <1>7
  <2> QED
    BY <1>3, <1>6, <1>9, <2>1
<1>12. PICK a : a = AllParts(f)
  OBVIOUS
<1>13. a \in Seq(PartType) /\ AllParts(cs) = a \o c.parts /\ AllParts(d) = a \o e.parts
  BY <1>3, <1>8, <1>10, <1>11, <1>12, PartsAppend
<1>14. AllParts(d) = AllParts(cs) \o <<p>>
  <2>1. a \o Append(c.parts, p) = (a \o c.parts) \o <<p>>
    BY <1>3, <1>13, ThenOne
  <2> QED
    BY <1>3, <1>13, <2>1
<1>15. d[n] = e /\ \A i \in 1 .. n - 1 : d[i] = cs[i]
  BY <1>1, <1>4
<1> QED
  BY <1>2, <1>6, <1>14, <1>15 DEF Continues

\* What a turn of calls becomes, and the result of a call.
CallsSent(calls) ==
    Content("model", [i \in DOMAIN calls |-> Part("call", calls[i].name, Sign(calls, i))])
ResultSent(acc, turn) == Part("response", NameOf(acc.names, turn.answers), Unsigned)
TextSent(turn) ==
    Content(IF turn.role = "assistant" THEN "model" ELSE "user", <<Part("text", Nameless, Unsigned)>>)
Joined(acc, turn) == Grown(acc.contents, Len(acc.contents), ResultSent(acc, turn))
Joining(acc) == Len(acc.contents) > 0 /\ OnlyResponses(acc.contents[Len(acc.contents)])
CallingTurn(turn) == turn.role = "assistant" /\ turn.calls # <<>>

LEMMA OtherContents ==
    ASSUME NEW C, NEW N, NEW acc \in [contents : C, names : N], NEW u, NEW v
    PROVE  /\ [acc EXCEPT !.contents = u] = [contents |-> u, names |-> acc.names]
           /\ [[acc EXCEPT !.names = v] EXCEPT !.contents = u] = [contents |-> u, names |-> v]
<1>1. [acc EXCEPT !.contents = u] = [contents |-> u, names |-> acc.names]
  OBVIOUS
<1>2. PICK b : b = [acc EXCEPT !.names = v]
  OBVIOUS
<1>3. b = [contents |-> acc.contents, names |-> v]
  BY <1>2
<1>4. [b EXCEPT !.contents = u] = [contents |-> u, names |-> v]
  BY <1>3
<1> QED
  BY <1>1, <1>2, <1>4

\* A result joins those before it.
LEMMA AddTurnJoins ==
    ASSUME NEW acc \in AccType, NEW turn \in TurnType, turn.role = "tool", Joining(acc)
    PROVE  AddTurn(acc, turn) = [contents |-> Joined(acc, turn), names |-> acc.names]
<1>1. PICK u : u = Joined(acc, turn)
  OBVIOUS
<1>2. AddTurn(acc, turn) = [acc EXCEPT !.contents = u]
  BY <1>1 DEF AddTurn, Joining, Joined, ResultSent, Grown
<1> QED
  BY <1>1, <1>2, OtherContents DEF AccType

\* The other cases of AddTurn.
LEMMA AddTurnCases ==
    ASSUME NEW acc \in AccType, NEW turn \in TurnType, NEW r, r = AddTurn(acc, turn)
    PROVE  /\ turn.role = "system" => r = acc
           /\ CallingTurn(turn) =>
                 r = [contents |-> Append(acc.contents, CallsSent(turn.calls)),
                      names |-> acc.names \o turn.calls]
           /\ turn.role = "tool" /\ ~Joining(acc) =>
                 r = [contents |-> Append(acc.contents, Content("user", <<ResultSent(acc, turn)>>)),
                      names |-> acc.names]
           /\ turn.role \notin {"system", "tool"} /\ ~CallingTurn(turn) =>
                 r = [contents |-> Append(acc.contents, TextSent(turn)), names |-> acc.names]
<1>1. turn.role = "system" => r = acc
  BY DEF AddTurn
<1>2. ASSUME CallingTurn(turn)
      PROVE  r = [contents |-> Append(acc.contents, CallsSent(turn.calls)),
                  names |-> acc.names \o turn.calls]
  <2>1. PICK v : v = acc.names \o turn.calls
    OBVIOUS
  <2>2. PICK u : u = Append(acc.contents, CallsSent(turn.calls))
    OBVIOUS
  <2>3. [acc EXCEPT !.names = v].contents = acc.contents
    BY DEF AccType
  <2>4. r = [[acc EXCEPT !.names = v] EXCEPT !.contents = u]
    BY <1>2, <2>1, <2>2, <2>3 DEF AddTurn, CallingTurn, CallsSent
  <2> QED
    BY <2>1, <2>2, <2>4, OtherContents DEF AccType
<1>3. ASSUME turn.role = "tool", ~Joining(acc)
      PROVE  r = [contents |-> Append(acc.contents, Content("user", <<ResultSent(acc, turn)>>)),
                  names |-> acc.names]
  <2>1. PICK u : u = Append(acc.contents, Content("user", <<ResultSent(acc, turn)>>))
    OBVIOUS
  <2>2. r = [acc EXCEPT !.contents = u]
    BY <1>3, <2>1 DEF AddTurn, Joining, ResultSent
  <2> QED
    BY <2>1, <2>2, OtherContents DEF AccType
<1>4. ASSUME turn.role \notin {"system", "tool"}, ~CallingTurn(turn)
      PROVE  r = [contents |-> Append(acc.contents, TextSent(turn)), names |-> acc.names]
  <2>1. PICK u : u = Append(acc.contents, TextSent(turn))
    OBVIOUS
  <2>2. r = [acc EXCEPT !.contents = u]
    BY <1>4, <2>1 DEF AddTurn, CallingTurn, TextSent
  <2> QED
    BY <2>1, <2>2, OtherContents DEF AccType
<1> QED
  BY <1>1, <1>2, <1>3, <1>4

\* The latest name of an id.
LEMMA LatestName ==
    ASSUME NEW names \in Seq(CallType), NEW id
    PROVE  \/ NameOf(names, id) = Nameless /\ \A k \in DOMAIN names : names[k].id # id
           \/ \E m \in DOMAIN names : /\ names[m].id = id /\ NameOf(names, id) = names[m].name
                                      /\ \A k \in DOMAIN names : names[k].id = id => k <= m
<1> DEFINE known == {i \in DOMAIN names : names[i].id = id}
<1>1. Len(names) \in Nat /\ DOMAIN names = 1 .. Len(names)
  BY LenProperties
<1>2. CASE known = {}
  BY <1>2 DEF NameOf
<1>3. CASE known # {}
  <2>1. known \in SUBSET (1 .. Len(names))
    BY <1>1
  <2>2. PICK m \in known : \A x \in known : x <= m
    <3> HIDE DEF known
    <3> QED
      BY <1>1, <1>3, <2>1, GreatestOf
  <2>3. Max(known) = m
    <3>1. known \in SUBSET Int
      BY <2>1
    <3> HIDE DEF known
    <3> QED
      BY <2>2, <3>1, MaxIs
  <2>4. NameOf(names, id) = names[m].name
    BY <1>3, <2>3 DEF NameOf
  <2> QED
    BY <2>2, <2>4
<1> QED
  BY <1>2, <1>3

LEMMA NameOfType ==
    ASSUME NEW names \in Seq(CallType), NEW id PROVE NameOf(names, id) \in Nat
<1>1. \A k \in DOMAIN names : names[k].name \in Nat
  <2>1. \A k \in DOMAIN names : names[k] \in CallType
    BY LenProperties, ElementOfSeq
  <2> QED
    BY <2>1 DEF CallType
<1> QED
  BY <1>1, LatestName DEF Nameless

\* Contents none of which is empty, badly signed or splits results.
WellSigned(c) ==
    /\ c.parts # <<>>
    /\ c.parts[1].type = "call" => c.parts[1].signature # Unsigned
    /\ \A j \in DOMAIN c.parts : c.parts[j].signature \in {Unsigned, Skip, c.parts[j].name}
Apart(cs) == \A i \in 1 .. Len(cs) - 1 : ~(OnlyResponses(cs[i]) /\ OnlyResponses(cs[i + 1]))
Fit(cs) == cs \in Seq(ContentType) /\ Apart(cs) /\ \A i \in DOMAIN cs : WellSigned(cs[i])

LEMMA ContentAdded ==
    ASSUME NEW cs, Fit(cs), NEW c \in ContentType, WellSigned(c),
           Len(cs) > 0 => ~(OnlyResponses(cs[Len(cs)]) /\ OnlyResponses(c)),
           NEW d, d = Append(cs, c)
    PROVE  /\ Fit(d)
           /\ Continues(Gist(AllParts(d)), Gist(AllParts(cs)), Gist(c.parts))
<1>1. cs \in Seq(ContentType) /\ Apart(cs) /\ \A i \in DOMAIN cs : WellSigned(cs[i])
  BY DEF Fit
<1>2. /\ d \in Seq(ContentType) /\ Len(cs) \in Nat /\ Len(d) = Len(cs) + 1
      /\ DOMAIN cs = 1 .. Len(cs) /\ DOMAIN d = 1 .. Len(cs) + 1
      /\ d[Len(cs) + 1] = c /\ \A i \in 1 .. Len(cs) : d[i] = cs[i]
  BY <1>1, AppendProperties, LenProperties
<1>3. ASSUME NEW i \in DOMAIN d PROVE WellSigned(d[i])
  <2>1. CASE i = Len(cs) + 1
    BY <1>2, <2>1
  <2>2. CASE i \in DOMAIN cs
    BY <1>1, <1>2, <2>2
  <2> QED
    BY <1>2, <2>1, <2>2
<1>4. PICK n \in Nat : n = Len(cs)
  BY <1>2
<1>5. ASSUME NEW i \in 1 .. n PROVE ~(OnlyResponses(d[i]) /\ OnlyResponses(d[i + 1]))
  <2>1. CASE i = n
    <3>1. n > 0 /\ d[i] = cs[Len(cs)] /\ d[i + 1] = c
      BY <1>2, <1>4, <2>1
    <3> QED
      BY <1>4, <3>1
  <2>2. CASE i # n
    <3>1. i \in 1 .. n - 1 /\ i \in 1 .. n /\ i + 1 \in 1 .. n
      BY <2>2
    <3>2. d[i] = cs[i] /\ d[i + 1] = cs[i + 1]
      BY <1>2, <1>4, <3>1
    <3> QED
      BY <1>1, <1>4, <3>1, <3>2 DEF Apart
  <2> QED
    BY <2>1, <2>2
<1>6. Fit(d)
  <2>1. Len(d) - 1 = n
    BY <1>2, <1>4
  <2>2. Apart(d)
    BY <1>5, <2>1 DEF Apart
  <2> QED
    BY <1>2, <1>3, <2>2 DEF Fit
<1>7. PICK a, b, p : a = AllParts(cs) /\ b = AllParts(d) /\ p = c.parts
  OBVIOUS
<1>8. p \in Seq(PartType)
  BY <1>7 DEF ContentType
<1>9. a \in Seq(PartType) /\ b = a \o p
  BY <1>1, <1>7, PartsAppend
<1>10. Gist(a \o p) = Gist(a) \o Gist(p)
  BY <1>8, <1>9, GistConcat
<1> QED
  BY <1>6, <1>7, <1>9, <1>10 DEF Continues

LEMMA ResultAdded ==
    ASSUME NEW cs, Fit(cs), NEW n \in Nat, n = Len(cs), n > 0, OnlyResponses(cs[n]),
           NEW p \in PartType, p.type = "response", p.signature = Unsigned,
           NEW d, d = Grown(cs, n, p)
    PROVE  /\ Fit(d)
           /\ Continues(Gist(AllParts(d)), Gist(AllParts(cs)), Gist(<<p>>))
<1>1. cs \in Seq(ContentType) /\ Apart(cs) /\ \A i \in DOMAIN cs : WellSigned(cs[i])
  BY DEF Fit
<1>2. /\ d \in Seq(ContentType) /\ Len(d) = n
      /\ Continues(AllParts(d), AllParts(cs), <<p>>)
      /\ \A i \in 1 .. n - 1 : d[i] = cs[i]
      /\ d[n] = [role |-> cs[n].role, parts |-> Append(cs[n].parts, p)]
  BY <1>1, PartsGrow
<1>3. n \in Nat /\ n \in 1 .. n /\ DOMAIN cs = 1 .. n /\ DOMAIN d = 1 .. n
  BY <1>1, <1>2, LenProperties
<1>4. WellSigned(d[n])
  <2>1. PICK s, t : s = cs[n].parts /\ t = d[n].parts
    OBVIOUS
  <2>2. s \in Seq(PartType) /\ t = Append(s, p) /\ WellSigned(cs[n])
    <3>1. cs[n] \in ContentType
      BY <1>1, <1>3, ElementOfSeq
    <3> QED
      BY <1>1, <1>2, <1>3, <2>1, <3>1 DEF ContentType
  <2>3. /\ s # <<>> /\ (s[1].type = "call" => s[1].signature # Unsigned)
        /\ \A j \in DOMAIN s : s[j].signature \in {Unsigned, Skip, s[j].name}
    BY <2>1, <2>2 DEF WellSigned
  <2>4. /\ Len(s) \in Nat \ {0} /\ DOMAIN s = 1 .. Len(s) /\ Len(t) = Len(s) + 1 /\ DOMAIN t = 1 .. Len(s) + 1
        /\ t[Len(s) + 1] = p /\ \A j \in 1 .. Len(s) : t[j] = s[j]
    BY <2>2, <2>3, AppendProperties, LenProperties, EmptySeq
  <2>5. t # <<>> /\ t[1] = s[1]
    BY <2>4
  <2>6. \A j \in DOMAIN t : t[j].signature \in {Unsigned, Skip, t[j].name}
    BY <2>3, <2>4
  <2> QED
    BY <2>1, <2>3, <2>5, <2>6 DEF WellSigned
<1>5. \A i \in DOMAIN d : OnlyResponses(d[i]) => OnlyResponses(cs[i])
  BY <1>2, <1>3
<1>6. ASSUME NEW i \in DOMAIN d PROVE WellSigned(d[i])
  <2>1. CASE i = n
    BY <1>4, <2>1
  <2>2. CASE i # n
    <3>1. i \in 1 .. n - 1 /\ i \in DOMAIN cs
      BY <1>3, <2>2
    <3>2. d[i] = cs[i]
      BY <1>2, <3>1
    <3> QED
      BY <1>1, <3>1, <3>2
  <2> QED
    BY <2>1, <2>2
<1>7. Apart(d)
  <2>1. \A i \in 1 .. n - 1 : i \in DOMAIN d /\ i + 1 \in DOMAIN d
    BY <1>3
  <2> QED
    BY <1>1, <1>2, <1>5, <2>1 DEF Apart
<1>8. Fit(d)
  BY <1>2, <1>6, <1>7 DEF Fit
<1>9. PICK a, q : a = AllParts(cs) /\ q = <<p>>
  OBVIOUS
<1>10. q \in Seq(PartType) /\ a \in Seq(PartType)
  BY <1>1, <1>9, PartsAppend, <1>3, ElementOfSeq
<1>11. Gist(a \o q) = Gist(a) \o Gist(q)
  BY <1>10, GistConcat
<1> QED
  BY <1>2, <1>8, <1>9, <1>11 DEF Continues

\* An answer's calls, as a provider numbers them.
RightCall(call) == call.id \in {call.name, -2, -3}

\* What a turn brings, by what the turns before it have named.
Brought(names, turn) ==
    IF turn.role = "system" THEN <<>>
    ELSE IF CallingTurn(turn) THEN [k \in DOMAIN turn.calls |-> <<"call", turn.calls[k].name>>]
    ELSE IF turn.role = "tool" THEN <<<<"response", NameOf(names, turn.answers)>>>>
    ELSE <<<<"text", Nameless>>>>

\* A turn of calls is sent under its names and signed.
LEMMA CallsFit ==
    ASSUME NEW calls \in Seq(CallType), calls # <<>>, \A k \in DOMAIN calls : RightCall(calls[k]),
           signatures \in Seq(Nat \ {0}), NEW c, c = CallsSent(calls)
    PROVE  /\ c \in ContentType /\ WellSigned(c) /\ ~OnlyResponses(c)
           /\ Gist(c.parts) = [k \in DOMAIN calls |-> <<"call", calls[k].name>>]
<1>1. /\ Len(calls) \in Nat \ {0} /\ DOMAIN calls = 1 .. Len(calls) /\ 1 \in 1 .. Len(calls)
      /\ \A k \in 1 .. Len(calls) : calls[k].name \in Nat
  <2>1. /\ Len(calls) \in Nat \ {0} /\ DOMAIN calls = 1 .. Len(calls)
        /\ \A k \in 1 .. Len(calls) : calls[k] \in CallType
    BY EmptySeq, LenProperties, ElementOfSeq
  <2> QED
    BY <2>1 DEF CallType
<1>2. ASSUME NEW k \in 1 .. Len(calls)
      PROVE  /\ Sign(calls, k) \in Int /\ Sign(calls, k) \in {Unsigned, Skip, calls[k].name}
             /\ k = 1 => Sign(calls, k) # Unsigned
  <2>1. CASE Contains(signatures, calls[k].id)
    <3>1. Sign(calls, k) = calls[k].id
      BY <2>1 DEF Sign
    <3>2. calls[k].id \in Nat \ {0}
      <4>1. PICK i \in 1 .. Len(signatures) : signatures[i] = calls[k].id
        BY <2>1 DEF Contains
      <4> QED
        BY <4>1, ElementOfSeq
    <3>3. calls[k].id \in {calls[k].name, -2, -3}
      BY <1>1 DEF RightCall
    <3>4. calls[k].id = calls[k].name
      BY <3>2, <3>3
    <3> QED
      BY <3>1, <3>2, <3>4 DEF Unsigned
  <2>2. CASE ~Contains(signatures, calls[k].id)
    <3>1. Sign(calls, k) = IF k = 1 THEN Skip ELSE Unsigned
      BY <2>2 DEF Sign
    <3> QED
      BY <3>1 DEF Skip, Unsigned
  <2> QED
    BY <2>1, <2>2
<1>3. PICK parts : parts = [i \in DOMAIN calls |-> Part("call", calls[i].name, Sign(calls, i))]
  OBVIOUS
<1>4. DOMAIN parts = 1 .. Len(calls)
      /\ \A k \in 1 .. Len(calls) : /\ parts[k].type = "call" /\ parts[k].name = calls[k].name
                                    /\ parts[k].signature = Sign(calls, k) /\ parts[k] \in PartType
  BY <1>1, <1>2, <1>3 DEF Part, PartType
<1>5. parts \in Seq(PartType) /\ parts # <<>>
  <2>1. parts \in [1 .. Len(calls) -> PartType]
    BY <1>1, <1>3, <1>4
  <2>2. parts \in Seq(PartType)
    BY <1>1, <2>1, SeqDef
  <2> QED
    BY <1>1, <1>4, <2>2, EmptySeq
<1>6. c.role = "model" /\ c.parts = parts /\ c \in ContentType
  BY <1>3, <1>5 DEF CallsSent, Content, ContentType
<1>7. WellSigned(c)
  BY <1>1, <1>2, <1>4, <1>5, <1>6 DEF WellSigned
<1>8. ~OnlyResponses(c)
  BY <1>6 DEF OnlyResponses
<1>9. Gist(parts) = [k \in DOMAIN calls |-> <<"call", calls[k].name>>]
  BY <1>1, <1>4 DEF Gist
<1> QED
  BY <1>6, <1>7, <1>8, <1>9

\* One part without a signature.
LEMMA PlainFit ==
    ASSUME NEW p \in PartType, p.type # "call", p.signature = Unsigned, NEW role \in {"user", "model"},
           NEW c, c = Content(role, <<p>>)
    PROVE  /\ c \in ContentType /\ WellSigned(c)
           /\ OnlyResponses(c) => p.type = "response"
           /\ Gist(c.parts) = <<<<p.type, p.name>>>>
<1>1. c.role = role /\ c.parts = <<p>> /\ c \in ContentType
  BY DEF Content, ContentType
<1>2. PICK s : s = <<p>>
  OBVIOUS
<1>3. Len(s) = 1 /\ DOMAIN s = 1 .. 1 /\ s[1] = p
  BY <1>2
<1>4. s # <<>>
  BY <1>2
<1>5. WellSigned(c)
  BY <1>1, <1>2, <1>3, <1>4 DEF WellSigned
<1>6. OnlyResponses(c) => p.type = "response"
  BY <1>1, <1>2, <1>3 DEF OnlyResponses
<1>7. Gist(s) = <<<<p.type, p.name>>>>
  BY <1>3 DEF Gist
<1> QED
  BY <1>1, <1>2, <1>5, <1>6, <1>7

\* A turn more adds what it brings to what is sent.
LEMMA TurnAdds ==
    ASSUME NEW acc \in AccType, Fit(acc.contents), NEW turn \in TurnType,
           \A k \in DOMAIN turn.calls : RightCall(turn.calls[k]),
           signatures \in Seq(Nat \ {0}), NEW r, r = AddTurn(acc, turn)
    PROVE  /\ r \in AccType /\ Fit(r.contents)
           /\ CallingTurn(turn) => Continues(r.names, acc.names, turn.calls)
           /\ ~CallingTurn(turn) => r.names = acc.names
           /\ Continues(Gist(AllParts(r.contents)), Gist(AllParts(acc.contents)),
                        Brought(acc.names, turn))
<1>1. /\ acc.contents \in Seq(ContentType) /\ acc.names \in Seq(CallType)
      /\ turn.role \in {"user", "tool", "system", "assistant"} /\ turn.calls \in Seq(CallType)
      /\ turn.answers \in Int
  BY DEF AccType, TurnType
<1>2. ASSUME NEW u, NEW v \in Seq(CallType), Fit(u) PROVE [contents |-> u, names |-> v] \in AccType
  BY <1>2 DEF AccType, Fit
<1>3. ASSUME turn.role = "system" PROVE r = acc /\ ~CallingTurn(turn) /\ Brought(acc.names, turn) = <<>>
  BY <1>3, AddTurnCases DEF CallingTurn, Brought
<1>4. CASE turn.role = "system"
  <2>1. PICK g : g = Gist(AllParts(acc.contents))
    OBVIOUS
  <2>2. g \in Seq(GistType)
    <3>1. [role |-> "user", parts |-> <<>>] \in ContentType
      BY DEF ContentType
    <3>2. AllParts(acc.contents) \in Seq(PartType)
      BY <1>1, <3>1, PartsAppend
    <3> QED
      BY <2>1, <3>2, GistConcat
  <2>3. g = g \o <<>>
    BY <2>2, ConcatEmptySeq
  <2> QED
    BY <1>3, <1>4, <2>1, <2>3 DEF Continues
<1>5. CASE CallingTurn(turn)
  <2>1. PICK c : c = CallsSent(turn.calls)
    OBVIOUS
  <2>2. /\ c \in ContentType /\ WellSigned(c) /\ ~OnlyResponses(c)
        /\ Gist(c.parts) = [k \in DOMAIN turn.calls |-> <<"call", turn.calls[k].name>>]
    BY <1>1, <1>5, <2>1, CallsFit DEF CallingTurn
  <2>3. Brought(acc.names, turn) = Gist(c.parts)
    BY <1>5, <2>2 DEF Brought, CallingTurn
  <2>4. PICK d : d = Append(acc.contents, c)
    OBVIOUS
  <2>5. Fit(d) /\ Continues(Gist(AllParts(d)), Gist(AllParts(acc.contents)), Gist(c.parts))
    BY <2>2, <2>4, ContentAdded
  <2>6. PICK v : v = acc.names \o turn.calls
    OBVIOUS
  <2>7. v \in Seq(CallType) /\ Continues(v, acc.names, turn.calls)
    BY <1>1, <2>6, ConcatProperties DEF Continues
  <2>8. r = [contents |-> d, names |-> v]
    BY <1>5, <2>1, <2>4, <2>6, AddTurnCases
  <2>9. r \in AccType /\ r.contents = d /\ r.names = v
    BY <1>2, <2>5, <2>7, <2>8
  <2> QED
    BY <1>5, <2>3, <2>5, <2>7, <2>9
<1>6. ASSUME turn.role = "tool"
      PROVE  /\ ResultSent(acc, turn) \in PartType
             /\ ResultSent(acc, turn).type = "response" /\ ResultSent(acc, turn).signature = Unsigned
             /\ Brought(acc.names, turn) = <<<<"response", ResultSent(acc, turn).name>>>>
             /\ ~CallingTurn(turn)
  <2>1. NameOf(acc.names, turn.answers) \in Nat
    BY <1>1, NameOfType
  <2> QED
    BY <1>6, <2>1 DEF ResultSent, Part, PartType, Unsigned, Brought, CallingTurn
<1>7. CASE turn.role = "tool" /\ Joining(acc)
  <2>1. PICK p, n : p = ResultSent(acc, turn) /\ n = Len(acc.contents)
    OBVIOUS
  <2>2. /\ p \in PartType /\ p.type = "response" /\ p.signature = Unsigned
        /\ Brought(acc.names, turn) = <<<<"response", p.name>>>> /\ ~CallingTurn(turn)
    BY <1>6, <1>7, <2>1
  <2>3. n \in Nat /\ n > 0 /\ OnlyResponses(acc.contents[n])
    BY <1>1, <1>7, <2>1, LenProperties DEF Joining
  <2>4. PICK d : d = Grown(acc.contents, n, p)
    OBVIOUS
  <2>5. Fit(d) /\ Continues(Gist(AllParts(d)), Gist(AllParts(acc.contents)), Gist(<<p>>))
    BY <2>1, <2>2, <2>3, <2>4, ResultAdded
  <2>6. Gist(<<p>>) = <<<<"response", p.name>>>>
    BY <2>2 DEF Gist
  <2>7. r = [contents |-> d, names |-> acc.names]
    <3>1. r = [contents |-> Joined(acc, turn), names |-> acc.names]
      BY <1>7, AddTurnJoins
    <3>2. Joined(acc, turn) = d
      BY <2>1, <2>4 DEF Joined
    <3> QED
      BY <3>1, <3>2
  <2>8. r \in AccType /\ r.contents = d /\ r.names = acc.names
    BY <1>1, <1>2, <2>5, <2>7
  <2> QED
    BY <2>2, <2>5, <2>6, <2>8
<1>8. CASE turn.role = "tool" /\ ~Joining(acc)
  <2>1. PICK p, c : p = ResultSent(acc, turn) /\ c = Content("user", <<p>>)
    OBVIOUS
  <2>2. /\ p \in PartType /\ p.type = "response" /\ p.signature = Unsigned
        /\ Brought(acc.names, turn) = <<<<"response", p.name>>>> /\ ~CallingTurn(turn)
    BY <1>6, <1>8, <2>1
  <2>3. c \in ContentType /\ WellSigned(c) /\ Gist(c.parts) = <<<<"response", p.name>>>>
    BY <2>1, <2>2, PlainFit
  <2>4. Len(acc.contents) > 0 => ~OnlyResponses(acc.contents[Len(acc.contents)])
    BY <1>8 DEF Joining
  <2>5. PICK d : d = Append(acc.contents, c)
    OBVIOUS
  <2>6. Fit(d) /\ Continues(Gist(AllParts(d)), Gist(AllParts(acc.contents)), Gist(c.parts))
    BY <2>3, <2>4, <2>5, ContentAdded
  <2>7. r = [contents |-> d, names |-> acc.names]
    <3>1. r = [contents |-> Append(acc.contents, Content("user", <<ResultSent(acc, turn)>>)),
               names |-> acc.names]
      BY <1>8, AddTurnCases
    <3> QED
      BY <2>1, <2>5, <3>1
  <2>8. r \in AccType /\ r.contents = d /\ r.names = acc.names
    BY <1>1, <1>2, <2>6, <2>7
  <2> QED
    BY <2>2, <2>3, <2>6, <2>8
<1>9. CASE turn.role \notin {"system", "tool"} /\ ~CallingTurn(turn)
  <2>1. PICK p, role, c : /\ p = Part("text", Nameless, Unsigned)
                          /\ role = IF turn.role = "assistant" THEN "model" ELSE "user"
                          /\ c = Content(role, <<p>>)
    OBVIOUS
  <2>2. p \in PartType /\ p.type = "text" /\ p.signature = Unsigned /\ p.name = Nameless
    BY <2>1 DEF Part, PartType, Nameless, Unsigned
  <2>3. role \in {"user", "model"}
    BY <2>1
  <2>4. c \in ContentType /\ WellSigned(c) /\ ~OnlyResponses(c) /\ Gist(c.parts) = <<<<"text", Nameless>>>>
    BY <2>1, <2>2, <2>3, PlainFit
  <2>5. Brought(acc.names, turn) = <<<<"text", Nameless>>>>
    BY <1>9 DEF Brought
  <2>6. PICK d : d = Append(acc.contents, c)
    OBVIOUS
  <2>7. Fit(d) /\ Continues(Gist(AllParts(d)), Gist(AllParts(acc.contents)), Gist(c.parts))
    BY <2>4, <2>6, ContentAdded
  <2>8. r = [contents |-> d, names |-> acc.names]
    BY <1>9, <2>1, <2>6, AddTurnCases DEF TextSent
  <2>9. r \in AccType /\ r.contents = d /\ r.names = acc.names
    BY <1>1, <1>2, <2>7, <2>8
  <2> QED
    BY <1>9, <2>4, <2>5, <2>7, <2>9
<1> QED
  BY <1>4, <1>5, <1>7, <1>8, <1>9

\* The calls of the first turns.
CallsUpTo(n) == UNION {ToSet(turns[j].calls) : j \in 1 .. n}
InOrderOfNames(calls) == \A k, l \in DOMAIN calls : k < l => calls[k].name < calls[l].name

LaterAreNewer(ts) ==
    \A i, j \in DOMAIN ts : i < j =>
       \A k \in DOMAIN ts[i].calls, l \in DOMAIN ts[j].calls : ts[i].calls[k].name < ts[j].calls[l].name

\* The turns are numbered through by the names of their calls.
RightTurns ==
    /\ turns \in Seq(TurnType) /\ next \in Nat \ {0}
    /\ signatures \in Seq(Nat \ {0})
    /\ \A i \in DOMAIN turns :
          /\ turns[i].role # "assistant" => turns[i].calls = <<>>
          /\ \A k \in DOMAIN turns[i].calls :
                RightCall(turns[i].calls[k]) /\ turns[i].calls[k].name \in 1 .. next - 1
          /\ InOrderOfNames(turns[i].calls)
    /\ LaterAreNewer(turns)

\* What the first n messages have become.
Sent(n, acc) ==
    /\ acc \in AccType /\ Fit(acc.contents)
    /\ \A i \in 1 .. n : Owed(i) \in Seq(GistType)
    /\ Gist(AllParts(acc.contents)) = FlattenSeq([i \in 1 .. n |-> Owed(i)])
    /\ InOrderOfNames(acc.names)
    /\ ToSet(acc.names) = CallsUpTo(n)

LEMMA NothingSent == Sent(0, [contents |-> <<>>, names |-> <<>>])
<1>1. PICK acc : acc = [contents |-> <<>>, names |-> <<>>]
  OBVIOUS
<1>2. acc.contents = <<>> /\ acc.names = <<>> /\ acc \in AccType
  BY <1>1 DEF AccType
<1>3. Fit(acc.contents)
  BY <1>2 DEF Fit, Apart
<1>4. 1 .. 0 = {} /\ DOMAIN <<>> = {}
  OBVIOUS
<1>5. AllParts(acc.contents) = FlattenSeq(<<>>)
  <2>1. [i \in DOMAIN acc.contents |-> acc.contents[i].parts] = <<>>
    BY <1>2, <1>4
  <2> QED
    BY <2>1 DEF AllParts
<1>6. Gist(AllParts(acc.contents)) = <<>>
  <2>1. AllParts(acc.contents) = <<>>
    BY <1>5, FlattenEmpty
  <2> QED
    BY <1>4, <2>1 DEF Gist
<1>7. FlattenSeq([i \in 1 .. 0 |-> Owed(i)]) = <<>>
  <2>1. [i \in 1 .. 0 |-> Owed(i)] = <<>>
    BY <1>4
  <2> QED
    BY <2>1, FlattenEmpty
<1>8. InOrderOfNames(acc.names)
  BY <1>2, <1>4 DEF InOrderOfNames
<1>9. ToSet(acc.names) = CallsUpTo(0)
  BY <1>2, <1>4 DEF ToSet, CallsUpTo
<1>10. Sent(0, acc)
  BY <1>2, <1>3, <1>4, <1>6, <1>7, <1>8, <1>9 DEF Sent
<1> QED
  BY <1>1, <1>10

\* What a turn brings is what is owed for it.
LEMMA OwedIsBrought ==
    ASSUME RightTurns, NEW n \in Nat, n + 1 \in DOMAIN turns, NEW names \in Seq(CallType),
           InOrderOfNames(names), ToSet(names) = CallsUpTo(n)
    PROVE  /\ Owed(n + 1) = Brought(names, turns[n + 1])
           /\ Owed(n + 1) \in Seq(GistType)
<1>1. PICK turn : turn = turns[n + 1]
  OBVIOUS
<1>2. turn \in TurnType /\ (turn.role # "assistant" => turn.calls = <<>>)
  BY <1>1, ElementOfSeq, LenProperties DEF RightTurns
<1>3. turn.calls \in Seq(CallType) /\ turn.role \in {"user", "tool", "system", "assistant"}
  BY <1>2 DEF TurnType
<1>4. (n + 1) - 1 = n
  OBVIOUS
<1>5. PICK named : named = {c.name : c \in {x \in CallsUpTo(n) : x.id = turn.answers}}
  OBVIOUS
<1>6. Owed(n + 1) =
        CASE turn.role = "system" -> <<>>
          [] turn.role = "assistant" /\ turn.calls # <<>> ->
                [k \in DOMAIN turn.calls |-> <<"call", turn.calls[k].name>>]
          [] turn.role = "tool" -> <<<<"response", IF named = {} THEN Nameless ELSE Max(named)>>>>
          [] OTHER -> <<<<"text", Nameless>>>>
  BY <1>1, <1>4, <1>5 DEF Owed, CallsUpTo
<1>7. (IF named = {} THEN Nameless ELSE Max(named)) = NameOf(names, turn.answers)
  <2>1. \A k \in DOMAIN names : names[k] \in CallsUpTo(n)
    BY DEF ToSet
  <2>2. \A x \in CallsUpTo(n) : \E k \in DOMAIN names : names[k] = x
    <3>1. \A x \in ToSet(names) : \E k \in DOMAIN names : names[k] = x
      BY DEF ToSet
    <3> QED
      BY <3>1
  <2>3. CASE NameOf(names, turn.answers) = Nameless /\ \A k \in DOMAIN names : names[k].id # turn.answers
    <3>1. named = {}
      BY <1>5, <2>2, <2>3
    <3> QED
      BY <2>3, <3>1
  <2>4. ASSUME NEW m \in DOMAIN names, names[m].id = turn.answers,
               NameOf(names, turn.answers) = names[m].name,
               \A k \in DOMAIN names : names[k].id = turn.answers => k <= m
        PROVE  named # {} /\ Max(named) = NameOf(names, turn.answers)
    <3>1. names[m].name \in named
      BY <1>5, <2>1, <2>4
    <3>2. DOMAIN names \subseteq Int /\ \A k \in DOMAIN names : names[k].name \in Nat
      <4>1. DOMAIN names \subseteq Int /\ \A k \in DOMAIN names : names[k] \in CallType
        BY LenProperties, ElementOfSeq
      <4> QED
        BY <4>1 DEF CallType
    <3>3. ASSUME NEW u \in named PROVE u \in Int /\ u <= names[m].name
      <4>1. PICK k \in DOMAIN names : names[k].id = turn.answers /\ names[k].name = u
        BY <1>5, <2>2
      <4>2. k <= m
        BY <2>4, <4>1
      <4>3. k = m \/ k < m
        BY <3>2, <4>2
      <4>4. k < m => names[k].name < names[m].name
        BY DEF InOrderOfNames
      <4> QED
        BY <3>2, <4>1, <4>3, <4>4
    <3>4. named \in SUBSET Int
      BY <3>3
    <3>5. Max(named) = names[m].name
      BY <3>1, <3>3, <3>4, MaxIs
    <3> QED
      BY <2>4, <3>1, <3>5
  <2> QED
    BY <2>3, <2>4, LatestName
<1>8. Owed(n + 1) = Brought(names, turn)
  <2>1. CASE turn.role = "system"
    BY <1>6, <2>1 DEF Brought
  <2>2. CASE CallingTurn(turn)
    BY <1>6, <2>2 DEF Brought, CallingTurn
  <2>3. CASE turn.role = "tool"
    <3>1. Owed(n + 1) = <<<<"response", IF named = {} THEN Nameless ELSE Max(named)>>>>
      BY <1>6, <2>3
    <3>2. Brought(names, turn) = <<<<"response", NameOf(names, turn.answers)>>>>
      BY <2>3 DEF Brought, CallingTurn
    <3> QED
      BY <1>7, <3>1, <3>2
  <2>4. CASE turn.role \notin {"system", "tool"} /\ ~CallingTurn(turn)
    BY <1>6, <2>4 DEF Brought, CallingTurn
  <2> QED
    BY <2>1, <2>2, <2>3, <2>4
<1>9. Brought(names, turn) \in Seq(GistType)
  <2>1. CASE turn.role = "system"
    <3>1. Brought(names, turn) = <<>>
      BY <2>1 DEF Brought
    <3> QED
      BY <3>1
  <2>2. CASE CallingTurn(turn)
    <3>1. Brought(names, turn) = [k \in DOMAIN turn.calls |-> <<"call", turn.calls[k].name>>]
      BY <2>2 DEF Brought, CallingTurn
    <3>2. Len(turn.calls) \in Nat /\ DOMAIN turn.calls = 1 .. Len(turn.calls)
          /\ \A k \in 1 .. Len(turn.calls) : turn.calls[k].name \in Nat
      <4>1. Len(turn.calls) \in Nat /\ DOMAIN turn.calls = 1 .. Len(turn.calls)
            /\ \A k \in 1 .. Len(turn.calls) : turn.calls[k] \in CallType
        BY <1>3, LenProperties, ElementOfSeq
      <4> QED
        BY <4>1 DEF CallType
    <3>3. Brought(names, turn) \in [1 .. Len(turn.calls) -> GistType]
      BY <3>1, <3>2 DEF GistType
    <3> QED
      BY <3>2, <3>3, SeqDef
  <2>3. CASE turn.role = "tool"
    <3>1. Brought(names, turn) = <<<<"response", NameOf(names, turn.answers)>>>>
      BY <2>3 DEF Brought, CallingTurn
    <3>2. <<"response", NameOf(names, turn.answers)>> \in GistType
      BY NameOfType DEF GistType
    <3> QED
      BY <3>1, <3>2
  <2>4. CASE turn.role \notin {"system", "tool"} /\ ~CallingTurn(turn)
    <3>1. Brought(names, turn) = <<<<"text", Nameless>>>>
      BY <2>4 DEF Brought
    <3>2. <<"text", Nameless>> \in GistType
      BY DEF GistType, Nameless
    <3> QED
      BY <3>1, <3>2
  <2> QED
    BY <2>1, <2>2, <2>3, <2>4
<1> QED
  BY <1>1, <1>8, <1>9

\* Sequences of sequences by what the last one adds.
LEMMA FlattenMore ==
    ASSUME NEW S, NEW n \in Nat, NEW m \in Nat, m = n + 1, NEW o, \A i \in 1 .. m : o[i] \in Seq(S),
           NEW p, p = [i \in 1 .. n |-> o[i]], NEW q, q = [i \in 1 .. m |-> o[i]]
    PROVE  Continues(FlattenSeq(q), FlattenSeq(p), o[m])
<1>1. p \in Seq(Seq(S)) /\ Len(p) = n
  <2>1. p \in [1 .. n -> Seq(S)]
    OBVIOUS
  <2> QED
    BY <2>1, SeqDef, LenProperties
<1>2. q \in Seq(Seq(S)) /\ Len(q) = m
  <2>1. q \in [1 .. m -> Seq(S)]
    OBVIOUS
  <2> QED
    BY <2>1, SeqDef, LenProperties
<1>3. PICK x \in Seq(S) : x = o[m]
  <2>1. m \in 1 .. m
    OBVIOUS
  <2> QED
    BY <2>1
<1>4. PICK r : r = Append(p, x)
  OBVIOUS
<1>5. /\ r \in Seq(Seq(S)) /\ Len(r) = m /\ r[m] = x
      /\ \A i \in 1 .. n : r[i] = p[i]
  BY <1>1, <1>4, AppendProperties
<1>6. ASSUME NEW i \in 1 .. m PROVE q[i] = r[i]
  <2>1. CASE i = m
    BY <1>3, <1>5, <2>1
  <2>2. CASE i \in 1 .. n
    BY <1>5, <2>2
  <2> QED
    BY <2>1, <2>2
<1>7. q = r
  BY <1>2, <1>5, <1>6, SeqEqual
<1>8. FlattenSeq(Append(p, x)) = FlattenSeq(p) \o x
  BY <1>1, FlattenAppend
<1> QED
  BY <1>3, <1>4, <1>7, <1>8 DEF Continues

\* Calls that come later have later names.
LEMMA NamesGrow ==
    ASSUME NEW a \in Seq(CallType), NEW b \in Seq(CallType), NEW c, c = a \o b,
           InOrderOfNames(a), InOrderOfNames(b),
           \A k \in DOMAIN a, l \in DOMAIN b : a[k].name < b[l].name
    PROVE  InOrderOfNames(c) /\ ToSet(c) = ToSet(a) \cup ToSet(b)
<1>1. /\ Len(a) \in Nat /\ Len(b) \in Nat /\ DOMAIN a = 1 .. Len(a) /\ DOMAIN b = 1 .. Len(b)
      /\ DOMAIN c = 1 .. Len(a) + Len(b)
      /\ \A i \in 1 .. Len(a) + Len(b) : c[i] = IF i <= Len(a) THEN a[i] ELSE b[i - Len(a)]
  BY ConcatProperties, LenProperties
<1>2. PICK m \in Nat, n \in Nat : m = Len(a) /\ n = Len(b)
  BY <1>1
<1>3. \A i \in DOMAIN c : (i \in DOMAIN a /\ c[i] = a[i]) \/ (i > m /\ i - m \in DOMAIN b /\ c[i] = b[i - m])
  BY <1>1, <1>2
<1>4. \A i \in DOMAIN a : i \in DOMAIN c /\ c[i] = a[i] /\ i <= m
  BY <1>1, <1>2
<1>5. \A i \in DOMAIN b : m + i \in DOMAIN c /\ c[m + i] = b[i]
  <2> TAKE i \in DOMAIN b
  <2>1. m + i \in 1 .. Len(a) + Len(b) /\ ~(m + i <= Len(a)) /\ (m + i) - Len(a) = i
    BY <1>1, <1>2
  <2> QED
    BY <1>1, <2>1
<1>6. ASSUME NEW k \in DOMAIN c, NEW l \in DOMAIN c, k < l PROVE c[k].name < c[l].name
  <2>1. CASE l \in DOMAIN a /\ c[l] = a[l]
    <3>1. k \in DOMAIN a /\ c[k] = a[k]
      BY <1>1, <1>2, <1>3, <1>6, <2>1
    <3> QED
      BY <1>6, <2>1, <3>1 DEF InOrderOfNames
  <2>2. CASE l > m /\ l - m \in DOMAIN b /\ c[l] = b[l - m]
    <3>1. CASE k \in DOMAIN a /\ c[k] = a[k]
      BY <2>2, <3>1
    <3>2. CASE k > m /\ k - m \in DOMAIN b /\ c[k] = b[k - m]
      <4>1. k - m < l - m
        BY <1>1, <1>6
      <4> QED
        BY <2>2, <3>2, <4>1 DEF InOrderOfNames
    <3> QED
      BY <1>3, <3>1, <3>2
  <2> QED
    BY <1>3, <2>1, <2>2
<1>7. ToSet(c) = ToSet(a) \cup ToSet(b)
  <2>1. \A x \in ToSet(c) : x \in ToSet(a) \cup ToSet(b)
    BY <1>3 DEF ToSet
  <2>2. \A x \in ToSet(a) \cup ToSet(b) : x \in ToSet(c)
    BY <1>4, <1>5 DEF ToSet
  <2> QED
    BY <2>1, <2>2
<1> QED
  BY <1>6, <1>7 DEF InOrderOfNames

\* Calls of turns up to one more.
LEMMA CallsOfNext ==
    ASSUME NEW n \in Nat PROVE CallsUpTo(n + 1) = CallsUpTo(n) \cup ToSet(turns[n + 1].calls)
<1>1. \A j : j \in 1 .. n + 1 <=> j \in 1 .. n \/ j = n + 1
  OBVIOUS
<1> QED
  BY <1>1 DEF CallsUpTo

LEMMA NextSent ==
    ASSUME RightTurns, NEW n \in Nat, n + 1 \in DOMAIN turns, NEW acc, Sent(n, acc),
           NEW r, r = AddTurn(acc, turns[n + 1])
    PROVE  Sent(n + 1, r)
<1>1. PICK turn, m : turn = turns[n + 1] /\ m = n + 1
  OBVIOUS
<1>2. /\ turn \in TurnType /\ (turn.role # "assistant" => turn.calls = <<>>)
      /\ \A k \in DOMAIN turn.calls : RightCall(turn.calls[k])
      /\ InOrderOfNames(turn.calls) /\ signatures \in Seq(Nat \ {0})
  BY <1>1, ElementOfSeq, LenProperties DEF RightTurns
<1>3. turn.calls \in Seq(CallType)
  BY <1>2 DEF TurnType
<1>4. /\ acc \in AccType /\ Fit(acc.contents) /\ InOrderOfNames(acc.names)
      /\ ToSet(acc.names) = CallsUpTo(n) /\ \A i \in 1 .. n : Owed(i) \in Seq(GistType)
      /\ Gist(AllParts(acc.contents)) = FlattenSeq([i \in 1 .. n |-> Owed(i)])
  BY DEF Sent
<1>5. acc.names \in Seq(CallType)
  BY <1>4 DEF AccType
<1>6. /\ r \in AccType /\ Fit(r.contents)
      /\ CallingTurn(turn) => Continues(r.names, acc.names, turn.calls)
      /\ ~CallingTurn(turn) => r.names = acc.names
      /\ Continues(Gist(AllParts(r.contents)), Gist(AllParts(acc.contents)), Brought(acc.names, turn))
  BY <1>1, <1>2, <1>4, TurnAdds
<1>7. Owed(m) = Brought(acc.names, turn) /\ Owed(m) \in Seq(GistType)
  BY <1>1, <1>4, <1>5, OwedIsBrought
<1>8. \A i \in 1 .. m : Owed(i) \in Seq(GistType)
  <2>1. \A i \in 1 .. m : i \in 1 .. n \/ i = m
    BY <1>1
  <2> QED
    BY <1>4, <1>7, <2>1
<1>9. Gist(AllParts(r.contents)) = FlattenSeq([i \in 1 .. m |-> Owed(i)])
  <2>1. PICK o : o = [i \in 1 .. m |-> Owed(i)]
    OBVIOUS
  <2>2. PICK p : p = [i \in 1 .. n |-> Owed(i)]
    OBVIOUS
  <2>3. m \in Nat /\ m \in 1 .. m /\ \A i \in 1 .. n : i \in 1 .. m
    BY <1>1
  <2>4. p = [i \in 1 .. n |-> o[i]] /\ o = [i \in 1 .. m |-> o[i]] /\ o[m] = Owed(m)
    BY <2>1, <2>2, <2>3
  <2>5. \A i \in 1 .. m : o[i] \in Seq(GistType)
    BY <1>8, <2>1
  <2>6. Continues(FlattenSeq(o), FlattenSeq(p), o[m])
    BY <1>1, <2>3, <2>4, <2>5, FlattenMore
  <2>7. Gist(AllParts(acc.contents)) = FlattenSeq(p)
    BY <1>4, <2>2
  <2> QED
    BY <1>6, <1>7, <2>1, <2>4, <2>6, <2>7 DEF Continues
<1>10. InOrderOfNames(r.names) /\ ToSet(r.names) = CallsUpTo(m)
  <2>1. CallsUpTo(m) = CallsUpTo(n) \cup ToSet(turn.calls)
    BY <1>1, CallsOfNext
  <2>2. CASE CallingTurn(turn)
    <3>1. ASSUME NEW k \in DOMAIN acc.names, NEW l \in DOMAIN turn.calls
          PROVE  acc.names[k].name < turn.calls[l].name
      <4>1. acc.names[k] \in CallsUpTo(n)
        BY <1>4 DEF ToSet
      <4>2. PICK j \in 1 .. n : acc.names[k] \in ToSet(turns[j].calls)
        BY <4>1 DEF CallsUpTo
      <4>3. PICK h \in DOMAIN turns[j].calls : acc.names[k] = turns[j].calls[h]
        BY <4>2 DEF ToSet
      <4>4. j \in DOMAIN turns /\ j < n + 1
        BY LenProperties DEF RightTurns
      <4> QED
        BY <1>1, <4>3, <4>4 DEF RightTurns, LaterAreNewer
    <3>2. PICK a, b, c : a = acc.names /\ b = turn.calls /\ c = r.names
      OBVIOUS
    <3>3. a \in Seq(CallType) /\ b \in Seq(CallType) /\ c = a \o b
      BY <1>3, <1>5, <1>6, <2>2, <3>2 DEF Continues
    <3>4. InOrderOfNames(c) /\ ToSet(c) = ToSet(a) \cup ToSet(b)
      BY <1>2, <1>4, <3>1, <3>2, <3>3, NamesGrow
    <3> QED
      BY <1>4, <2>1, <3>2, <3>4
  <2>3. CASE ~CallingTurn(turn)
    <3>1. turn.calls = <<>>
      BY <1>2, <2>3 DEF CallingTurn
    <3>2. ToSet(turn.calls) = {}
      BY <3>1 DEF ToSet
    <3> QED
      BY <1>4, <1>6, <2>1, <2>3, <3>2
  <2> QED
    BY <2>2, <2>3
<1> QED
  BY <1>1, <1>6, <1>8, <1>9, <1>10 DEF Sent

\* f is the recursive function of Translations up to n.
Translates(f, n) ==
    f = [i \in 0 .. n |-> IF i = 0 THEN [contents |-> <<>>, names |-> <<>>]
                          ELSE AddTurn(f[i - 1], turns[i])]

\* What the messages become is defined, message by message.
LEMMA TranslationsDefined ==
    ASSUME RightTurns, NEW N \in Nat, N = Len(turns) PROVE Translates(Translations, N)
<1> DEFINE D == {acc \in AccType : Fit(acc.contents)}
           base == [contents |-> <<>>, names |-> <<>>]
<1>1. /\ DOMAIN turns = 1 .. N /\ signatures \in Seq(Nat \ {0})
      /\ \A i \in 1 .. N : turns[i] \in TurnType /\ \A k \in DOMAIN turns[i].calls : RightCall(turns[i].calls[k])
  BY LenProperties, ElementOfSeq DEF RightTurns
<1>2. base \in D
  BY NothingSent DEF Sent
<1>3. \A i \in 1 .. N, x \in D : AddTurn(x, turns[i]) \in D
  <2> TAKE i \in 1 .. N, x \in D
  <2>1. PICK r, t : t = turns[i] /\ r = AddTurn(x, t)
    OBVIOUS
  <2>2. t \in TurnType /\ \A k \in DOMAIN t.calls : RightCall(t.calls[k])
    BY <1>1, <2>1
  <2>3. x \in AccType /\ Fit(x.contents)
    OBVIOUS
  <2>4. r \in AccType /\ Fit(r.contents)
    BY <1>1, <2>1, <2>2, <2>3, TurnAdds
  <2> QED
    BY <2>1, <2>4
<1> HIDE DEF D, base
<1>4. PICK g : g = [i \in 1 .. N |-> [x \in D |-> AddTurn(x, turns[i])]]
  OBVIOUS
<1>5. g \in [1 .. N -> [D -> D]]
  BY <1>3, <1>4
<1>6. PICK f \in [0 .. N -> D] : Steps(f, base, g, N)
  BY <1>2, <1>5, StepByStep
<1>7. ASSUME NEW i \in 1 .. N PROVE f[i] = AddTurn(f[i - 1], turns[i])
  <2>1. i - 1 \in 0 .. N
    BY <1>1
  <2>2. f[i - 1] \in D
    BY <2>1
  <2> QED
    BY <1>4, <1>6, <2>2 DEF Steps
<1>8. Translates(f, N)
  <2>1. f = [i \in 0 .. N |-> f[i]]
    OBVIOUS
  <2>2. \A i \in 0 .. N : f[i] = IF i = 0 THEN base ELSE AddTurn(f[i - 1], turns[i])
    BY <1>1, <1>6, <1>7 DEF Steps
  <2> QED
    BY <2>1, <2>2 DEF Translates, base
<1>9. Translations = CHOOSE h : Translates(h, N)
  BY DEF Translations, Translates
<1> QED
  BY <1>8, <1>9

LEMMA AllSent ==
    ASSUME RightTurns PROVE Sent(Len(turns), Translations[Len(turns)])
<1>1. PICK N : N = Len(turns)
  OBVIOUS
<1>2. N \in Nat /\ DOMAIN turns = 1 .. N
  BY <1>1, LenProperties DEF RightTurns
<1>3. PICK f : f = Translations
  OBVIOUS
<1>4. \A i \in 0 .. N : f[i] = IF i = 0 THEN [contents |-> <<>>, names |-> <<>>]
                               ELSE AddTurn(f[i - 1], turns[i])
  <2>1. Translates(f, N)
    BY <1>1, <1>2, <1>3, TranslationsDefined
  <2> QED
    BY <2>1 DEF Translates
<1> DEFINE T == {n \in Nat : n <= N => Sent(n, f[n])}
<1>5. 0 \in T
  <2>1. f[0] = [contents |-> <<>>, names |-> <<>>]
    BY <1>2, <1>4
  <2> QED
    BY <2>1, NothingSent
<1>6. ASSUME NEW n \in Nat, n \in T PROVE n + 1 \in T
  <2> SUFFICES ASSUME n + 1 <= N PROVE Sent(n + 1, f[n + 1])
    OBVIOUS
  <2>1. n + 1 \in DOMAIN turns /\ n + 1 \in 0 .. N /\ (n + 1) - 1 = n /\ n <= N /\ n + 1 # 0
    BY <1>2
  <2>2. Sent(n, f[n])
    BY <1>6, <2>1
  <2>3. f[n + 1] = AddTurn(f[n], turns[n + 1])
    BY <1>4, <2>1
  <2> QED
    BY <2>1, <2>2, <2>3, NextSent
<1>7. N \in T
  <2> HIDE DEF T
  <2> QED
    BY <1>2, <1>5, <1>6, SetInduction
<1> QED
  BY <1>1, <1>2, <1>3, <1>7

\* What is sent is right.
LEMMA TranslatedRight ==
    ASSUME RightTurns, contents # <<>> => contents = Translated PROVE ToolTurnsKept
<1> SUFFICES ASSUME contents # <<>> PROVE ToolTurnsKept
  BY DEF ToolTurnsKept
<1>1. PICK N, acc : N = Len(turns) /\ acc = Translations[N]
  OBVIOUS
<1>2. acc.contents = contents /\ Sent(N, acc)
  BY <1>1, AllSent DEF Translated
<1>3. Fit(contents) /\ Gist(AllParts(contents)) = FlattenSeq([i \in 1 .. N |-> Owed(i)])
  BY <1>2 DEF Sent
<1>4. DOMAIN turns = 1 .. N
  BY <1>1, LenProperties DEF RightTurns
<1>5. PICK parts : parts = FlattenSeq([i \in DOMAIN contents |-> contents[i].parts])
  OBVIOUS
<1>6. [i \in DOMAIN parts |-> <<parts[i].type, parts[i].name>>] = FlattenSeq([i \in DOMAIN turns |-> Owed(i)])
  BY <1>3, <1>4, <1>5 DEF AllParts, Gist
<1>7. \A i \in 1 .. Len(contents) - 1 : ~(OnlyResponses(contents[i]) /\ OnlyResponses(contents[i + 1]))
  BY <1>3 DEF Fit, Apart
<1>8. \A i \in DOMAIN contents :
         /\ contents[i].parts[1].type = "call" => contents[i].parts[1].signature # Unsigned
         /\ \A j \in DOMAIN contents[i].parts :
               contents[i].parts[j].signature \in {Unsigned, Skip, contents[i].parts[j].name}
  BY <1>3 DEF Fit, WellSigned
<1> QED
  BY <1>5, <1>6, <1>7, <1>8, Zenon DEF ToolTurnsKept

ToolsInv == RightTurns /\ (contents # <<>> => contents = Translated)

\* A turn more whose calls are new.
LEMMA TurnsGrow ==
    ASSUME RightTurns, NEW turn \in TurnType, turns' = Append(turns, turn),
           next' \in Nat, next <= next', signatures' \in Seq(Nat \ {0}),
           turn.role # "assistant" => turn.calls = <<>>,
           \A k \in DOMAIN turn.calls : RightCall(turn.calls[k]) /\ turn.calls[k].name \in next .. next' - 1,
           InOrderOfNames(turn.calls)
    PROVE  RightTurns'
<1>1. /\ turns \in Seq(TurnType) /\ next \in Nat \ {0}
      /\ \A i \in DOMAIN turns :
            /\ turns[i].role # "assistant" => turns[i].calls = <<>>
            /\ \A k \in DOMAIN turns[i].calls :
                  RightCall(turns[i].calls[k]) /\ turns[i].calls[k].name \in 1 .. next - 1
            /\ InOrderOfNames(turns[i].calls)
      /\ LaterAreNewer(turns)
  BY DEF RightTurns
<1>2. PICK old, new, from, to : old = turns /\ new = turns' /\ from = next /\ to = next'
  OBVIOUS
<1>3. /\ new \in Seq(TurnType) /\ Len(old) \in Nat /\ DOMAIN old = 1 .. Len(old)
      /\ DOMAIN new = 1 .. Len(old) + 1 /\ new[Len(old) + 1] = turn
      /\ \A i \in 1 .. Len(old) : new[i] = old[i]
  BY <1>1, <1>2, AppendProperties, LenProperties
<1>4. PICK n \in Nat : n = Len(old)
  BY <1>3
<1>5. \A i \in DOMAIN new : (i \in DOMAIN old /\ new[i] = old[i] /\ i <= n) \/ (i = n + 1 /\ new[i] = turn)
  BY <1>3, <1>4
<1>6. from \in Nat \ {0} /\ to \in Nat /\ from <= to
  BY <1>1, <1>2
<1>7. ASSUME NEW i \in DOMAIN new
      PROVE  /\ new[i].role # "assistant" => new[i].calls = <<>>
             /\ \A k \in DOMAIN new[i].calls :
                   RightCall(new[i].calls[k]) /\ new[i].calls[k].name \in 1 .. to - 1
             /\ InOrderOfNames(new[i].calls)
  <2>1. CASE i \in DOMAIN old /\ new[i] = old[i]
    <3>1. 1 .. from - 1 \subseteq 1 .. to - 1
      BY <1>6
    <3> QED
      BY <1>1, <1>2, <2>1, <3>1
  <2>2. CASE i = n + 1 /\ new[i] = turn
    <3>1. from .. to - 1 \subseteq 1 .. to - 1
      BY <1>6
    <3> QED
      BY <1>2, <2>2, <3>1
  <2> QED
    BY <1>5, <2>1, <2>2
<1>8. ASSUME NEW i \in DOMAIN new, NEW j \in DOMAIN new, i < j,
             NEW k \in DOMAIN new[i].calls, NEW l \in DOMAIN new[j].calls
      PROVE  new[i].calls[k].name < new[j].calls[l].name
  <2>1. i \in DOMAIN old /\ new[i] = old[i]
    <3>1. i \in Int /\ j \in Int /\ j <= n + 1
      BY <1>3, <1>4
    <3> QED
      BY <1>5, <1>8, <3>1
  <2>2. CASE j \in DOMAIN old /\ new[j] = old[j]
    BY <1>1, <1>2, <1>8, <2>1, <2>2 DEF LaterAreNewer
  <2>3. CASE j = n + 1 /\ new[j] = turn
    <3>1. PICK a, b : a = new[i].calls[k].name /\ b = new[j].calls[l].name
      OBVIOUS
    <3>2. a \in 1 .. from - 1
      BY <1>1, <1>2, <2>1, <3>1
    <3>3. b \in from .. to - 1
      BY <1>2, <2>3, <3>1
    <3>4. a < b
      BY <1>6, <3>2, <3>3
    <3> QED
      BY <3>1, <3>4
  <2> QED
    BY <1>5, <2>2, <2>3
<1>9. to \in Nat \ {0}
  BY <1>6
<1>10. RightTurns'
  <2>1. \A i \in DOMAIN turns' :
            /\ turns'[i].role # "assistant" => turns'[i].calls = <<>>
            /\ \A k \in DOMAIN turns'[i].calls :
                  RightCall(turns'[i].calls[k]) /\ turns'[i].calls[k].name \in 1 .. next' - 1
            /\ InOrderOfNames(turns'[i].calls)
    BY <1>2, <1>7
  <2>2. LaterAreNewer(turns')
    <3>1. LaterAreNewer(new)
      BY <1>8 DEF LaterAreNewer
    <3> QED
      BY <1>2, <3>1
  <2>3. turns' \in Seq(TurnType) /\ next' \in Nat \ {0}
    BY <1>2, <1>3, <1>9
  <2> QED
    BY <2>1, <2>2, <2>3 DEF RightTurns
<1> QED
  BY <1>10

\* What is remembered are ids of Gemini's calls.
LEMMA RememberType ==
    ASSUME signatures \in Seq(Nat \ {0}), NEW id \in Nat \ {0} PROVE Remember(id) \in Seq(Nat \ {0})
<1>1. PICK s : s = Only(signatures, ToSet(signatures) \ {id})
  OBVIOUS
<1>2. PICK kept : kept = Append(s, id)
  OBVIOUS
<1>3. s \in Seq(Nat \ {0})
  BY <1>1, OnlySelects
<1>4. kept \in Seq(Nat \ {0}) /\ kept # <<>>
  BY <1>2, <1>3, AppendProperties
<1>5. Tail(kept) \in Seq(Nat \ {0})
  BY <1>4, HeadTailProperties
<1>6. Remember(id) = IF Len(kept) > SignatureMax THEN Tail(kept) ELSE kept
  BY <1>1, <1>2 DEF Remember
<1> QED
  BY <1>4, <1>5, <1>6

\* What is sent depends on the messages and what is remembered.
LEMMA TranslatedStays ==
    turns' = turns /\ signatures' = signatures => Translated' = Translated
BY DEF Translated, Translations, AddTurn, Sign

LEMMA ToolsInitial == ToolsInit => ToolsInv
<1> SUFFICES ASSUME ToolsInit PROVE ToolsInv
  OBVIOUS
<1>1. turns = <<>> /\ signatures = <<>> /\ contents = <<>> /\ next = 1
  BY DEF ToolsInit
<1>2. DOMAIN turns = {}
  BY <1>1
<1>3. turns \in Seq(TurnType) /\ next \in Nat \ {0} /\ signatures \in Seq(Nat \ {0})
  BY <1>1
<1> QED
  BY <1>1, <1>2, <1>3 DEF ToolsInv, RightTurns, LaterAreNewer

LEMMA ToolsStep == ToolsInv /\ [ToolsNext]_toolsVars => ToolsInv'
<1> SUFFICES ASSUME ToolsInv, [ToolsNext]_toolsVars PROVE ToolsInv'
  OBVIOUS
<1>1. RightTurns /\ turns \in Seq(TurnType) /\ next \in Nat \ {0} /\ signatures \in Seq(Nat \ {0})
  BY DEF ToolsInv, RightTurns
<1>2. CASE ClientAdds
  <2>1. CalledIds \subseteq Int
    <3>1. ASSUME NEW i \in DOMAIN turns, NEW c \in ToSet(turns[i].calls) PROVE c.id \in Int
      <4>1. turns[i] \in TurnType
        BY <1>1, LenProperties, ElementOfSeq
      <4>2. turns[i].calls \in Seq(CallType)
        BY <4>1 DEF TurnType
      <4>3. c \in CallType
        BY <4>2, LenProperties, ElementOfSeq DEF ToSet
      <4> QED
        BY <4>3 DEF CallType
    <3> QED
      BY <3>1 DEF CalledIds
  <2>2. PICK turn \in {Turn("user", <<>>, NoCall), Turn("system", <<>>, NoCall)}
                      \cup {Turn("tool", <<>>, id) : id \in CalledIds \cup {99}} :
           turns' = Append(turns, turn)
    BY <1>2 DEF ClientAdds
  <2>3. turn \in TurnType /\ turn.calls = <<>>
    <3>1. PICK role \in {"user", "system", "tool"}, id \in Int : turn = Turn(role, <<>>, id)
      <4>1. CASE turn \in {Turn("tool", <<>>, id) : id \in CalledIds \cup {99}}
        BY <2>1, <4>1
      <4>2. CASE turn \in {Turn("user", <<>>, NoCall), Turn("system", <<>>, NoCall)}
        BY <4>2 DEF NoCall
      <4> QED
        BY <2>2, <4>1, <4>2
    <3> QED
      BY <3>1 DEF Turn, TurnType
  <2>4. contents' = <<>> /\ signatures' = signatures /\ next' = next
    BY <1>2 DEF ClientAdds
  <2>5. DOMAIN turn.calls = {}
    BY <2>3
  <2>6. RightTurns'
    <3>1. InOrderOfNames(turn.calls)
      BY <2>5 DEF InOrderOfNames
    <3>2. next' \in Nat /\ next <= next' /\ signatures' \in Seq(Nat \ {0})
      BY <1>1, <2>4
    <3> QED
      BY <1>1, <2>2, <2>3, <2>5, <3>1, <3>2, TurnsGrow
  <2> QED
    BY <2>4, <2>6 DEF ToolsInv
<1>3. CASE GeminiAnswers
  <2>1. PICK n \in 0 .. 2, signs \in BOOLEAN :
           /\ turns' = Append(turns, Turn("assistant", [i \in 1 .. n |-> ToolCall(next + i - 1, next + i - 1)], NoCall))
           /\ signatures' = IF signs /\ n > 0 THEN Remember(next) ELSE signatures
           /\ next' = next + n
    BY <1>3 DEF GeminiAnswers
  <2>2. PICK calls, turn : /\ calls = [i \in 1 .. n |-> ToolCall(next + i - 1, next + i - 1)]
                           /\ turn = Turn("assistant", calls, NoCall)
    OBVIOUS
  <2>3. /\ DOMAIN calls = 1 .. n /\ n \in Nat
        /\ \A i \in 1 .. n : /\ calls[i] \in CallType /\ RightCall(calls[i])
                             /\ calls[i].name = next + i - 1 /\ calls[i].name \in next .. next' - 1
    BY <1>1, <2>1, <2>2 DEF ToolCall, CallType, RightCall
  <2>4. calls \in Seq(CallType)
    <3>1. calls \in [1 .. n -> CallType]
      BY <2>2, <2>3
    <3> QED
      BY <2>3, <3>1, SeqDef
  <2>5. InOrderOfNames(calls)
    BY <1>1, <2>3 DEF InOrderOfNames
  <2>6. turn \in TurnType /\ turn.role = "assistant" /\ turn.calls = calls
    BY <2>2, <2>4 DEF Turn, TurnType, NoCall
  <2>7. signatures' \in Seq(Nat \ {0})
    BY <1>1, <2>1, RememberType
  <2>8. next' \in Nat /\ next <= next' /\ turns' = Append(turns, turn)
    BY <1>1, <2>1, <2>2
  <2>9. RightTurns'
    BY <1>1, <2>3, <2>5, <2>6, <2>7, <2>8, TurnsGrow
  <2>10. contents' = <<>>
    BY <1>3 DEF GeminiAnswers
  <2> QED
    BY <2>9, <2>10 DEF ToolsInv
<1>4. CASE OtherAnswers
  <2>1. /\ turns' = Append(turns, Turn("assistant", <<ToolCall(-2, next), ToolCall(-3, next + 1)>>, NoCall))
        /\ next' = next + 2 /\ contents' = <<>> /\ signatures' = signatures
    BY <1>4 DEF OtherAnswers
  <2>2. PICK calls, turn : /\ calls = <<ToolCall(-2, next), ToolCall(-3, next + 1)>>
                           /\ turn = Turn("assistant", calls, NoCall)
    OBVIOUS
  <2>3. /\ DOMAIN calls = 1 .. 2 /\ calls[1] = ToolCall(-2, next) /\ calls[2] = ToolCall(-3, next + 1)
    BY <2>2
  <2>4. /\ ToolCall(-2, next) \in CallType /\ RightCall(ToolCall(-2, next))
        /\ ToolCall(-3, next + 1) \in CallType /\ RightCall(ToolCall(-3, next + 1))
        /\ ToolCall(-2, next).name = next /\ ToolCall(-3, next + 1).name = next + 1
    BY <1>1 DEF ToolCall, CallType, RightCall
  <2>5. calls \in Seq(CallType)
    BY <2>2, <2>4
  <2>6. \A k \in DOMAIN calls : RightCall(calls[k]) /\ calls[k].name \in next .. next' - 1
    BY <1>1, <2>1, <2>3, <2>4
  <2>7. InOrderOfNames(calls)
    BY <1>1, <2>3, <2>4 DEF InOrderOfNames
  <2>8. turn \in TurnType /\ turn.role = "assistant" /\ turn.calls = calls
    BY <2>2, <2>5 DEF Turn, TurnType, NoCall
  <2>9. next' \in Nat /\ next <= next' /\ turns' = Append(turns, turn) /\ signatures' \in Seq(Nat \ {0})
    BY <1>1, <2>1, <2>2
  <2>10. RightTurns'
    BY <1>1, <2>6, <2>7, <2>8, <2>9, TurnsGrow
  <2> QED
    BY <2>1, <2>10 DEF ToolsInv
<1>5. CASE Restart
  <2>1. turns' = turns /\ next' = next /\ signatures' = <<>> /\ contents' = <<>>
    BY <1>5 DEF Restart
  <2>2. signatures' \in Seq(Nat \ {0})
    BY <2>1
  <2> QED
    BY <1>1, <2>1, <2>2 DEF ToolsInv, RightTurns
<1>6. CASE AskGemini
  <2>1. turns' = turns /\ next' = next /\ signatures' = signatures /\ contents' = Translated
    BY <1>6 DEF AskGemini
  <2>2. Translated' = Translated
    BY <2>1, TranslatedStays
  <2> QED
    BY <1>1, <2>1, <2>2 DEF ToolsInv, RightTurns
<1>7. CASE UNCHANGED toolsVars
  <2>1. turns' = turns /\ next' = next /\ signatures' = signatures /\ contents' = contents
    BY <1>7 DEF toolsVars
  <2>2. Translated' = Translated
    BY <2>1, TranslatedStays
  <2> QED
    BY <2>1, <2>2 DEF ToolsInv, RightTurns
<1> QED
  BY <1>2, <1>3, <1>4, <1>5, <1>6, <1>7 DEF ToolsNext

\* Whatever the conversation, the answers of other providers and what the process
\* has forgotten, Gemini is sent every call and every result once, in order, under
\* its name, together and signed, from any length of turns and any size of the
\* signature cache.
THEOREM ToolTurnsAreKept == ToolsSpec => []ToolTurnsKept
<1>1. ToolsInv => ToolTurnsKept
  BY TranslatedRight DEF ToolsInv
<1> QED
  BY <1>1, ToolsInitial, ToolsStep, PTL DEF ToolsSpec

(* ---------- what chains of responses say, whoever put it in ------------- *)

\* Names of items and calls.
Ids == {"none", "in", "out", "call"} \X (Response \cup {0}) \X Nat

\* Items as the store has them: no references.
ItemType ==
    {x \in [type : {"message", "function_call", "function_call_output"},
            role : {"user", "assistant", "tool"}, id : Ids, call : Ids] :
        x.id # NoId /\ (x.type = "message" => x.role \in {"user", "assistant"})}

ChatType ==
    {m \in [role : {"user", "assistant", "tool", "system"}, says : Ids, calls : Seq(Ids), answers : Ids] :
        m.role = "tool" => m.calls = <<>>}

FactType == [kind : {"user", "assistant", "tool", "system", "call"}, id : Ids, call : Ids]

\* What an item says when its call, if it answers one, is known.
Raw(item) ==
    CASE item.type = "message" -> Fact(item.role, item.id, NoId)
      [] item.type = "function_call" -> Fact("call", NoId, item.call)
      [] OTHER -> Fact("tool", item.id, item.call)

RawFacts(chain) == [i \in DOMAIN chain |-> Raw(chain[i])]

\* A call among the first n facts.
AskedIn(facts, n, call) == \E j \in 1 .. n : facts[j].kind = "call" /\ facts[j].call = call

\* Results without a call before them are the user's.
Mended(facts, n, fact) ==
    IF fact.kind = "tool" /\ ~ AskedIn(facts, n, fact.call) THEN Fact("user", fact.id, fact.call) ELSE fact

Mend(facts) == [i \in DOMAIN facts |-> Mended(facts, i - 1, facts[i])]

LEMMA FactTyped ==
    ASSUME NEW kind \in {"user", "assistant", "tool", "system", "call"}, NEW id \in Ids, NEW call \in Ids
    PROVE  /\ Fact(kind, id, call) \in FactType
           /\ Fact(kind, id, call).kind = kind /\ Fact(kind, id, call).id = id /\ Fact(kind, id, call).call = call
BY DEF Fact, FactType

LEMMA NoIdTyped == NoId \in Ids
BY DEF NoId, Ids

LEMMA RawTyped ==
    ASSUME NEW x \in ItemType
    PROVE  /\ Raw(x) \in FactType
           /\ Raw(x).kind = "call" <=> x.type = "function_call"
           /\ x.type # "message" => Raw(x).call = x.call
<1>1. /\ x.type \in {"message", "function_call", "function_call_output"} /\ x.id \in Ids /\ x.call \in Ids
      /\ x.role \in {"user", "assistant", "tool"} /\ (x.type = "message" => x.role \in {"user", "assistant"})
  BY DEF ItemType
<1>2. CASE x.type = "message"
  <2>1. Raw(x) = Fact(x.role, x.id, NoId)
    BY <1>2 DEF Raw
  <2> QED
    BY <1>1, <1>2, <2>1, FactTyped, NoIdTyped
<1>3. CASE x.type = "function_call"
  <2>1. Raw(x) = Fact("call", NoId, x.call)
    BY <1>3 DEF Raw
  <2> QED
    BY <1>1, <1>3, <2>1, FactTyped, NoIdTyped
<1>4. CASE x.type = "function_call_output"
  <2>1. Raw(x) = Fact("tool", x.id, x.call)
    BY <1>4 DEF Raw
  <2> QED
    BY <1>1, <1>4, <2>1, FactTyped
<1> QED
  BY <1>1, <1>2, <1>3, <1>4

\* A fact stays, unless it becomes the user's.
LEMMA MendedTyped ==
    ASSUME NEW facts, NEW n, NEW x \in FactType
    PROVE  /\ Mended(facts, n, x) \in FactType
           /\ Mended(facts, n, x).kind = "call" <=> x.kind = "call"
           /\ Mended(facts, n, x).id = x.id /\ Mended(facts, n, x).call = x.call
<1>1. x.id \in Ids /\ x.call \in Ids
  BY DEF FactType
<1>2. CASE Mended(facts, n, x) = x
  BY <1>2
<1>3. CASE x.kind = "tool" /\ Mended(facts, n, x) = Fact("user", x.id, x.call)
  BY <1>1, <1>3, FactTyped
<1> QED
  BY <1>2, <1>3 DEF Mended

LEMMA MendTyped ==
    ASSUME NEW s \in Seq(FactType), NEW N, N = Len(s)
    PROVE  /\ Mend(s) \in Seq(FactType) /\ Len(Mend(s)) = N /\ N \in Nat
           /\ \A i \in 1 .. N : Mend(s)[i] = Mended(s, i - 1, s[i]) /\ s[i] \in FactType
<1>1. N \in Nat /\ DOMAIN s = 1 .. N /\ \A i \in 1 .. N : s[i] \in FactType
  BY LenProperties, ElementOfSeq
<1>2. \A i \in 1 .. N : Mended(s, i - 1, s[i]) \in FactType
  BY <1>1, MendedTyped
<1>3. Mend(s) = [i \in 1 .. N |-> Mended(s, i - 1, s[i])]
  BY <1>1 DEF Mend
<1>4. Mend(s) \in [1 .. N -> FactType]
  BY <1>2, <1>3
<1> QED
  BY <1>1, <1>3, <1>4, SeqDef, LenProperties

\* The calls among the first facts do not depend on what comes later, or on how
\* results are mended.
LEMMA AskedStays ==
    ASSUME NEW s, NEW t, NEW n, \A i \in 1 .. n : (s[i].kind = "call" <=> t[i].kind = "call") /\ s[i].call = t[i].call
    PROVE  \A c : AskedIn(s, n, c) <=> AskedIn(t, n, c)
BY DEF AskedIn

LEMMA MendedSame ==
    ASSUME NEW s, NEW t, NEW n, NEW x, AskedIn(s, n, x.call) <=> AskedIn(t, n, x.call)
    PROVE  Mended(s, n, x) = Mended(t, n, x)
BY DEF Mended

\* The facts of a chain are its raw facts, mended.
LEMMA FactsMended ==
    ASSUME NEW chain \in Seq(ItemType)
    PROVE  RawFacts(chain) \in Seq(FactType) /\ Facts(chain) = Mend(RawFacts(chain))
<1>1. PICK N : N = Len(chain)
  OBVIOUS
<1>2. N \in Nat /\ DOMAIN chain = 1 .. N /\ \A i \in 1 .. N : chain[i] \in ItemType
  BY <1>1, LenProperties, ElementOfSeq
<1>3. PICK raw : raw = RawFacts(chain)
  OBVIOUS
<1>4. raw \in Seq(FactType) /\ Len(raw) = N /\ \A i \in 1 .. N : raw[i] = Raw(chain[i])
  <2>1. \A i \in 1 .. N : Raw(chain[i]) \in FactType
    BY <1>2, RawTyped
  <2>2. raw = [i \in 1 .. N |-> Raw(chain[i])]
    BY <1>2, <1>3 DEF RawFacts
  <2>3. raw \in [1 .. N -> FactType]
    BY <2>1, <2>2
  <2> QED
    BY <1>2, <2>2, <2>3, SeqDef, LenProperties
<1>5. PICK m : m = Mend(raw)
  OBVIOUS
<1>6. m \in Seq(FactType) /\ Len(m) = N /\ \A i \in 1 .. N : m[i] = Mended(raw, i - 1, raw[i])
  BY <1>4, <1>5, MendTyped
<1>7. PICK f : f = Facts(chain)
  OBVIOUS
<1>8. DOMAIN f = 1 .. N /\ f = [i \in 1 .. N |-> f[i]]
  BY <1>2, <1>7 DEF Facts
<1>9. ASSUME NEW i \in 1 .. N PROVE f[i] = m[i]
  <2>1. PICK x : x = chain[i]
    OBVIOUS
  <2>2. x \in ItemType /\ raw[i] = Raw(x) /\ m[i] = Mended(raw, i - 1, Raw(x))
    BY <1>2, <1>4, <1>6, <2>1
  <2>3. x.type \in {"message", "function_call", "function_call_output"}
    BY <2>2 DEF ItemType
  <2>4. ASSUME NEW c
        PROVE  AskedIn(raw, i - 1, c)
                 <=> \E j \in 1 .. i - 1 : chain[j].type = "function_call" /\ chain[j].call = c
    <3>1. ASSUME NEW j \in 1 .. i - 1
          PROVE  raw[j].kind = "call" /\ raw[j].call = c
                   <=> chain[j].type = "function_call" /\ chain[j].call = c
      <4>1. j \in 1 .. N
        BY <1>2
      <4>2. PICK y \in ItemType : y = chain[j] /\ raw[j] = Raw(y)
        BY <1>2, <1>4, <4>1
      <4>3. y.type = "function_call" => y.type # "message"
        OBVIOUS
      <4> QED
        BY <4>2, <4>3, RawTyped
    <3> QED
      BY <3>1 DEF AskedIn
  <2>5. PICK asked : asked = \E j \in 1 .. i - 1 : chain[j].type = "function_call" /\ chain[j].call = x.call
    OBVIOUS
  <2>6. f[i] = CASE x.type = "message" -> Fact(x.role, x.id, NoId)
                 [] x.type = "function_call" -> Fact("call", NoId, x.call)
                 [] OTHER -> Fact(IF asked THEN "tool" ELSE "user", x.id, x.call)
    BY <1>2, <1>7, <2>1, <2>5 DEF Facts
  <2>7. CASE x.type = "message"
    <3>1. Raw(x) = Fact(x.role, x.id, NoId) /\ f[i] = Raw(x)
      BY <2>6, <2>7 DEF Raw
    <3>2. x.role \in {"user", "assistant"} /\ x.id \in Ids
      BY <2>2, <2>7 DEF ItemType
    <3>3. Raw(x).kind # "tool"
      BY <3>1, <3>2, NoIdTyped, FactTyped
    <3> QED
      BY <2>2, <3>1, <3>3 DEF Mended
  <2>8. CASE x.type = "function_call"
    <3>1. Raw(x) = Fact("call", NoId, x.call) /\ f[i] = Raw(x)
      BY <2>6, <2>8 DEF Raw
    <3>2. Raw(x).kind = "call"
      BY <2>2, <2>8, RawTyped
    <3> QED
      BY <2>2, <3>1, <3>2 DEF Mended
  <2>9. CASE x.type = "function_call_output"
    <3>1. Raw(x) = Fact("tool", x.id, x.call) /\ x.id \in Ids /\ x.call \in Ids
      BY <2>2, <2>9 DEF Raw, ItemType
    <3>2. Raw(x).kind = "tool" /\ Raw(x).id = x.id /\ Raw(x).call = x.call
      BY <3>1, FactTyped
    <3>3. AskedIn(raw, i - 1, x.call) <=> asked
      BY <2>4, <2>5
    <3>4. CASE asked
      BY <2>2, <2>6, <2>9, <3>1, <3>2, <3>3, <3>4 DEF Mended
    <3>5. CASE ~ asked
      BY <2>2, <2>6, <2>9, <3>2, <3>3, <3>5 DEF Mended
    <3> QED
      BY <3>4, <3>5
  <2> QED
    BY <2>3, <2>7, <2>8, <2>9
<1>10. f = m
  <2>1. m = [i \in 1 .. N |-> m[i]]
    BY <1>6, LenProperties
  <2> QED
    BY <1>8, <1>9, <2>1
<1> QED
  BY <1>3, <1>4, <1>5, <1>7, <1>10

\* Chains that follow each other say one after the other what they say.
LEMMA RawConcat ==
    ASSUME NEW s \in Seq(ItemType), NEW t \in Seq(ItemType)
    PROVE  /\ s \o t \in Seq(ItemType)
           /\ RawFacts(s \o t) = RawFacts(s) \o RawFacts(t)
<1>1. PICK M \in Nat, N \in Nat : M = Len(s) /\ N = Len(t)
  BY LenProperties
<1>2. PICK u : u = s \o t
  OBVIOUS
<1>3. /\ u \in Seq(ItemType) /\ Len(u) = M + N
      /\ \A i \in 1 .. M + N : u[i] = IF i <= M THEN s[i] ELSE t[i - M]
  BY <1>1, <1>2, ConcatProperties
<1>4. DOMAIN s = 1 .. M /\ DOMAIN t = 1 .. N /\ DOMAIN u = 1 .. M + N
  BY <1>1, <1>3, LenProperties
<1>5. PICK a, b, c, d : a = RawFacts(s) /\ b = RawFacts(t) /\ c = RawFacts(u) /\ d = a \o b
  OBVIOUS
<1>6. /\ a = [i \in 1 .. M |-> Raw(s[i])] /\ b = [i \in 1 .. N |-> Raw(t[i])]
      /\ c = [i \in 1 .. M + N |-> Raw(u[i])]
  BY <1>4, <1>5 DEF RawFacts
<1>7. a \in Seq(FactType) /\ b \in Seq(FactType) /\ c \in Seq(FactType)
  BY <1>3, <1>5, FactsMended
<1>8. Len(a) = M /\ Len(b) = N /\ Len(c) = M + N
  <2>1. DOMAIN a = 1 .. M /\ DOMAIN b = 1 .. N /\ DOMAIN c = 1 .. M + N
    BY <1>6
  <2>2. Len(a) \in Nat /\ DOMAIN a = 1 .. Len(a) /\ Len(b) \in Nat /\ DOMAIN b = 1 .. Len(b)
        /\ Len(c) \in Nat /\ DOMAIN c = 1 .. Len(c)
    BY <1>7, LenProperties
  <2> QED
    BY <1>1, <2>1, <2>2
<1>9. /\ d \in Seq(FactType) /\ Len(d) = M + N
      /\ \A i \in 1 .. M + N : d[i] = IF i <= M THEN a[i] ELSE b[i - M]
  BY <1>5, <1>7, <1>8, ConcatProperties
<1>10. ASSUME NEW i \in 1 .. M + N PROVE c[i] = d[i]
  <2>1. CASE i <= M
    <3>1. i \in 1 .. M /\ u[i] = s[i] /\ d[i] = a[i] /\ c[i] = Raw(u[i])
      BY <1>3, <1>6, <1>9, <2>1
    <3> QED
      BY <1>6, <3>1
  <2>2. CASE ~ i <= M
    <3>1. PICK k \in 1 .. N : k = i - M
      <4>1. i - M \in 1 .. N
        BY <2>2
      <4> QED
        BY <4>1
    <3>2. u[i] = t[k] /\ d[i] = b[k] /\ c[i] = Raw(u[i])
      BY <1>3, <1>6, <1>9, <2>2, <3>1
    <3> QED
      BY <1>6, <3>2
  <2> QED
    BY <2>1, <2>2
<1>11. c = d
  BY <1>7, <1>8, <1>9, <1>10, SeqEqual
<1> QED
  BY <1>2, <1>3, <1>5, <1>11

\* What was mended is mended again, with what comes later, to the same effect.
LEMMA MendTwice ==
    ASSUME NEW s \in Seq(FactType), NEW t \in Seq(FactType)
    PROVE  Mend(Mend(s) \o t) = Mend(s \o t)
<1>1. PICK M \in Nat, N \in Nat : M = Len(s) /\ N = Len(t)
  BY LenProperties
<1>2. PICK a, u, v, p, q : a = Mend(s) /\ u = a \o t /\ v = s \o t /\ p = Mend(u) /\ q = Mend(v)
  OBVIOUS
<1>3. /\ a \in Seq(FactType) /\ Len(a) = M
      /\ \A i \in 1 .. M : a[i] = Mended(s, i - 1, s[i]) /\ s[i] \in FactType
  BY <1>1, <1>2, MendTyped
<1>4. /\ u \in Seq(FactType) /\ Len(u) = M + N
      /\ \A i \in 1 .. M + N : u[i] = IF i <= M THEN a[i] ELSE t[i - M]
  <2>1. a \in Seq(FactType) /\ Len(a) = M /\ Len(t) = N /\ u = a \o t
    BY <1>1, <1>2, <1>3
  <2> QED
    BY <2>1, ConcatProperties
<1>5. /\ v \in Seq(FactType) /\ Len(v) = M + N
      /\ \A i \in 1 .. M + N : v[i] = IF i <= M THEN s[i] ELSE t[i - M]
  BY <1>1, <1>2, ConcatProperties
<1>6. /\ p \in Seq(FactType) /\ Len(p) = M + N
      /\ \A i \in 1 .. M + N : p[i] = Mended(u, i - 1, u[i])
  BY <1>2, <1>4, MendTyped
<1>7. /\ q \in Seq(FactType) /\ Len(q) = M + N
      /\ \A i \in 1 .. M + N : q[i] = Mended(v, i - 1, v[i])
  BY <1>2, <1>5, MendTyped
<1>8. \A i \in 1 .. M + N : (u[i].kind = "call" <=> v[i].kind = "call") /\ u[i].call = v[i].call
  <2> TAKE i \in 1 .. M + N
  <2>1. CASE i <= M
    <3>1. i \in 1 .. M /\ u[i] = a[i] /\ v[i] = s[i]
      BY <1>4, <1>5, <2>1
    <3> QED
      BY <1>3, <3>1, MendedTyped
  <2>2. CASE ~ i <= M
    BY <1>4, <1>5, <2>2
  <2> QED
    BY <2>1, <2>2
<1>9. ASSUME NEW i \in 1 .. M + N PROVE \A c : AskedIn(u, i - 1, c) <=> AskedIn(v, i - 1, c)
  <2>1. \A j \in 1 .. i - 1 : j \in 1 .. M + N
    OBVIOUS
  <2> QED
    BY <1>8, <2>1, AskedStays
<1>10. ASSUME NEW i \in 1 .. M + N PROVE p[i] = q[i]
  <2>1. CASE i <= M
    <3>1. i \in 1 .. M /\ u[i] = a[i] /\ v[i] = s[i] /\ a[i] = Mended(s, i - 1, s[i]) /\ s[i] \in FactType
      BY <1>3, <1>4, <1>5, <2>1
    <3>2. \A j \in 1 .. i - 1 : v[j] = s[j]
      <4>1. \A j \in 1 .. i - 1 : j \in 1 .. M + N /\ j <= M
        BY <2>1
      <4> QED
        BY <1>5, <4>1
    <3>3. \A c : AskedIn(v, i - 1, c) <=> AskedIn(s, i - 1, c)
      BY <3>2 DEF AskedIn
    <3>4. PICK x \in FactType : x = s[i]
      BY <3>1
    <3>5. PICK y : y = Mended(v, i - 1, x)
      OBVIOUS
    <3>6. a[i] = y /\ u[i] = y
      BY <3>1, <3>3, <3>4, <3>5 DEF Mended
    <3>7. p[i] = Mended(u, i - 1, y) /\ q[i] = y
      BY <1>6, <1>7, <3>1, <3>4, <3>5, <3>6
    <3>8. Mended(u, i - 1, y) = y
      <4>1. x.id \in Ids /\ x.call \in Ids
        BY DEF FactType
      <4>2. CASE x.kind = "tool" /\ ~ AskedIn(v, i - 1, x.call)
        <5>1. y.kind # "tool"
          BY <3>5, <4>1, <4>2, FactTyped DEF Mended
        <5> QED
          BY <5>1 DEF Mended
      <4>3. CASE ~ (x.kind = "tool" /\ ~ AskedIn(v, i - 1, x.call))
        <5>1. y = x
          BY <3>5, <4>3 DEF Mended
        <5>2. AskedIn(u, i - 1, x.call) <=> AskedIn(v, i - 1, x.call)
          BY <1>9
        <5> QED
          BY <4>3, <5>1, <5>2 DEF Mended
      <4> QED
        BY <4>2, <4>3
    <3> QED
      BY <3>7, <3>8
  <2>2. CASE ~ i <= M
    <3>1. u[i] = v[i]
      BY <1>4, <1>5, <2>2
    <3>2. AskedIn(u, i - 1, v[i].call) <=> AskedIn(v, i - 1, v[i].call)
      BY <1>9
    <3>3. Mended(u, i - 1, v[i]) = Mended(v, i - 1, v[i])
      BY <3>2, MendedSame
    <3> QED
      BY <1>6, <1>7, <3>1, <3>3
  <2> QED
    BY <2>1, <2>2
<1>11. p = q
  BY <1>6, <1>7, <1>10, SeqEqual
<1> QED
  BY <1>2, <1>11

\* Facts t of one message, in which no result follows a call, are mended to y after
\* facts s.
MendsTo(t, s, y) ==
    \A i \in DOMAIN t : /\ y[i] = Mended(s, Len(s), t[i])
                        /\ \A j \in 1 .. i - 1 : ~ (t[j].kind = "call" /\ t[i].kind = "tool")

LEMMA MendMore ==
    ASSUME NEW s \in Seq(FactType), NEW t \in Seq(FactType), NEW y \in Seq(FactType),
           Len(y) = Len(t), MendsTo(t, s, y),
           NEW u, Continues(u, s, t), NEW v, Continues(v, Mend(s), y)
    PROVE  v = Mend(u)
<1>1. PICK M \in Nat, N \in Nat : M = Len(s) /\ N = Len(t)
  BY LenProperties
<1>2. PICK a, p : a = Mend(s) /\ p = Mend(u) /\ u = s \o t /\ v = a \o y
  BY DEF Continues
<1>3. /\ a \in Seq(FactType) /\ Len(a) = M
      /\ \A i \in 1 .. M : a[i] = Mended(s, i - 1, s[i]) /\ s[i] \in FactType
  BY <1>1, <1>2, MendTyped
<1>4. /\ u \in Seq(FactType) /\ Len(u) = M + N
      /\ \A i \in 1 .. M + N : u[i] = IF i <= M THEN s[i] ELSE t[i - M]
  BY <1>1, <1>2, ConcatProperties
<1>5. /\ v \in Seq(FactType) /\ Len(v) = M + N
      /\ \A i \in 1 .. M + N : v[i] = IF i <= M THEN a[i] ELSE y[i - M]
  <2>1. a \in Seq(FactType) /\ Len(a) = M /\ Len(y) = N /\ v = a \o y
    BY <1>1, <1>2, <1>3
  <2> QED
    BY <2>1, ConcatProperties
<1>6. /\ p \in Seq(FactType) /\ Len(p) = M + N
      /\ \A i \in 1 .. M + N : p[i] = Mended(u, i - 1, u[i])
  BY <1>2, <1>4, MendTyped
<1>7. DOMAIN t = 1 .. N
  BY <1>1, LenProperties
<1>8. ASSUME NEW i \in 1 .. M + N PROVE p[i] = v[i]
  <2>1. CASE i <= M
    <3>1. i \in 1 .. M /\ u[i] = s[i] /\ v[i] = a[i] /\ a[i] = Mended(s, i - 1, s[i])
      BY <1>3, <1>4, <1>5, <2>1
    <3>2. \A j \in 1 .. i - 1 : u[j] = s[j]
      <4>1. \A j \in 1 .. i - 1 : j \in 1 .. M + N /\ j <= M
        BY <2>1
      <4> QED
        BY <1>4, <4>1
    <3>3. AskedIn(u, i - 1, s[i].call) <=> AskedIn(s, i - 1, s[i].call)
      BY <3>2 DEF AskedIn
    <3>4. Mended(u, i - 1, s[i]) = Mended(s, i - 1, s[i])
      BY <3>3, MendedSame
    <3> QED
      BY <1>6, <3>1, <3>4
  <2>2. CASE ~ i <= M
    <3>1. PICK k \in 1 .. N : k = i - M
      <4>1. i - M \in 1 .. N
        BY <2>2
      <4> QED
        BY <4>1
    <3>2. u[i] = t[k] /\ v[i] = y[k]
      BY <1>4, <1>5, <2>2, <3>1
    <3>3. /\ y[k] = Mended(s, M, t[k])
          /\ \A j \in 1 .. k - 1 : ~ (t[j].kind = "call" /\ t[k].kind = "tool")
      BY <1>1, <1>7 DEF MendsTo
    <3>4. CASE t[k].kind # "tool"
      BY <1>6, <3>2, <3>3, <3>4 DEF Mended
    <3>5. CASE t[k].kind = "tool"
      <4>1. ASSUME NEW j \in 1 .. i - 1
            PROVE  u[j].kind = "call" /\ u[j].call = t[k].call
                     <=> j \in 1 .. M /\ s[j].kind = "call" /\ s[j].call = t[k].call
        <5>1. CASE j <= M
          <6>1. j \in 1 .. M /\ j \in 1 .. M + N
            BY <5>1
          <6>2. u[j] = s[j]
            BY <1>4, <5>1, <6>1
          <6> QED
            BY <6>1, <6>2
        <5>2. CASE ~ j <= M
          <6>1. j - M \in 1 .. k - 1 /\ j \in 1 .. M + N /\ j \notin 1 .. M
            BY <3>1, <5>2
          <6>2. u[j] = t[j - M]
            BY <1>4, <5>2, <6>1
          <6>3. u[j].kind # "call"
            BY <3>3, <3>5, <6>1, <6>2
          <6> QED
            BY <6>1, <6>3
        <5> QED
          BY <5>1, <5>2
      <4>2. \A j \in 1 .. M : j \in 1 .. i - 1
        BY <2>2
      <4>3. AskedIn(u, i - 1, t[k].call) <=> AskedIn(s, M, t[k].call)
        BY <4>1, <4>2 DEF AskedIn
      <4> QED
        BY <1>6, <3>2, <3>3, <4>3 DEF Mended
    <3> QED
      BY <3>4, <3>5
  <2> QED
    BY <2>1, <2>2
<1>9. p = v
  BY <1>5, <1>6, <1>8, SeqEqual
<1> QED
  BY <1>2, <1>9

\* What one message says is what it says itself, then its calls.
LEMMA FactsOfTyped ==
    ASSUME NEW m \in ChatType
    PROVE  /\ FactsOf(m) \in Seq(FactType)
           /\ \A c : (\E i \in DOMAIN FactsOf(m) : FactsOf(m)[i].kind = "call" /\ FactsOf(m)[i].call = c)
                       <=> c \in ToSet(m.calls)
           /\ m.calls = <<>> /\ m.says # NoId => FactsOf(m) = <<Fact(m.role, m.says, m.answers)>>
           /\ m.calls = <<>> /\ m.says = NoId => FactsOf(m) = <<>>
           /\ m.role # "tool" => \A i \in DOMAIN FactsOf(m) : FactsOf(m)[i].kind # "tool"
<1>1. /\ m.role \in {"user", "assistant", "tool", "system"} /\ m.says \in Ids /\ m.answers \in Ids
      /\ m.calls \in Seq(Ids)
  BY DEF ChatType
<1>2. PICK N \in Nat : N = Len(m.calls)
  BY <1>1, LenProperties
<1>3. DOMAIN m.calls = 1 .. N /\ \A i \in 1 .. N : m.calls[i] \in Ids
  BY <1>1, <1>2, LenProperties, ElementOfSeq
<1>4. PICK fact : fact = Fact(m.role, m.says, m.answers)
  OBVIOUS
<1>5. fact \in FactType /\ fact.kind = m.role
  BY <1>1, <1>4, FactTyped
<1>6. PICK text, n : text = (IF m.says = NoId THEN <<>> ELSE <<fact>>) /\ n = (IF m.says = NoId THEN 0 ELSE 1)
  OBVIOUS
<1>7. n \in Nat /\ text \in Seq(FactType) /\ Len(text) = n /\ \A i \in 1 .. n : text[i] = fact
  <2>1. <<fact>> \in Seq(FactType) /\ Len(<<fact>>) = 1 /\ <<fact>>[1] = fact
    BY <1>5
  <2>2. <<>> \in Seq(FactType) /\ Len(<<>>) = 0
    BY EmptySeq
  <2> QED
    BY <1>6, <2>1, <2>2
<1>8. PICK called : called = [i \in 1 .. N |-> Fact("call", NoId, m.calls[i])]
  OBVIOUS
<1>9. /\ called \in Seq(FactType) /\ Len(called) = N
      /\ \A i \in 1 .. N : called[i].kind = "call" /\ called[i].call = m.calls[i]
  <2>1. \A i \in 1 .. N : /\ Fact("call", NoId, m.calls[i]) \in FactType
                          /\ Fact("call", NoId, m.calls[i]).kind = "call"
                          /\ Fact("call", NoId, m.calls[i]).call = m.calls[i]
    BY <1>3, NoIdTyped, FactTyped
  <2>2. called \in [1 .. N -> FactType]
    BY <1>8, <2>1
  <2> QED
    BY <1>8, <2>1, <2>2, SeqDef, LenProperties
<1>10. PICK all : all = text \o called
  OBVIOUS
<1>11. FactsOf(m) = all
  BY <1>3, <1>4, <1>6, <1>8, <1>10 DEF FactsOf
<1>12. /\ all \in Seq(FactType) /\ Len(all) = n + N
       /\ \A i \in 1 .. n + N : all[i] = IF i <= n THEN text[i] ELSE called[i - n]
  <2>1. text \in Seq(FactType) /\ called \in Seq(FactType) /\ Len(text) = n /\ Len(called) = N /\ all = text \o called
    BY <1>7, <1>9, <1>10
  <2> QED
    BY <2>1, ConcatProperties
<1>13. DOMAIN all = 1 .. n + N
  BY <1>12, LenProperties
<1>14. \A i \in 1 .. n + N : \/ i <= n /\ all[i] = fact
                             \/ i - n \in 1 .. N /\ all[i].kind = "call" /\ all[i].call = m.calls[i - n]
  <2> TAKE i \in 1 .. n + N
  <2>1. CASE i <= n
    <3>1. i \in 1 .. n
      BY <1>7, <2>1
    <3> QED
      BY <1>7, <1>12, <2>1, <3>1
  <2>2. CASE ~ i <= n
    <3>1. i - n \in 1 .. N
      BY <1>7, <2>2
    <3> QED
      BY <1>9, <1>12, <2>2, <3>1
  <2> QED
    BY <2>1, <2>2
<1>15. ASSUME NEW c
       PROVE  (\E i \in DOMAIN all : all[i].kind = "call" /\ all[i].call = c) <=> c \in ToSet(m.calls)
  <2>1. c \in ToSet(m.calls) <=> \E k \in 1 .. N : m.calls[k] = c
    BY <1>3 DEF ToSet
  <2>2. ASSUME NEW i \in DOMAIN all, all[i].kind = "call" /\ all[i].call = c PROVE c \in ToSet(m.calls)
    <3>1. fact.kind # "call"
      BY <1>1, <1>5
    <3> QED
      BY <1>13, <1>14, <2>1, <2>2, <3>1
  <2>3. ASSUME NEW k \in 1 .. N, m.calls[k] = c
        PROVE  \E i \in DOMAIN all : all[i].kind = "call" /\ all[i].call = c
    <3>1. n + k \in 1 .. n + N /\ ~ n + k <= n /\ (n + k) - n = k
      BY <1>7
    <3>2. all[n + k] = called[k]
      BY <1>12, <3>1
    <3> QED
      BY <1>9, <1>13, <2>3, <3>1, <3>2
  <2> QED
    BY <2>1, <2>2, <2>3
<1>16. ASSUME m.calls = <<>> PROVE all = text
  <2>1. N = 0
    BY <1>2, <1>16, EmptySeq
  <2>2. called = <<>>
    BY <1>9, <2>1, EmptySeq
  <2> QED
    BY <1>7, <1>10, <2>2, ConcatEmptySeq
<1>17. ASSUME m.role # "tool" PROVE \A i \in DOMAIN all : all[i].kind # "tool"
  BY <1>5, <1>13, <1>14, <1>17
<1> QED
  BY <1>4, <1>6, <1>11, <1>12, <1>15, <1>16, <1>17

\* What a message more, or other messages after them, add.
LEMMA SaidConcat ==
    ASSUME NEW s \in Seq(ChatType), NEW t \in Seq(ChatType)
    PROVE  /\ Said(s) \in Seq(FactType) /\ Said(t) \in Seq(FactType)
           /\ s \o t \in Seq(ChatType)
           /\ Said(s \o t) = Said(s) \o Said(t)
<1>1. PICK M \in Nat, N \in Nat : M = Len(s) /\ N = Len(t)
  BY LenProperties
<1>2. PICK u : u = s \o t
  OBVIOUS
<1>3. /\ u \in Seq(ChatType) /\ Len(u) = M + N
      /\ \A i \in 1 .. M + N : u[i] = IF i <= M THEN s[i] ELSE t[i - M]
  BY <1>1, <1>2, ConcatProperties
<1>4. DOMAIN s = 1 .. M /\ DOMAIN t = 1 .. N /\ DOMAIN u = 1 .. M + N
  BY <1>1, <1>3, LenProperties
<1>5. PICK D : D = Seq(FactType)
  OBVIOUS
<1>6. PICK a, b, c : /\ a = [i \in 1 .. M |-> FactsOf(s[i])] /\ b = [i \in 1 .. N |-> FactsOf(t[i])]
                     /\ c = [i \in 1 .. M + N |-> FactsOf(u[i])]
  OBVIOUS
<1>7. /\ \A i \in 1 .. M : FactsOf(s[i]) \in D
      /\ \A i \in 1 .. N : FactsOf(t[i]) \in D
      /\ \A i \in 1 .. M + N : FactsOf(u[i]) \in D
  <2>1. \A i \in 1 .. M : s[i] \in ChatType
    BY <1>1, ElementOfSeq
  <2>2. \A i \in 1 .. N : t[i] \in ChatType
    BY <1>1, ElementOfSeq
  <2>3. \A i \in 1 .. M + N : u[i] \in ChatType
    BY <1>3, ElementOfSeq
  <2> QED
    BY <1>5, <2>1, <2>2, <2>3, FactsOfTyped
<1>8. a \in [1 .. M -> D] /\ b \in [1 .. N -> D] /\ c \in [1 .. M + N -> D]
  BY <1>6, <1>7
<1>9. a \in Seq(D) /\ Len(a) = M /\ b \in Seq(D) /\ Len(b) = N /\ c \in Seq(D) /\ Len(c) = M + N
  BY <1>8, SeqDef, LenProperties
<1>10. PICK d : d = a \o b
  OBVIOUS
<1>11. /\ d \in Seq(D) /\ Len(d) = M + N
       /\ \A i \in 1 .. M + N : d[i] = IF i <= M THEN a[i] ELSE b[i - M]
  <2>1. a \in Seq(D) /\ Len(a) = M /\ b \in Seq(D) /\ Len(b) = N /\ d = a \o b
    BY <1>9, <1>10
  <2> QED
    BY <2>1, ConcatProperties
<1>12. ASSUME NEW i \in 1 .. M + N PROVE c[i] = d[i]
  <2>1. CASE i <= M
    <3>1. i \in 1 .. M /\ u[i] = s[i] /\ d[i] = a[i]
      BY <1>3, <1>11, <2>1
    <3> QED
      BY <1>6, <3>1
  <2>2. CASE ~ i <= M
    <3>1. i - M \in 1 .. N
      BY <2>2
    <3>2. u[i] = t[i - M] /\ d[i] = b[i - M]
      BY <1>3, <1>11, <2>2
    <3> QED
      BY <1>6, <3>1, <3>2
  <2> QED
    BY <2>1, <2>2
<1>13. c = d
  BY <1>9, <1>11, <1>12, SeqEqual
<1>14. Said(s) = FlattenSeq(a) /\ Said(t) = FlattenSeq(b) /\ Said(u) = FlattenSeq(c)
  BY <1>4, <1>6 DEF Said
<1>15. a \in Seq(Seq(FactType)) /\ b \in Seq(Seq(FactType))
  BY <1>5, <1>9
<1>16. /\ FlattenSeq(a) \in Seq(FactType) /\ FlattenSeq(b) \in Seq(FactType)
       /\ FlattenSeq(a \o b) = FlattenSeq(a) \o FlattenSeq(b)
  BY <1>15, FlattenConcat
<1> QED
  BY <1>2, <1>3, <1>10, <1>13, <1>14, <1>16

\* The calls of facts that follow each other are those of both.
LEMMA AskedMore ==
    ASSUME NEW s \in Seq(FactType), NEW t \in Seq(FactType), NEW u, Continues(u, s, t)
    PROVE  \A c : AskedIn(u, Len(u), c)
                    <=> \/ AskedIn(s, Len(s), c)
                        \/ \E i \in DOMAIN t : t[i].kind = "call" /\ t[i].call = c
<1>1. PICK M \in Nat, N \in Nat : M = Len(s) /\ N = Len(t)
  BY LenProperties
<1>2. /\ u \in Seq(FactType) /\ Len(u) = M + N
      /\ \A i \in 1 .. M + N : u[i] = IF i <= M THEN s[i] ELSE t[i - M]
  BY <1>1, ConcatProperties DEF Continues
<1>3. DOMAIN t = 1 .. N
  BY <1>1, LenProperties
<1>4. \A i \in 1 .. M : i \in 1 .. M + N /\ u[i] = s[i]
  BY <1>2
<1>5. \A i \in 1 .. N : M + i \in 1 .. M + N /\ u[M + i] = t[i]
  <2> TAKE i \in 1 .. N
  <2>1. M + i \in 1 .. M + N /\ ~ M + i <= M /\ (M + i) - M = i
    OBVIOUS
  <2> QED
    BY <1>2, <2>1
<1>6. \A i \in 1 .. M + N : i \in 1 .. M \/ \E k \in 1 .. N : i = M + k
  <2> TAKE i \in 1 .. M + N
  <2>1. CASE i <= M
    BY <2>1
  <2>2. CASE ~ i <= M
    <3>1. i - M \in 1 .. N /\ i = M + (i - M)
      BY <2>2
    <3> QED
      BY <3>1
  <2> QED
    BY <2>1, <2>2
<1>7. ASSUME NEW c PROVE AskedIn(u, M + N, c) <=> \/ AskedIn(s, M, c)
                                                  \/ \E i \in 1 .. N : t[i].kind = "call" /\ t[i].call = c
  <2> DEFINE Is(x) == x.kind = "call" /\ x.call = c
  <2>1. ASSUME NEW i \in 1 .. M + N, Is(u[i])
        PROVE  (\E j \in 1 .. M : Is(s[j])) \/ \E j \in 1 .. N : Is(t[j])
    BY <1>4, <1>5, <1>6, <2>1
  <2>2. ASSUME NEW j \in 1 .. M, Is(s[j]) PROVE \E i \in 1 .. M + N : Is(u[i])
    BY <1>4, <2>2
  <2>3. ASSUME NEW j \in 1 .. N, Is(t[j]) PROVE \E i \in 1 .. M + N : Is(u[i])
    BY <1>5, <2>3
  <2> QED
    BY <2>1, <2>2, <2>3 DEF AskedIn
<1>8. Len(u) = M + N /\ Len(s) = M
  BY <1>1, <1>2
<1> QED
  BY <1>3, <1>7, <1>8

LEMMA OtherRole ==
    ASSUME NEW R, NEW Q, NEW Z, NEW m \in [role : R, says : Q, calls : Z, answers : Q], NEW role
    PROVE  [m EXCEPT !.role = role] = [role |-> role, says |-> m.says, calls |-> m.calls, answers |-> m.answers]
OBVIOUS

\* A result whose call is in no earlier message is mended, all else is said as before.
LEMMA RepairOne ==
    ASSUME NEW m \in ChatType, NEW s \in Seq(FactType), NEW r,
           r = IF m.role = "tool" /\ ~ AskedIn(s, Len(s), m.answers) THEN [m EXCEPT !.role = "user"] ELSE m
    PROVE  /\ r \in ChatType /\ r.calls = m.calls
           /\ Len(FactsOf(r)) = Len(FactsOf(m))
           /\ MendsTo(FactsOf(m), s, FactsOf(r))
<1>1. /\ m.role \in {"user", "assistant", "tool", "system"} /\ m.says \in Ids /\ m.answers \in Ids
      /\ m.calls \in Seq(Ids) /\ (m.role = "tool" => m.calls = <<>>)
  BY DEF ChatType
<1>2. CASE m.role # "tool"
  <2>1. r = m
    BY <1>2
  <2>2. \A i \in DOMAIN FactsOf(m) : FactsOf(m)[i].kind # "tool"
    BY <1>2, FactsOfTyped
  <2> QED
    BY <2>1, <2>2 DEF MendsTo, Mended
<1>3. CASE m.role = "tool"
  <2>1. PICK role : role = IF ~ AskedIn(s, Len(s), m.answers) THEN "user" ELSE "tool"
    OBVIOUS
  <2>2. [m EXCEPT !.role = "user"] = [role |-> "user", says |-> m.says, calls |-> m.calls, answers |-> m.answers]
    BY OtherRole DEF ChatType
  <2>3. m = [role |-> m.role, says |-> m.says, calls |-> m.calls, answers |-> m.answers]
    BY DEF ChatType
  <2>4. r = [role |-> role, says |-> m.says, calls |-> m.calls, answers |-> m.answers]
    BY <1>3, <2>1, <2>2, <2>3
  <2>5. m.calls = <<>> /\ role \in {"user", "tool"}
    BY <1>1, <1>3, <2>1
  <2>6. r \in ChatType /\ r.calls = m.calls /\ r.says = m.says /\ r.answers = m.answers /\ r.role = role
    BY <1>1, <2>4, <2>5 DEF ChatType
  <2>7. CASE m.says = NoId
    <3>1. FactsOf(m) = <<>> /\ FactsOf(r) = <<>>
      BY <2>5, <2>6, <2>7, FactsOfTyped
    <3> QED
      BY <2>6, <3>1 DEF MendsTo
  <2>8. CASE m.says # NoId
    <3>1. PICK a, b : a = Fact("tool", m.says, m.answers) /\ b = Fact(role, m.says, m.answers)
      OBVIOUS
    <3>2. FactsOf(m) = <<a>> /\ FactsOf(r) = <<b>>
      BY <1>3, <2>5, <2>6, <2>8, <3>1, FactsOfTyped
    <3>3. a.kind = "tool" /\ a.id = m.says /\ a.call = m.answers
      BY <1>1, <3>1, FactTyped
    <3>4. b = Mended(s, Len(s), a)
      BY <2>1, <3>1, <3>3 DEF Mended
    <3>5. DOMAIN <<a>> = 1 .. 1 /\ <<a>>[1] = a /\ <<b>>[1] = b /\ Len(<<a>>) = Len(<<b>>)
      OBVIOUS
    <3>6. ASSUME NEW i \in 1 .. 1 PROVE /\ <<b>>[i] = Mended(s, Len(s), <<a>>[i])
                                       /\ \A j \in 1 .. i - 1 : FALSE
      BY <3>4, <3>5, <3>6
    <3> QED
      BY <2>6, <3>2, <3>5, <3>6 DEF MendsTo
  <2> QED
    BY <2>7, <2>8
<1> QED
  BY <1>2, <1>3

\* Repairing messages mends what they say.
LEMMA RepairSays ==
    ASSUME NEW s \in Seq(ChatType)
    PROVE  Repair(s) \in Seq(ChatType) /\ Said(Repair(s)) = Mend(Said(s))
<1>1. PICK L \in Nat : L = Len(s)
  BY LenProperties
<1>2. DOMAIN s = 1 .. L /\ \A i \in 1 .. L : s[i] \in ChatType
  BY <1>1, LenProperties, ElementOfSeq
<1>3. PICK r : r = Repair(s)
  OBVIOUS
<1> DEFINE Asked(i, c) == \E j \in 1 .. i : c \in ToSet(s[j].calls)
           Repaired(i) == IF s[i].role = "tool" /\ ~ Asked(i - 1, s[i].answers)
                          THEN [s[i] EXCEPT !.role = "user"] ELSE s[i]
<1>4. r = [i \in 1 .. L |-> Repaired(i)]
  BY <1>2, <1>3 DEF Repair
<1>5. \A i \in 1 .. L : r[i] = Repaired(i)
  BY <1>4
<1>6. \A i \in 1 .. L : r[i] \in ChatType
  <2> TAKE i \in 1 .. L
  <2>1. s[i] \in ChatType
    BY <1>2
  <2>2. PICK m \in ChatType : m = s[i]
    BY <2>1
  <2>3. [m EXCEPT !.role = "user"] \in ChatType
    <3>1. [m EXCEPT !.role = "user"]
            = [role |-> "user", says |-> m.says, calls |-> m.calls, answers |-> m.answers]
      BY OtherRole DEF ChatType
    <3> QED
      BY <3>1 DEF ChatType
  <2>4. r[i] = [s[i] EXCEPT !.role = "user"] \/ r[i] = s[i]
    BY <1>5
  <2> QED
    BY <2>1, <2>2, <2>3, <2>4
<1>7. r \in Seq(ChatType) /\ Len(r) = L
  <2>1. r \in [1 .. L -> ChatType]
    BY <1>4, <1>6
  <2> QED
    BY <2>1, SeqDef, LenProperties
<1>8. PICK a, b : a = [i \in 1 .. L |-> FactsOf(s[i])] /\ b = [i \in 1 .. L |-> FactsOf(r[i])]
  OBVIOUS
<1>9. \A i \in 1 .. L : FactsOf(s[i]) \in Seq(FactType) /\ FactsOf(r[i]) \in Seq(FactType)
  BY <1>2, <1>6, FactsOfTyped
<1>10. a \in Seq(Seq(FactType)) /\ Len(a) = L /\ b \in Seq(Seq(FactType)) /\ Len(b) = L
  <2>1. a \in [1 .. L -> Seq(FactType)] /\ b \in [1 .. L -> Seq(FactType)]
    BY <1>8, <1>9
  <2> QED
    BY <2>1, SeqDef, LenProperties
<1>11. Said(s) = FlattenSeq(a) /\ Said(r) = FlattenSeq(b)
  <2>1. DOMAIN r = 1 .. L
    BY <1>4
  <2> QED
    BY <1>2, <1>8, <2>1 DEF Said
<1>12. PICK f : /\ Joins(a, f, L) /\ FlattenSeq(a) = f[L]
                /\ \A n \in 0 .. L : f[n] \in Seq(FactType)
  <2>1. a \in Seq(Seq(FactType)) /\ L = Len(a)
    BY <1>10
  <2>2. PICK f \in [0 .. L -> Seq(FactType)] : Joins(a, f, L) /\ FlattenSeq(a) = f[L]
    BY <2>1, FlattenJoins
  <2>3. \A n \in 0 .. L : f[n] \in Seq(FactType)
    OBVIOUS
  <2> QED
    BY <2>2, <2>3
<1>13. PICK g : Joins(b, g, L) /\ FlattenSeq(b) = g[L]
  <2>1. b \in Seq(Seq(FactType)) /\ L = Len(b)
    BY <1>10
  <2>2. \E g \in [0 .. L -> Seq(FactType)] : Joins(b, g, L) /\ FlattenSeq(b) = g[L]
    BY <2>1, FlattenJoins
  <2> QED
    BY <2>2
<1> DEFINE Right(n) == g[n] = Mend(f[n]) /\ \A c : AskedIn(f[n], Len(f[n]), c) <=> Asked(n, c)
           T == {n \in Nat : n <= L => Right(n)}
<1>14. 0 \in T
  <2>1. f[0] = <<>> /\ g[0] = <<>>
    BY <1>12, <1>13 DEF Joins
  <2>2. Mend(<<>>) = <<>>
    BY DEF Mend
  <2>3. 1 .. 0 = {} /\ Len(<<>>) = 0
    OBVIOUS
  <2>4. \A c : ~ AskedIn(<<>>, 0, c) /\ ~ Asked(0, c)
    BY <2>3 DEF AskedIn
  <2> QED
    BY <2>1, <2>2, <2>3, <2>4
<1>15. ASSUME NEW n \in Nat, n \in T PROVE n + 1 \in T
  <2> SUFFICES ASSUME n + 1 <= L PROVE Right(n + 1)
    OBVIOUS
  <2>1. PICK k \in Nat : k = n + 1
    OBVIOUS
  <2>2. k \in 1 .. L /\ k - 1 = n /\ n \in 0 .. L /\ n <= L /\ k \in 0 .. L
    BY <2>1
  <2>3. Right(n)
    BY <1>15, <2>2
  <2>4. PICK m, y, p, q, u, v : /\ m = s[k] /\ y = r[k] /\ p = f[n] /\ q = f[k] /\ u = g[n] /\ v = g[k]
    OBVIOUS
  <2>5. m \in ChatType /\ p \in Seq(FactType) /\ q \in Seq(FactType)
    BY <1>2, <1>12, <2>2, <2>4
  <2>6. y = IF m.role = "tool" /\ ~ AskedIn(p, Len(p), m.answers) THEN [m EXCEPT !.role = "user"] ELSE m
    BY <1>5, <2>2, <2>3, <2>4
  <2>7. /\ y \in ChatType /\ Len(FactsOf(y)) = Len(FactsOf(m)) /\ MendsTo(FactsOf(m), p, FactsOf(y))
    BY <2>5, <2>6, RepairOne
  <2>8. PICK t, z : t = FactsOf(m) /\ z = FactsOf(y)
    OBVIOUS
  <2>9. t \in Seq(FactType) /\ z \in Seq(FactType) /\ Len(z) = Len(t) /\ MendsTo(t, p, z)
    BY <2>5, <2>7, <2>8, FactsOfTyped
  <2>10. a[k] = t /\ b[k] = z
    BY <1>8, <2>2, <2>4, <2>8
  <2>11. Continues(q, p, t) /\ Continues(v, u, z) /\ u = Mend(p)
    BY <1>12, <1>13, <2>2, <2>3, <2>4, <2>10 DEF Joins, Continues
  <2>12. v = Mend(q)
    BY <2>5, <2>9, <2>11, MendMore
  <2>13. \A c : AskedIn(q, Len(q), c) <=> Asked(k, c)
    <3>1. \A c : AskedIn(q, Len(q), c)
                   <=> \/ AskedIn(p, Len(p), c)
                       \/ \E i \in DOMAIN t : t[i].kind = "call" /\ t[i].call = c
      BY <2>5, <2>9, <2>11, AskedMore
    <3>2. \A c : (\E i \in DOMAIN t : t[i].kind = "call" /\ t[i].call = c) <=> c \in ToSet(m.calls)
      BY <2>5, <2>8, FactsOfTyped
    <3>3. \A c : Asked(k, c) <=> Asked(n, c) \/ c \in ToSet(m.calls)
      <4>1. \A j \in 1 .. k : j \in 1 .. n \/ j = k
        BY <2>1
      <4>2. \A j \in 1 .. n : j \in 1 .. k
        BY <2>1
      <4>3. k \in 1 .. k
        BY <2>1
      <4> QED
        BY <2>4, <4>1, <4>2, <4>3
    <3> HIDE DEF Asked
    <3> QED
      BY <2>3, <2>4, <3>1, <3>2, <3>3
  <2> HIDE DEF Asked
  <2> QED
    BY <2>1, <2>4, <2>12, <2>13
<1>16. g[L] = Mend(f[L])
  <2>1. L \in T
    <3> HIDE DEF T
    <3> QED
      BY <1>14, <1>15, SetInduction
  <2> HIDE DEF Asked
  <2> QED
    BY <2>1
<1> QED
  BY <1>3, <1>7, <1>11, <1>12, <1>13, <1>16

\* A call more for a message is a call more that it says.
LEMMA OneMoreCall ==
    ASSUME NEW m \in ChatType, m.role # "tool", NEW call \in Ids, NEW e,
           e = [role |-> m.role, says |-> m.says, calls |-> Append(m.calls, call), answers |-> m.answers]
    PROVE  e \in ChatType /\ Continues(FactsOf(e), FactsOf(m), <<Fact("call", NoId, call)>>)
<1>1. /\ m.role \in {"user", "assistant", "tool", "system"} /\ m.says \in Ids /\ m.answers \in Ids
      /\ m.calls \in Seq(Ids)
  BY DEF ChatType
<1>2. PICK calls, more : calls = m.calls /\ more = Append(calls, call)
  OBVIOUS
<1>3. PICK N \in Nat : N = Len(calls)
  BY <1>1, <1>2, LenProperties
<1>4. /\ more \in Seq(Ids) /\ Len(more) = N + 1 /\ more[N + 1] = call
      /\ \A i \in 1 .. N : more[i] = calls[i]
  BY <1>1, <1>2, <1>3, AppendProperties
<1>5. DOMAIN calls = 1 .. N /\ DOMAIN more = 1 .. N + 1
  BY <1>1, <1>2, <1>3, <1>4, LenProperties
<1>6. e \in ChatType /\ e.role = m.role /\ e.says = m.says /\ e.answers = m.answers /\ e.calls = more
  BY <1>1, <1>2, <1>4 DEF ChatType
<1>7. PICK text : text = (IF m.says = NoId THEN <<>> ELSE <<Fact(m.role, m.says, m.answers)>>)
  OBVIOUS
<1>8. text \in Seq(FactType)
  <2>1. Fact(m.role, m.says, m.answers) \in FactType
    BY <1>1, FactTyped
  <2>2. <<Fact(m.role, m.says, m.answers)>> \in Seq(FactType)
    BY <2>1
  <2> QED
    BY <1>7, <2>2, EmptySeq
<1>9. PICK x : x = Fact("call", NoId, call)
  OBVIOUS
<1>10. x \in FactType /\ <<x>> \in Seq(FactType)
  BY <1>9, NoIdTyped, FactTyped
<1>11. PICK a, b, c : /\ a = [i \in 1 .. N |-> Fact("call", NoId, calls[i])]
                      /\ b = [i \in 1 .. N + 1 |-> Fact("call", NoId, more[i])]
                      /\ c = Append(a, x)
  OBVIOUS
<1>12. a \in Seq(FactType) /\ Len(a) = N /\ b \in Seq(FactType) /\ Len(b) = N + 1
  <2>1. \A i \in 1 .. N : calls[i] \in Ids
    BY <1>1, <1>2, <1>3, ElementOfSeq
  <2>2. \A i \in 1 .. N + 1 : more[i] \in Ids
    BY <1>4, ElementOfSeq
  <2>3. \A y \in Ids : Fact("call", NoId, y) \in FactType
    BY NoIdTyped, FactTyped
  <2>4. a \in [1 .. N -> FactType] /\ b \in [1 .. N + 1 -> FactType]
    BY <1>11, <2>1, <2>2, <2>3
  <2> QED
    BY <2>4, SeqDef, LenProperties
<1>13. c \in Seq(FactType) /\ Len(c) = N + 1 /\ c[N + 1] = x /\ \A i \in 1 .. N : c[i] = a[i]
  BY <1>10, <1>11, <1>12, AppendProperties
<1>14. ASSUME NEW i \in 1 .. N + 1 PROVE b[i] = c[i]
  <2>1. CASE i = N + 1
    BY <1>4, <1>9, <1>11, <1>13, <2>1
  <2>2. CASE i \in 1 .. N
    BY <1>4, <1>11, <1>13, <2>2
  <2> QED
    BY <2>1, <2>2
<1>15. b = c
  BY <1>12, <1>13, <1>14, SeqEqual
<1>16. Continues(b, a, <<x>>)
  <2>1. Append(a, x) = a \o <<x>>
    BY <1>10, <1>12, AppendIsConcat
  <2> QED
    BY <1>11, <1>15, <2>1 DEF Continues
<1>17. PICK u, v : u = FactsOf(m) /\ v = FactsOf(e)
  OBVIOUS
<1>18. Continues(u, text, a)
  BY <1>2, <1>5, <1>7, <1>11, <1>17 DEF FactsOf, Continues
<1>19. Continues(v, text, b)
  BY <1>5, <1>6, <1>7, <1>11, <1>17 DEF FactsOf, Continues
<1>20. Continues(v, u, <<x>>)
  BY <1>8, <1>10, <1>12, <1>16, <1>18, <1>19, ContinuesWithin
<1> QED
  BY <1>6, <1>9, <1>17, <1>20

NoSystem(messages) == \A i \in DOMAIN messages : messages[i].role # "system"

\* One message is said after those before it.
LEMMA SaidOne ==
    ASSUME NEW ms \in Seq(ChatType), NEW m \in ChatType
    PROVE  Append(ms, m) \in Seq(ChatType) /\ Continues(Said(Append(ms, m)), Said(ms), FactsOf(m))
<1>1. <<m>> \in Seq(ChatType) /\ Append(ms, m) = ms \o <<m>>
  BY AppendIsConcat
<1>2. ms \o <<m>> \in Seq(ChatType) /\ Said(ms \o <<m>>) = Said(ms) \o Said(<<m>>)
  BY <1>1, SaidConcat
<1>3. Said(<<m>>) = FactsOf(m)
  <2>1. PICK fs : fs = FactsOf(m)
    OBVIOUS
  <2>2. fs \in Seq(FactType)
    BY <2>1, FactsOfTyped
  <2>3. <<>> \in Seq(Seq(FactType))
    BY EmptySeq
  <2>4. FlattenSeq(Append(<<>>, fs)) = FlattenSeq(<<>>) \o fs
    BY <2>2, <2>3, FlattenAppend
  <2>5. <<>> \o fs = fs
    BY <2>2, ConcatEmptySeq
  <2>6. PICK one, says : one = <<m>> /\ says = [i \in DOMAIN one |-> FactsOf(one[i])]
    OBVIOUS
  <2>7. says = Append(<<>>, fs)
    <3>1. DOMAIN one = 1 .. 1 /\ one[1] = m
      BY <2>6
    <3>2. says = [i \in 1 .. 1 |-> fs]
      <4>1. \A i \in 1 .. 1 : one[i] = m
        BY <3>1
      <4> QED
        BY <2>1, <2>6, <3>1, <4>1
    <3>3. says \in Seq(Seq(FactType)) /\ Len(says) = 1 /\ says[1] = fs
      <4>1. says \in [1 .. 1 -> Seq(FactType)]
        BY <2>2, <3>2
      <4> QED
        BY <3>2, <4>1, SeqDef, LenProperties
    <3>4. PICK z : z = Append(<<>>, fs)
      OBVIOUS
    <3>5. z \in Seq(Seq(FactType)) /\ Len(z) = 1 /\ z[1] = fs
      BY <2>2, <2>3, <3>4, AppendProperties, EmptySeq
    <3>6. says = z
      <4>1. \A i \in 1 .. Len(says) : says[i] = z[i]
        BY <3>3, <3>5
      <4> QED
        BY <3>3, <3>5, <4>1, SeqEqual
    <3> QED
      BY <3>4, <3>6
  <2>8. Said(<<m>>) = FlattenSeq(says)
    BY <2>6 DEF Said
  <2> QED
    BY <2>1, <2>4, <2>5, <2>7, <2>8, FlattenEmpty
<1> QED
  BY <1>1, <1>2, <1>3 DEF Continues

LEMMA OtherCalls ==
    ASSUME NEW R, NEW Q, NEW Z, NEW m \in [role : R, says : Q, calls : Z, answers : Q], NEW calls
    PROVE  [m EXCEPT !.calls = calls] = [role |-> m.role, says |-> m.says, calls |-> calls, answers |-> m.answers]
OBVIOUS

\* The messages when the last one gets a call more.
CallAdded(ms, n, call) == [ms EXCEPT ![n].calls = Append(@, call)]

LEMMA LastSaysMore ==
    ASSUME NEW ms \in Seq(ChatType), NEW n \in Nat, n = Len(ms), n # 0, NEW call \in Ids,
           ms[n].role # "tool", NoSystem(ms), NEW d, d = CallAdded(ms, n, call)
    PROVE  /\ d \in Seq(ChatType) /\ NoSystem(d)
           /\ Continues(Said(d), Said(ms), <<Fact("call", NoId, call)>>)
<1>1. n \in 1 .. n /\ DOMAIN ms = 1 .. n /\ \A i \in 1 .. n : ms[i] \in ChatType
  BY LenProperties, ElementOfSeq
<1>2. PICK m \in ChatType : m = ms[n]
  BY <1>1
<1>3. PICK calls : calls = Append(m.calls, call)
  OBVIOUS
<1>4. PICK e : e = [role |-> m.role, says |-> m.says, calls |-> calls, answers |-> m.answers]
  OBVIOUS
<1>5. PICK x : x = Fact("call", NoId, call)
  OBVIOUS
<1>6. e \in ChatType /\ Continues(FactsOf(e), FactsOf(m), <<x>>)
  <2>1. m.role # "tool"
    BY <1>2
  <2> QED
    BY <1>3, <1>4, <1>5, <2>1, OneMoreCall
<1>7. d = [i \in 1 .. n |-> IF i = n THEN e ELSE ms[i]]
  <2>0. [m EXCEPT !.calls = calls]
          = [role |-> m.role, says |-> m.says, calls |-> calls, answers |-> m.answers]
    BY OtherCalls DEF ChatType
  <2>1. [m EXCEPT !.calls = calls] = e
    BY <1>4, <2>0
  <2>2. [m EXCEPT !.calls = Append(@, call)] = e
    BY <1>3, <2>1
  <2>3. d = [ms EXCEPT ![n] = [ms[n] EXCEPT !.calls = Append(@, call)]]
    BY DEF CallAdded
  <2> QED
    BY <1>1, <1>2, <2>2, <2>3
<1>8. d \in Seq(ChatType) /\ Len(d) = n /\ DOMAIN d = 1 .. n
  <2>1. d \in [1 .. n -> ChatType]
    BY <1>1, <1>6, <1>7
  <2> QED
    BY <2>1, SeqDef, LenProperties
<1>9. NoSystem(d)
  <2>1. e.role = m.role /\ m.role # "system"
    BY <1>1, <1>2, <1>4 DEF NoSystem
  <2> QED
    BY <1>1, <1>7, <1>8, <2>1 DEF NoSystem
<1>10. PICK p, q : p = [i \in 1 .. n |-> FactsOf(ms[i])] /\ q = [i \in 1 .. n |-> FactsOf(d[i])]
  OBVIOUS
<1>11. p \in Seq(Seq(FactType)) /\ Len(p) = n /\ q \in Seq(Seq(FactType)) /\ Len(q) = n
  <2>1. \A i \in 1 .. n : d[i] \in ChatType
    BY <1>8, ElementOfSeq
  <2>2. \A i \in 1 .. n : FactsOf(ms[i]) \in Seq(FactType) /\ FactsOf(d[i]) \in Seq(FactType)
    BY <1>1, <2>1, FactsOfTyped
  <2>3. PICK D : D = Seq(FactType)
    OBVIOUS
  <2>4. p \in [1 .. n -> D] /\ q \in [1 .. n -> D]
    BY <1>10, <2>2, <2>3
  <2>5. p \in Seq(D) /\ Len(p) = n /\ q \in Seq(D) /\ Len(q) = n
    BY <2>4, SeqDef, LenProperties
  <2> QED
    BY <2>3, <2>5
<1>12. \A i \in 1 .. n - 1 : q[i] = p[i]
  <2>1. \A i \in 1 .. n - 1 : i \in 1 .. n /\ i # n
    OBVIOUS
  <2> QED
    BY <1>7, <1>10, <2>1
<1>13. Continues(q[n], p[n], <<x>>)
  <2>1. p[n] = FactsOf(m) /\ q[n] = FactsOf(e)
    BY <1>1, <1>2, <1>7, <1>10
  <2> QED
    BY <1>6, <2>1
<1>14. <<x>> \in Seq(FactType)
  <2>1. x \in FactType
    BY <1>5, NoIdTyped, FactTyped
  <2> QED
    BY <2>1
<1>15. Continues(FlattenSeq(q), FlattenSeq(p), <<x>>)
  BY <1>11, <1>12, <1>13, <1>14, FlattenLastGrows
<1>16. Said(ms) = FlattenSeq(p) /\ Said(d) = FlattenSeq(q)
  BY <1>1, <1>8, <1>10 DEF Said
<1> QED
  BY <1>5, <1>8, <1>9, <1>15, <1>16

LEMMA OneElement ==
    ASSUME NEW S, NEW x \in S, NEW s, s = [i \in 1 .. 1 |-> x]
    PROVE  s = <<x>>
<1>1. PICK n \in Nat : n = 1
  OBVIOUS
<1>2. s \in [1 .. n -> S]
  BY <1>1
<1>3. s \in Seq(S)
  BY <1>2, SeqDef
<1>4. Len(s) = n
  BY <1>2, <1>3, LenProperties
<1>5. <<x>> \in Seq(S) /\ Len(<<x>>) = 1 /\ \A i \in 1 .. 1 : <<x>>[i] = x
  OBVIOUS
<1>6. \A i \in 1 .. 1 : s[i] = x
  OBVIOUS
<1>7. \A i \in 1 .. Len(s) : s[i] = <<x>>[i]
  BY <1>1, <1>4, <1>5, <1>6
<1> QED
  BY <1>1, <1>3, <1>4, <1>5, <1>7, SeqEqual

LEMMA OneCall ==
    ASSUME NEW call \in Ids
    PROVE  [i \in DOMAIN <<call>> |-> Fact("call", NoId, <<call>>[i])] = <<Fact("call", NoId, call)>>
<1>1. PICK f : f = Fact("call", NoId, call)
  OBVIOUS
<1>2. PICK called : called = [i \in DOMAIN <<call>> |-> Fact("call", NoId, <<call>>[i])]
  OBVIOUS
<1>3. DOMAIN <<call>> = 1 .. 1 /\ \A i \in 1 .. 1 : <<call>>[i] = call
  OBVIOUS
<1>4. called = [i \in 1 .. 1 |-> f]
  BY <1>1, <1>2, <1>3
<1>5. f \in FactType
  BY <1>1, NoIdTyped, FactTyped
<1>6. called = <<f>>
  BY <1>4, <1>5, OneElement
<1> QED
  BY <1>1, <1>2, <1>6

LEMMA MessageTyped ==
    ASSUME NEW role \in {"user", "assistant", "tool"}, NEW says \in Ids, NEW answers \in Ids
    PROVE  /\ ChatMessage(role, says, <<>>, answers) \in ChatType
           /\ ChatMessage(role, says, <<>>, answers).role = role
           /\ says # NoId => FactsOf(ChatMessage(role, says, <<>>, answers)) = <<Fact(role, says, answers)>>
<1>1. PICK m : m = ChatMessage(role, says, <<>>, answers)
  OBVIOUS
<1>2. m = [role |-> role, says |-> says, calls |-> <<>>, answers |-> answers] /\ <<>> \in Seq(Ids)
  BY <1>1, EmptySeq DEF ChatMessage
<1>3. m \in ChatType
  BY <1>2 DEF ChatType
<1>4. m.role = role /\ m.says = says /\ m.calls = <<>> /\ m.answers = answers
  BY <1>2
<1>5. m.says # NoId => FactsOf(m) = <<Fact(m.role, m.says, m.answers)>>
  BY <1>3, <1>4, FactsOfTyped
<1> QED
  BY <1>1, <1>3, <1>4, <1>5

LEMMA CallMessageTyped ==
    ASSUME NEW call \in Ids
    PROVE  /\ ChatMessage("assistant", NoId, <<call>>, NoId) \in ChatType
           /\ ChatMessage("assistant", NoId, <<call>>, NoId).role = "assistant"
           /\ FactsOf(ChatMessage("assistant", NoId, <<call>>, NoId)) = <<Fact("call", NoId, call)>>
<1>1. PICK m : m = ChatMessage("assistant", NoId, <<call>>, NoId)
  OBVIOUS
<1>2. m = [role |-> "assistant", says |-> NoId, calls |-> <<call>>, answers |-> NoId] /\ <<call>> \in Seq(Ids)
  BY <1>1 DEF ChatMessage
<1>3. m \in ChatType /\ m.role = "assistant"
  BY <1>2, NoIdTyped DEF ChatType
<1>4. m.says = NoId /\ m.calls = <<call>>
  BY <1>2
<1>5. PICK called : called = [i \in DOMAIN <<call>> |-> Fact("call", NoId, <<call>>[i])]
  OBVIOUS
<1>6. called = <<Fact("call", NoId, call)>> /\ called \in Seq(FactType)
  <2>1. Fact("call", NoId, call) \in FactType
    BY NoIdTyped, FactTyped
  <2>2. called = <<Fact("call", NoId, call)>>
    BY <1>5, OneCall
  <2> QED
    BY <2>1, <2>2
<1>7. FactsOf(m) = <<>> \o called
  BY <1>4, <1>5 DEF FactsOf
<1>8. <<>> \o called = called
  BY <1>6, ConcatEmptySeq
<1> QED
  BY <1>1, <1>3, <1>6, <1>7, <1>8

\* The message of an item alone says what the item says.
LEMMA ItemMessage ==
    ASSUME NEW x \in ItemType, NEW m,
           m = CASE x.type = "function_call" -> ChatMessage("assistant", NoId, <<x.call>>, NoId)
                 [] x.type = "function_call_output" -> ChatMessage("tool", x.id, <<>>, x.call)
                 [] OTHER -> ChatMessage(x.role, x.id, <<>>, NoId)
    PROVE  m \in ChatType /\ m.role # "system" /\ FactsOf(m) = <<Raw(x)>>
<1>1. /\ x.type \in {"message", "function_call", "function_call_output"} /\ x.id \in Ids /\ x.call \in Ids
      /\ x.id # NoId /\ (x.type = "message" => x.role \in {"user", "assistant"})
  BY DEF ItemType
<1>3. CASE x.type = "message"
  <2>1. m = ChatMessage(x.role, x.id, <<>>, NoId) /\ Raw(x) = Fact(x.role, x.id, NoId)
    BY <1>3 DEF Raw
  <2>2. x.role \in {"user", "assistant", "tool"} /\ x.role # "system"
    BY <1>1, <1>3
  <2> QED
    BY <1>1, <2>1, <2>2, NoIdTyped, MessageTyped
<1>4. CASE x.type = "function_call_output"
  <2>1. m = ChatMessage("tool", x.id, <<>>, x.call) /\ Raw(x) = Fact("tool", x.id, x.call)
    BY <1>4 DEF Raw
  <2> QED
    BY <1>1, <2>1, MessageTyped
<1>5. CASE x.type = "function_call"
  <2>1. m = ChatMessage("assistant", NoId, <<x.call>>, NoId) /\ Raw(x) = Fact("call", NoId, x.call)
    BY <1>5 DEF Raw
  <2> QED
    BY <1>1, <2>1, CallMessageTyped
<1> QED
  BY <1>1, <1>3, <1>4, <1>5

\* An item more is said after the others, in whatever message it gets.
LEMMA AppendSays ==
    ASSUME NEW ms \in Seq(ChatType), NoSystem(ms), NEW x \in ItemType, NEW d, d = AppendItem(ms, x)
    PROVE  /\ d \in Seq(ChatType) /\ NoSystem(d)
           /\ Continues(Said(d), Said(ms), <<Raw(x)>>)
<1>1. x.type \in {"message", "function_call", "function_call_output"} /\ x.call \in Ids
  BY DEF ItemType
<1>2. PICK n \in Nat : n = Len(ms)
  BY LenProperties
<1>3. PICK m : m = CASE x.type = "function_call" -> ChatMessage("assistant", NoId, <<x.call>>, NoId)
                     [] x.type = "function_call_output" -> ChatMessage("tool", x.id, <<>>, x.call)
                     [] OTHER -> ChatMessage(x.role, x.id, <<>>, NoId)
  OBVIOUS
<1>4. m \in ChatType /\ m.role # "system" /\ FactsOf(m) = <<Raw(x)>>
  BY <1>3, ItemMessage
<1>5. ASSUME d = Append(ms, m)
      PROVE  d \in Seq(ChatType) /\ NoSystem(d) /\ Continues(Said(d), Said(ms), <<Raw(x)>>)
  <2>1. d \in Seq(ChatType) /\ Continues(Said(d), Said(ms), <<Raw(x)>>)
    BY <1>4, <1>5, SaidOne
  <2>2. /\ DOMAIN d = 1 .. n + 1 /\ d[n + 1] = m /\ DOMAIN ms = 1 .. n
        /\ \A i \in 1 .. n : d[i] = ms[i]
    BY <1>2, <1>4, <1>5, AppendProperties, LenProperties
  <2>3. \A i \in 1 .. n + 1 : i \in 1 .. n \/ i = n + 1
    OBVIOUS
  <2> QED
    BY <1>4, <2>1, <2>2, <2>3 DEF NoSystem
<1>6. CASE x.type # "function_call"
  <2>1. d = Append(ms, m)
    BY <1>1, <1>3, <1>6 DEF AppendItem
  <2> QED
    BY <1>5, <2>1
<1>7. CASE x.type = "function_call" /\ ~ (ms # <<>> /\ IsCallingTurn(Last(ms)))
  <2>1. d = Append(ms, m)
    BY <1>3, <1>7 DEF AppendItem
  <2> QED
    BY <1>5, <2>1
<1>8. CASE x.type = "function_call" /\ ms # <<>> /\ IsCallingTurn(Last(ms))
  <2>1. d = CallAdded(ms, n, x.call) /\ Raw(x) = Fact("call", NoId, x.call)
    BY <1>2, <1>8 DEF AppendItem, CallAdded, Raw
  <2>2. n # 0 /\ ms[n].role # "tool"
    BY <1>2, <1>8, EmptySeq DEF IsCallingTurn, Last
  <2> QED
    BY <1>1, <1>2, <2>1, <2>2, LastSaysMore
<1> QED
  BY <1>6, <1>7, <1>8

\* f is the recursive function of Appended.
AppendsTo(list, f, N) ==
    f = [n \in 0 .. N |-> IF n = 0 THEN <<>> ELSE AppendItem(f[n - 1], list[n])]

PlainTurns == {ms \in Seq(ChatType) : NoSystem(ms)}

LEMMA AppendedDefined ==
    ASSUME NEW list \in Seq(ItemType), NEW N \in Nat, N = Len(list)
    PROVE  AppendsTo(list, Appended(list), N)
<1>1. \A i \in 1 .. N : list[i] \in ItemType
  BY ElementOfSeq
<1>2. <<>> \in PlainTurns
  BY EmptySeq DEF PlainTurns, NoSystem
<1>3. \A i \in 1 .. N, ms \in PlainTurns : AppendItem(ms, list[i]) \in PlainTurns
  <2> TAKE i \in 1 .. N, ms \in PlainTurns
  <2>1. ms \in Seq(ChatType) /\ NoSystem(ms) /\ list[i] \in ItemType
    BY <1>1 DEF PlainTurns
  <2>2. PICK x, d : x = list[i] /\ d = AppendItem(ms, x)
    OBVIOUS
  <2>3. d \in Seq(ChatType) /\ NoSystem(d)
    BY <2>1, <2>2, AppendSays
  <2> QED
    BY <2>2, <2>3 DEF PlainTurns
<1>4. PICK g : g = [i \in 1 .. N |-> [ms \in PlainTurns |-> AppendItem(ms, list[i])]]
  OBVIOUS
<1>5. g \in [1 .. N -> [PlainTurns -> PlainTurns]]
  BY <1>3, <1>4
<1>6. PICK f \in [0 .. N -> PlainTurns] : Steps(f, <<>>, g, N)
  BY <1>2, <1>5, StepByStep
<1>7. ASSUME NEW i \in 1 .. N PROVE f[i] = AppendItem(f[i - 1], list[i])
  <2>1. i - 1 \in 0 .. N
    OBVIOUS
  <2>2. f[i - 1] \in PlainTurns
    BY <2>1
  <2> QED
    BY <1>4, <1>6, <2>2 DEF Steps
<1>8. AppendsTo(list, f, N)
  <2>1. f = [n \in 0 .. N |-> f[n]]
    OBVIOUS
  <2>2. \A n \in 0 .. N : f[n] = IF n = 0 THEN <<>> ELSE AppendItem(f[n - 1], list[n])
    BY <1>6, <1>7 DEF Steps
  <2> QED
    BY <2>1, <2>2 DEF AppendsTo
<1>9. Appended(list) = CHOOSE h : AppendsTo(list, h, N)
  BY DEF Appended, AppendsTo
<1> QED
  BY <1>8, <1>9

\* The raw facts of the first n items.
RawUpTo(list, n) == [i \in 1 .. n |-> Raw(list[i])]

LEMMA RawMore ==
    ASSUME NEW list \in Seq(ItemType), NEW n \in Nat, NEW k \in 1 .. Len(list), k = n + 1
    PROVE  /\ RawUpTo(list, n) \in Seq(FactType)
           /\ Continues(RawUpTo(list, k), RawUpTo(list, n), <<Raw(list[k])>>)
<1>1. PICK N \in Nat : N = Len(list)
  BY LenProperties
<1>2. \A i \in 1 .. N : list[i] \in ItemType
  BY <1>1, ElementOfSeq
<1>3. \A i \in 1 .. k : i \in 1 .. N
  BY <1>1
<1>4. \A i \in 1 .. k : Raw(list[i]) \in FactType
  BY <1>2, <1>3, RawTyped
<1>5. PICK a, b, x : a = RawUpTo(list, n) /\ b = RawUpTo(list, k) /\ x = Raw(list[k])
  OBVIOUS
<1>6. a = [i \in 1 .. n |-> Raw(list[i])] /\ b = [i \in 1 .. k |-> Raw(list[i])] /\ k \in Nat
  BY <1>5 DEF RawUpTo
<1>7. k \in 1 .. k /\ \A i \in 1 .. n : i \in 1 .. k
  OBVIOUS
<1>8. a \in [1 .. n -> FactType] /\ b \in [1 .. k -> FactType] /\ x \in FactType
  BY <1>4, <1>5, <1>6, <1>7
<1>9. a \in Seq(FactType) /\ Len(a) = n /\ b \in Seq(FactType) /\ Len(b) = k
  BY <1>6, <1>8, SeqDef, LenProperties
<1>10. PICK c : c = Append(a, x)
  OBVIOUS
<1>11. c \in Seq(FactType) /\ Len(c) = k /\ c[k] = x /\ \A i \in 1 .. n : c[i] = a[i]
  BY <1>8, <1>9, <1>10, AppendProperties
<1>12. ASSUME NEW i \in 1 .. k PROVE b[i] = c[i]
  <2>1. CASE i = k
    BY <1>5, <1>6, <1>11, <2>1
  <2>2. CASE i \in 1 .. n
    BY <1>6, <1>11, <2>2
  <2> QED
    BY <2>1, <2>2
<1>13. b = c
  BY <1>9, <1>11, <1>12, SeqEqual
<1>14. c = a \o <<x>>
  BY <1>8, <1>9, <1>10, AppendIsConcat
<1> QED
  BY <1>5, <1>9, <1>13, <1>14 DEF Continues

\* The messages of items say what the items say.
LEMMA InputSays ==
    ASSUME NEW list \in Seq(ItemType), NEW ms, ms = Appended(list)[Len(list)]
    PROVE  /\ ms \in Seq(ChatType) /\ NoSystem(ms)
           /\ Said(ms) = RawFacts(list)
<1>1. PICK N \in Nat : N = Len(list)
  BY LenProperties
<1>2. PICK f : f = Appended(list)
  OBVIOUS
<1>3. \A n \in 0 .. N : f[n] = IF n = 0 THEN <<>> ELSE AppendItem(f[n - 1], list[n])
  <2>1. AppendsTo(list, f, N)
    BY <1>1, <1>2, AppendedDefined
  <2> QED
    BY <2>1 DEF AppendsTo
<1>4. \A i \in 1 .. N : list[i] \in ItemType
  BY <1>1, ElementOfSeq
<1> DEFINE Right(n) == f[n] \in Seq(ChatType) /\ NoSystem(f[n]) /\ Said(f[n]) = RawUpTo(list, n)
           T == {n \in Nat : n <= N => Right(n)}
<1>5. 0 \in T
  <2>1. f[0] = <<>>
    BY <1>3
  <2>2. <<>> \in Seq(ChatType) /\ NoSystem(<<>>)
    BY EmptySeq DEF NoSystem
  <2>3. Said(<<>>) = <<>>
    <3>1. [i \in DOMAIN <<>> |-> FactsOf(<<>>[i])] = <<>>
      OBVIOUS
    <3> QED
      BY <3>1, FlattenEmpty DEF Said
  <2>4. RawUpTo(list, 0) = <<>>
    <3>1. 1 .. 0 = {}
      OBVIOUS
    <3> QED
      BY <3>1 DEF RawUpTo
  <2> QED
    BY <2>1, <2>2, <2>3, <2>4
<1>6. ASSUME NEW n \in Nat, n \in T PROVE n + 1 \in T
  <2> SUFFICES ASSUME n + 1 <= N PROVE Right(n + 1)
    OBVIOUS
  <2>1. PICK k \in Nat : k = n + 1
    OBVIOUS
  <2>2. k \in 1 .. N /\ k - 1 = n /\ n <= N /\ k \in 0 .. N /\ k # 0
    BY <2>1
  <2>3. Right(n)
    BY <1>6, <2>2
  <2>4. PICK before, after, x : before = f[n] /\ after = f[k] /\ x = list[k]
    OBVIOUS
  <2>5. after = AppendItem(before, x) /\ x \in ItemType /\ before \in Seq(ChatType) /\ NoSystem(before)
    BY <1>3, <1>4, <2>2, <2>3, <2>4
  <2>6. after \in Seq(ChatType) /\ NoSystem(after) /\ Continues(Said(after), Said(before), <<Raw(x)>>)
    BY <2>5, AppendSays
  <2>7. Continues(RawUpTo(list, k), RawUpTo(list, n), <<Raw(x)>>)
    <3>1. k \in 1 .. Len(list)
      BY <1>1, <2>2
    <3>2. Continues(RawUpTo(list, k), RawUpTo(list, n), <<Raw(list[k])>>)
      BY <2>1, <3>1, RawMore
    <3> QED
      BY <2>4, <3>2
  <2>8. Said(after) = RawUpTo(list, k)
    BY <2>3, <2>4, <2>6, <2>7 DEF Continues
  <2> QED
    BY <2>1, <2>4, <2>6, <2>8
<1>7. Right(N)
  <2>1. N \in T
    <3> HIDE DEF T
    <3> QED
      BY <1>5, <1>6, SetInduction
  <2> QED
    BY <2>1
<1>8. RawUpTo(list, N) = RawFacts(list)
  <2>1. DOMAIN list = 1 .. N
    BY <1>1, LenProperties
  <2> QED
    BY <2>1 DEF RawUpTo, RawFacts
<1> QED
  BY <1>1, <1>2, <1>7, <1>8

\* What a client may put in: items, or names of items.
IsInput(input) ==
    /\ Len(input) \in Nat /\ DOMAIN input = 1 .. Len(input)
    /\ \A i \in DOMAIN input : input[i].type # "item_reference" => input[i] \in ItemType

\* References that are resolved are items.
LEMMA ResolvedTyped ==
    ASSUME NEW input, IsInput(input), NEW known \in SUBSET ItemType
    PROVE  Resolved(input, known) \in Seq(ItemType)
<1> DEFINE named(item) == {k \in known : k.id = item.id}
           Found(item) ==
               IF item.type # "item_reference" THEN <<item>>
               ELSE IF named(item) = {} THEN <<>> ELSE <<CHOOSE k \in named(item) : TRUE>>
<1>1. PICK N \in Nat : N = Len(input) /\ DOMAIN input = 1 .. N
  BY DEF IsInput
<1>2. PICK D : D = Seq(ItemType)
  OBVIOUS
<1>3. ASSUME NEW i \in 1 .. N PROVE Found(input[i]) \in D
  <2>1. PICK x : x = input[i]
    OBVIOUS
  <2>2. CASE x.type # "item_reference"
    <3>1. x \in ItemType
      BY <1>1, <2>1, <2>2 DEF IsInput
    <3>2. <<x>> \in Seq(ItemType)
      BY <3>1
    <3> QED
      BY <1>2, <2>1, <2>2, <3>2
  <2>3. CASE x.type = "item_reference" /\ named(x) = {}
    <3>1. <<>> \in D
      BY <1>2, EmptySeq
    <3> QED
      BY <2>1, <2>3, <3>1
  <2>4. CASE x.type = "item_reference" /\ named(x) # {}
    <3>1. PICK y : y = CHOOSE k \in named(x) : TRUE
      OBVIOUS
    <3>2. y \in named(x)
      BY <2>4, <3>1
    <3>3. y \in ItemType
      BY <3>2
    <3>4. <<y>> \in Seq(ItemType)
      BY <3>3
    <3> QED
      BY <1>2, <2>1, <2>4, <3>1, <3>4
  <2> QED
    BY <2>2, <2>3, <2>4
<1>4. PICK seqs : seqs = [i \in 1 .. N |-> Found(input[i])]
  OBVIOUS
<1>5. seqs \in Seq(D)
  <2>1. seqs \in [1 .. N -> D]
    BY <1>3, <1>4
  <2> QED
    BY <2>1, SeqDef
<1>6. FlattenSeq(seqs) \in Seq(ItemType)
  <2>1. seqs \in Seq(Seq(ItemType))
    BY <1>2, <1>5
  <2> QED
    BY <2>1, FlattenConcat
<1> QED
  BY <1>1, <1>4, <1>6 DEF Resolved

\* Short sequences.
LEMMA TwoElements ==
    ASSUME NEW S, NEW a \in S, NEW b \in S
    PROVE  Append(<<a>>, b) = <<a, b>> /\ <<a>> \o <<b>> = <<a, b>>
<1>1. <<a>> \in Seq(S) /\ Len(<<a>>) = 1 /\ <<a>>[1] = a
  OBVIOUS
<1>2. PICK s, t : s = Append(<<a>>, b) /\ t = <<a, b>>
  OBVIOUS
<1>3. s \in Seq(S) /\ Len(s) = 2 /\ s[1] = a /\ s[2] = b
  BY <1>1, <1>2, AppendProperties
<1>4. t \in Seq(S) /\ Len(t) = 2 /\ t[1] = a /\ t[2] = b
  BY <1>2
<1>5. \A i \in 1 .. Len(s) : s[i] = t[i]
  <2>1. \A i \in 1 .. 2 : i = 1 \/ i = 2
    OBVIOUS
  <2> QED
    BY <1>3, <1>4, <2>1
<1>6. s = t
  BY <1>3, <1>4, <1>5, SeqEqual
<1>7. Append(<<a>>, b) = <<a>> \o <<b>>
  BY <1>1, AppendIsConcat
<1> QED
  BY <1>2, <1>6, <1>7

\* What a filter makes of them.
LEMMA OnlyOfOne ==
    ASSUME NEW T, NEW a \in T, NEW S
    PROVE  Only(<<a>>, S) = IF a \in S THEN <<a>> ELSE <<>>
<1>1. PICK s, f : s = <<a>> /\ f = Kept(s, S)
  OBVIOUS
<1>2. Len(s) = 1 /\ s[1] = a
  BY <1>1
<1>3. Keeps(s, S, f, 1)
  <2>0. Len(s) \in Nat
    BY <1>2
  <2>1. Keeps(s, S, Kept(s, S), Len(s))
    BY <2>0, KeptDefined
  <2> QED
    BY <1>1, <1>2, <2>1
<1>4. f[0] = <<>> /\ f[1] = IF a \in S THEN Append(f[0], a) ELSE f[0]
  <2>1. \A i \in 0 .. 1 : f[i] = IF i = 0 THEN <<>> ELSE IF s[i] \in S THEN Append(f[i - 1], s[i]) ELSE f[i - 1]
    BY <1>3 DEF Keeps
  <2>2. f[0] = <<>>
    BY <2>1
  <2>3. f[1] = IF s[1] \in S THEN Append(f[0], s[1]) ELSE f[0]
    <3>1. 1 \in 0 .. 1 /\ 1 # 0 /\ 1 - 1 = 0
      OBVIOUS
    <3> QED
      BY <2>1, <3>1
  <2> QED
    BY <1>2, <2>2, <2>3
<1>5. Append(<<>>, a) = <<a>>
  OBVIOUS
<1> QED
  BY <1>1, <1>2, <1>4, <1>5 DEF Only

LEMMA OnlyOfTwo ==
    ASSUME NEW T, NEW a \in T, NEW b \in T, NEW S
    PROVE  Only(<<a, b>>, S) = IF a \in S THEN IF b \in S THEN <<a, b>> ELSE <<a>>
                               ELSE IF b \in S THEN <<b>> ELSE <<>>
<1>1. PICK s, f : s = <<a, b>> /\ f = Kept(s, S)
  OBVIOUS
<1>2. Len(s) = 2 /\ s[1] = a /\ s[2] = b
  BY <1>1
<1>3. Keeps(s, S, f, 2)
  <2>0. Len(s) \in Nat
    BY <1>2
  <2>1. Keeps(s, S, Kept(s, S), Len(s))
    BY <2>0, KeptDefined
  <2> QED
    BY <1>1, <1>2, <2>1
<1>4. /\ f[0] = <<>> /\ f[1] = IF a \in S THEN Append(f[0], a) ELSE f[0]
      /\ f[2] = IF b \in S THEN Append(f[1], b) ELSE f[1]
  <2>1. \A i \in 0 .. 2 : f[i] = IF i = 0 THEN <<>> ELSE IF s[i] \in S THEN Append(f[i - 1], s[i]) ELSE f[i - 1]
    BY <1>3 DEF Keeps
  <2>2. f[0] = <<>>
    BY <2>1
  <2>3. f[1] = IF s[1] \in S THEN Append(f[0], s[1]) ELSE f[0]
    <3>1. 1 \in 0 .. 2 /\ 1 # 0 /\ 1 - 1 = 0
      OBVIOUS
    <3> QED
      BY <2>1, <3>1
  <2>4. f[2] = IF s[2] \in S THEN Append(f[1], s[2]) ELSE f[1]
    <3>1. 2 \in 0 .. 2 /\ 2 # 0 /\ 2 - 1 = 1
      OBVIOUS
    <3> QED
      BY <2>1, <3>1
  <2> QED
    BY <1>2, <2>2, <2>3, <2>4
<1>5. Append(<<>>, a) = <<a>> /\ Append(<<>>, b) = <<b>> /\ Append(<<a>>, b) = <<a, b>>
  <2>1. Append(<<a>>, b) = <<a, b>>
    BY TwoElements
  <2>2. Append(<<>>, a) = <<a>> /\ Append(<<>>, b) = <<b>>
    OBVIOUS
  <2> QED
    BY <2>1, <2>2
<1>6. Only(s, S) = f[2]
  BY <1>1, <1>2 DEF Only
<1>7. CASE a \in S
  <2>1. f[1] = <<a>>
    BY <1>4, <1>5, <1>7
  <2> QED
    BY <1>1, <1>4, <1>5, <1>6, <1>7, <2>1
<1>8. CASE a \notin S
  <2>1. f[1] = <<>>
    BY <1>4, <1>8
  <2> QED
    BY <1>1, <1>4, <1>5, <1>6, <1>8, <2>1
<1> QED
  BY <1>7, <1>8

\* The turn of an answer that is texts a, one at most, then calls b.
AnswerOf(out, a, b) ==
    /\ a \in Seq(ItemType) /\ b \in Seq(ItemType) /\ out = a \o b
    /\ TextOf(out) = a /\ CallsOf(out) = b
    /\ a = <<>> \/ \E t \in ItemType : a = <<t>> /\ t.type = "message" /\ t.role = "assistant"
    /\ \A i \in DOMAIN b : b[i].type = "function_call"

LEMMA TurnOfParts ==
    ASSUME NEW out, NEW a, NEW b, AnswerOf(out, a, b), NEW m, m = AssistantTurn(out)
    PROVE  /\ m \in ChatType /\ m.role # "system" /\ out \in Seq(ItemType)
           /\ FactsOf(m) = RawFacts(out)
<1>1. a \in Seq(ItemType) /\ b \in Seq(ItemType) /\ out = a \o b
  BY DEF AnswerOf
<1>2. PICK N \in Nat : N = Len(b)
  BY <1>1, LenProperties
<1>3. DOMAIN b = 1 .. N /\ \A i \in 1 .. N : b[i] \in ItemType /\ b[i].type = "function_call"
  <2>1. DOMAIN b = 1 .. N /\ \A i \in 1 .. N : b[i] \in ItemType
    BY <1>1, <1>2, LenProperties, ElementOfSeq
  <2> QED
    BY <2>1 DEF AnswerOf
<1>4. PICK calls, says : /\ calls = [i \in 1 .. N |-> b[i].call]
                         /\ says = (IF a = <<>> THEN NoId ELSE a[1].id)
  OBVIOUS
<1>5. calls \in Seq(Ids)
  <2>1. \A i \in 1 .. N : b[i].call \in Ids
    BY <1>3 DEF ItemType
  <2>2. calls \in [1 .. N -> Ids]
    BY <1>4, <2>1
  <2> QED
    BY <2>2, SeqDef
<1>6. m = [role |-> "assistant", says |-> says, calls |-> calls, answers |-> NoId]
  BY <1>3, <1>4 DEF AnswerOf, AssistantTurn, ChatMessage
<1>7. /\ says \in Ids
      /\ RawFacts(a) = IF says = NoId THEN <<>> ELSE <<Fact("assistant", says, NoId)>>
  <2>1. CASE a = <<>>
    <3>1. RawFacts(a) = <<>>
      BY <2>1 DEF RawFacts
    <3> QED
      BY <1>4, <2>1, <3>1, NoIdTyped
  <2>2. CASE a # <<>>
    <3>1. PICK t \in ItemType : a = <<t>> /\ t.type = "message" /\ t.role = "assistant"
      BY <2>2 DEF AnswerOf
    <3>2. DOMAIN a = 1 .. 1 /\ \A i \in 1 .. 1 : a[i] = t
      BY <3>1
    <3>3. says = t.id /\ t.id \in Ids /\ t.id # NoId
      <4>1. a[1] = t
        BY <3>2
      <4> QED
        BY <1>4, <2>2, <4>1 DEF ItemType
    <3>4. PICK x, raw : x = Raw(t) /\ raw = RawFacts(a)
      OBVIOUS
    <3>5. raw = [i \in 1 .. 1 |-> x]
      BY <3>2, <3>4 DEF RawFacts
    <3>6. raw = <<x>>
      <4>1. x \in FactType
        BY <3>4, RawTyped
      <4> QED
        BY <3>5, <4>1, OneElement
    <3>7. x = Fact("assistant", says, NoId)
      BY <3>1, <3>3, <3>4 DEF Raw
    <3> QED
      BY <3>3, <3>4, <3>6, <3>7
  <2> QED
    BY <2>1, <2>2
<1>8. m \in ChatType /\ m.role # "system"
  BY <1>5, <1>6, <1>7, NoIdTyped DEF ChatType
<1>9. [i \in DOMAIN calls |-> Fact("call", NoId, calls[i])] = RawFacts(b)
  <2>1. DOMAIN calls = 1 .. N
    BY <1>4
  <2>2. \A i \in 1 .. N : Fact("call", NoId, calls[i]) = Raw(b[i])
    BY <1>3, <1>4 DEF Raw
  <2> QED
    BY <1>3, <2>1, <2>2 DEF RawFacts
<1>10. FactsOf(m) = RawFacts(a) \o RawFacts(b)
  <2>1. m.role = "assistant" /\ m.says = says /\ m.calls = calls /\ m.answers = NoId
    BY <1>6
  <2> QED
    BY <1>7, <1>9, <2>1 DEF FactsOf
<1>11. a \o b \in Seq(ItemType) /\ RawFacts(a \o b) = RawFacts(a) \o RawFacts(b)
  BY <1>1, RawConcat
<1> QED
  BY <1>1, <1>8, <1>10, <1>11

\* Every answer has these parts.
LEMMA RepliesHaveParts ==
    ASSUME NEW r \in Response, NEW out \in Replies(r)
    PROVE  \E a, b : AnswerOf(out, a, b)
<1>1. PICK t, c, d, e : /\ t = TextItem(<<"out", r, 1>>)
                        /\ c = Call(<<"out", r, 2>>, <<"call", r, 2>>)
                        /\ d = Call(<<"out", r, 3>>, <<"call", r, 3>>)
                        /\ e = Call(<<"out", r, 2>>, <<"call", 0, 0>>)
  OBVIOUS
<1>2. out \in {<<t>>, <<t, c>>, <<c, d>>, <<e>>}
  BY <1>1 DEF Replies
<1>3. /\ <<"out", r, 1>> \in Ids /\ <<"out", r, 2>> \in Ids /\ <<"out", r, 3>> \in Ids
      /\ <<"call", r, 2>> \in Ids /\ <<"call", r, 3>> \in Ids /\ <<"call", 0, 0>> \in Ids
      /\ <<"out", r, 1>> # NoId /\ <<"out", r, 2>> # NoId /\ <<"out", r, 3>> # NoId
  BY DEF Ids, NoId
<1>4. /\ t \in ItemType /\ t.type = "message" /\ t.role = "assistant"
      /\ \A x \in {c, d, e} : x \in ItemType /\ x.type = "function_call"
  BY <1>1, <1>3, NoIdTyped DEF TextItem, Call, Item, ItemType
<1>5. <<>> \in Seq(ItemType)
  BY EmptySeq
<1>6. CASE out = <<t>>
  <2>1. TextOf(out) = <<t>> /\ CallsOf(out) = <<>>
    <3>1. ToSet(out) = {t}
      BY <1>6 DEF ToSet
    <3> QED
      BY <1>4, <1>6, <3>1, OnlyOfOne DEF TextOf, CallsOf, OfType
  <2>2. <<t>> \in Seq(ItemType) /\ <<t>> \o <<>> = <<t>>
    BY <1>4, ConcatEmptySeq
  <2>3. AnswerOf(out, <<t>>, <<>>)
    BY <1>4, <1>5, <1>6, <2>1, <2>2 DEF AnswerOf
  <2> QED
    BY <2>3
<1>7. CASE out = <<t, c>>
  <2>1. TextOf(out) = <<t>> /\ CallsOf(out) = <<c>>
    <3>1. ToSet(out) = {t, c}
      BY <1>7 DEF ToSet
    <3>2. PICK S, U : S = {x \in {t, c} : x.type = "message"} /\ U = {x \in {t, c} : x.type = "function_call"}
      OBVIOUS
    <3>3. TextOf(out) = Only(<<t, c>>, S) /\ CallsOf(out) = Only(<<t, c>>, U)
      BY <1>7, <3>1, <3>2 DEF TextOf, CallsOf, OfType
    <3>4. t \in S /\ c \notin S /\ t \notin U /\ c \in U
      BY <1>4, <3>2
    <3>5. t \in ItemType /\ c \in ItemType
      BY <1>4
    <3> QED
      BY <3>3, <3>4, <3>5, OnlyOfTwo
  <2>2. <<t>> \in Seq(ItemType) /\ <<c>> \in Seq(ItemType) /\ <<t>> \o <<c>> = <<t, c>>
    BY <1>4, TwoElements
  <2>3. \A i \in DOMAIN <<c>> : <<c>>[i].type = "function_call"
    BY <1>4
  <2>4. AnswerOf(out, <<t>>, <<c>>)
    BY <1>4, <1>7, <2>1, <2>2, <2>3 DEF AnswerOf
  <2> QED
    BY <2>4
<1>8. CASE out = <<c, d>>
  <2>1. TextOf(out) = <<>> /\ CallsOf(out) = <<c, d>>
    <3>1. ToSet(out) = {c, d}
      BY <1>8 DEF ToSet
    <3>2. PICK S, U : S = {x \in {c, d} : x.type = "message"} /\ U = {x \in {c, d} : x.type = "function_call"}
      OBVIOUS
    <3>3. TextOf(out) = Only(<<c, d>>, S) /\ CallsOf(out) = Only(<<c, d>>, U)
      BY <1>8, <3>1, <3>2 DEF TextOf, CallsOf, OfType
    <3>4. c \notin S /\ d \notin S /\ c \in U /\ d \in U
      BY <1>4, <3>2
    <3>5. c \in ItemType /\ d \in ItemType
      BY <1>4
    <3> QED
      BY <3>3, <3>4, <3>5, OnlyOfTwo
  <2>2. <<c, d>> \in Seq(ItemType)
    BY <1>4
  <2>3. <<>> \o <<c, d>> = <<c, d>>
    BY <2>2, ConcatEmptySeq
  <2>4. \A i \in DOMAIN <<c, d>> : <<c, d>>[i].type = "function_call"
    BY <1>4
  <2>5. AnswerOf(out, <<>>, <<c, d>>)
    BY <1>5, <1>8, <2>1, <2>2, <2>3, <2>4 DEF AnswerOf
  <2> QED
    BY <2>5
<1>9. CASE out = <<e>>
  <2>1. TextOf(out) = <<>> /\ CallsOf(out) = <<e>>
    <3>1. ToSet(out) = {e}
      BY <1>9 DEF ToSet
    <3> QED
      BY <1>4, <1>9, <3>1, OnlyOfOne DEF TextOf, CallsOf, OfType
  <2>2. <<e>> \in Seq(ItemType) /\ <<>> \o <<e>> = <<e>>
    BY <1>4, ConcatEmptySeq
  <2>3. \A i \in DOMAIN <<e>> : <<e>>[i].type = "function_call"
    BY <1>4
  <2>4. AnswerOf(out, <<>>, <<e>>)
    BY <1>5, <1>9, <2>1, <2>2, <2>3 DEF AnswerOf
  <2> QED
    BY <2>4
<1> QED
  BY <1>2, <1>6, <1>7, <1>8, <1>9

LEMMA RepairNoSystem ==
    ASSUME NEW s \in Seq(ChatType), NoSystem(s)
    PROVE  NoSystem(Repair(s))
<1> SUFFICES ASSUME NEW i \in DOMAIN s PROVE Repair(s)[i].role # "system"
  BY DEF NoSystem, Repair
<1>1. PICK m \in ChatType : m = s[i]
  OBVIOUS
<1>2. m.role # "system"
  BY <1>1 DEF NoSystem
<1>3. [m EXCEPT !.role = "user"].role = "user"
  BY OtherRole DEF ChatType
<1>4. Repair(s)[i] = m \/ Repair(s)[i] = [m EXCEPT !.role = "user"]
  BY <1>1 DEF Repair
<1> QED
  BY <1>2, <1>3, <1>4

LEMMA JoinNoSystem ==
    ASSUME NEW s \in Seq(ChatType), NEW t \in Seq(ChatType), NoSystem(s), NoSystem(t)
    PROVE  NoSystem(s \o t)
<1>1. \A i \in 1 .. Len(s) + Len(t) : (s \o t)[i] = IF i <= Len(s) THEN s[i] ELSE t[i - Len(s)]
  OBVIOUS
<1>2. s \o t \in Seq(ChatType) /\ Len(s \o t) = Len(s) + Len(t)
  OBVIOUS
<1> SUFFICES ASSUME NEW i \in 1 .. Len(s) + Len(t) PROVE (s \o t)[i].role # "system"
  BY <1>2 DEF NoSystem
<1>3. CASE i <= Len(s)
  BY <1>1, <1>3 DEF NoSystem
<1>4. CASE ~ (i <= Len(s))
  <2>1. i - Len(s) \in DOMAIN t
    BY <1>4
  <2> QED
    BY <1>1, <1>4, <2>1 DEF NoSystem
<1> QED
  BY <1>3, <1>4

\* A conversation says what the items of its chain say.
Spoken(conversation, chain) ==
    /\ conversation \in Seq(ChatType) /\ NoSystem(conversation)
    /\ chain \in Seq(ItemType)
    /\ Said(conversation) = Mend(RawFacts(chain))

IsAnswer(out) == AnswerOf(out, TextOf(out), CallsOf(out))

\* A conversation with its answer is said after it.
LEMMA TurnsSay ==
    ASSUME NEW conversation, NEW chain, Spoken(conversation, chain), NEW out, IsAnswer(out),
           NEW past, past = Append(conversation, AssistantTurn(out))
    PROVE  /\ past \in Seq(ChatType) /\ NoSystem(past) /\ out \in Seq(ItemType)
           /\ Continues(Said(past), Mend(RawFacts(chain)), RawFacts(out))
<1>1. PICK a, b : AnswerOf(out, a, b)
  BY DEF IsAnswer
<1>2. PICK m : m = AssistantTurn(out)
  OBVIOUS
<1>3. m \in ChatType /\ m.role # "system" /\ out \in Seq(ItemType) /\ FactsOf(m) = RawFacts(out)
  BY <1>1, <1>2, TurnOfParts
<1>4. conversation \in Seq(ChatType) /\ NoSystem(conversation) /\ Said(conversation) = Mend(RawFacts(chain))
  BY DEF Spoken
<1>5. past \in Seq(ChatType) /\ Continues(Said(past), Said(conversation), FactsOf(m))
  BY <1>2, <1>3, <1>4, SaidOne
<1>6. NoSystem(past)
  <2>1. past = Append(conversation, m)
    BY <1>2
  <2> QED
    BY <1>3, <1>4, <2>1 DEF NoSystem
<1> QED
  BY <1>3, <1>4, <1>5, <1>6

\* Facts are mended once, whenever their parts were: those of a conversation
\* and its answer, then those of an input.
LEMMA MendParts ==
    ASSUME NEW c \in Seq(ItemType), NEW o \in Seq(ItemType), NEW l \in Seq(ItemType),
           NEW h \in Seq(FactType), Continues(h, Mend(RawFacts(c)), RawFacts(o)),
           NEW w \in Seq(FactType), Continues(w, h, RawFacts(l))
    PROVE  (c \o o) \o l \in Seq(ItemType) /\ Mend(w) = Mend(RawFacts((c \o o) \o l))
<1>1. PICK D : D = Seq(FactType)
  OBVIOUS
<1>2. PICK rc \in D, ro \in D, rl \in D : rc = RawFacts(c) /\ ro = RawFacts(o) /\ rl = RawFacts(l)
  BY <1>1, FactsMended
<1>3. PICK n : n = Len(rc)
  OBVIOUS
<1>4. PICK mc \in D : mc = Mend(rc)
  BY <1>1, <1>2, <1>3, MendTyped
<1>5. c \o o \in Seq(ItemType) /\ RawFacts(c \o o) = rc \o ro
  BY <1>2, RawConcat
<1>6. (c \o o) \o l \in Seq(ItemType) /\ RawFacts((c \o o) \o l) = (rc \o ro) \o rl
  BY <1>2, <1>5, RawConcat
<1>7. \A x, y, z \in D : (x \o y) \o z = x \o (y \o z)
  <2>1. \A x, y, z \in Seq(FactType) : (x \o y) \o z = x \o (y \o z)
    BY ConcatAssociative
  <2> QED
    BY <1>1, <2>1, Zenon
<1>8. w = (mc \o ro) \o rl
  BY <1>2, <1>4 DEF Continues
<1>9. (mc \o ro) \o rl = mc \o (ro \o rl) /\ (rc \o ro) \o rl = rc \o (ro \o rl)
  BY <1>7, Zenon
<1>10. ro \o rl \in D
  BY <1>1, <1>2
<1>11. Mend(Mend(rc) \o (ro \o rl)) = Mend(rc \o (ro \o rl))
  BY <1>1, <1>2, <1>10, MendTwice
<1> QED
  BY <1>4, <1>6, <1>8, <1>9, <1>11

\* The first request of a chain.
LEMMA FirstSpoken ==
    ASSUME NEW list \in Seq(ItemType), NEW ms \in Seq(ChatType), NoSystem(ms), Said(ms) = RawFacts(list),
           NEW c, c = Conversation(<<>>, ms)
    PROVE  Spoken(c, <<>> \o list)
<1>1. <<>> \o ms = ms /\ <<>> \o list = list
  OBVIOUS
<1>2. c = Repair(ms)
  BY <1>1 DEF Conversation
<1>3. c \in Seq(ChatType) /\ Said(c) = Mend(RawFacts(list)) /\ NoSystem(c)
  BY <1>2, RepairSays, RepairNoSystem
<1> QED
  BY <1>1, <1>3 DEF Spoken

\* A request that builds upon another.
LEMMA NextSpoken ==
    ASSUME NEW past \in Seq(ChatType), NoSystem(past), NEW c \in Seq(ItemType), NEW o \in Seq(ItemType),
           Continues(Said(past), Mend(RawFacts(c)), RawFacts(o)),
           NEW list \in Seq(ItemType), NEW ms \in Seq(ChatType), NoSystem(ms), Said(ms) = RawFacts(list),
           NEW d, d = Conversation(past, ms)
    PROVE  Spoken(d, (c \o o) \o list)
<1>1. PICK all : all = past \o ms
  OBVIOUS
<1>2. all \in Seq(ChatType) /\ Said(all) = Said(past) \o Said(ms)
      /\ Said(past) \in Seq(FactType) /\ Said(all) \in Seq(FactType)
  BY <1>1, SaidConcat
<1>3. NoSystem(all)
  BY <1>1, JoinNoSystem
<1>4. Continues(Said(all), Said(past), RawFacts(list))
  BY <1>2 DEF Continues
<1>5. d = Repair(all)
  BY <1>1 DEF Conversation
<1>6. d \in Seq(ChatType) /\ NoSystem(d) /\ Said(d) = Mend(Said(all))
  BY <1>2, <1>3, <1>5, RepairSays, RepairNoSystem
<1>7. PICK h \in Seq(FactType), w \in Seq(FactType) : h = Said(past) /\ w = Said(all)
  BY <1>2
<1>8. Continues(h, Mend(RawFacts(c)), RawFacts(o)) /\ Continues(w, h, RawFacts(list))
  BY <1>4, <1>7
<1>9. (c \o o) \o list \in Seq(ItemType) /\ Mend(w) = Mend(RawFacts((c \o o) \o list))
  BY <1>8, MendParts
<1> QED
  BY <1>6, <1>7, <1>9 DEF Spoken

\* Instructions say nothing of the conversation.
LEMMA SystemTyped == System \in ChatType /\ System.role = "system" /\ FactsOf(System) = <<>>
<1>1. System \in ChatType /\ System.role = "system" /\ System.calls = <<>> /\ System.says = NoId
  BY NoIdTyped DEF System, ChatMessage, ChatType
<1> QED
  BY <1>1, FactsOfTyped

\* The messages of a chat say what its conversation does, after instructions
\* that are the request's own.
LEMMA ChatSays ==
    ASSUME NEW r, NEW c \in Seq(ChatType), NoSystem(c), NEW s, s = ToChat(r, c)
    PROVE  /\ Said(s) = Said(c)
           /\ {i \in DOMAIN s : s[i].role = "system"} = IF r \in Instructed THEN {1} ELSE {}
<1>1. CASE r \in Instructed
  <2>1. s = <<System>> \o c
    BY <1>1 DEF ToChat
  <2>2. <<>> \in Seq(ChatType) /\ Append(<<>>, System) = <<System>> /\ <<System>> \in Seq(ChatType)
    BY SystemTyped
  <2>3. Said(<<>>) = <<>>
    BY FlattenEmpty DEF Said
  <2>4. Continues(Said(<<System>>), <<>>, <<>>)
    BY <2>2, <2>3, SystemTyped, SaidOne
  <2>5. Said(<<System>>) = <<>>
    BY <2>4 DEF Continues
  <2>6. Said(s) = Said(<<System>>) \o Said(c) /\ Said(c) \in Seq(FactType)
    BY <2>1, <2>2, SaidConcat
  <2>7. Said(s) = Said(c)
    BY <2>5, <2>6
  <2>8. Len(<<System>>) = 1 /\ <<System>>[1] = System
    OBVIOUS
  <2>9. DOMAIN s = 1 .. Len(c) + 1 /\ s[1] = System /\ \A i \in 2 .. Len(c) + 1 : s[i] = c[i - 1]
    BY <2>1, <2>2, <2>8
  <2>10. \A i \in 2 .. Len(c) + 1 : s[i].role # "system"
    BY <2>9 DEF NoSystem
  <2>11. Len(c) \in Nat
    OBVIOUS
  <2>12. \A i \in DOMAIN s : s[i].role = "system" <=> i = 1
    BY <2>9, <2>10, <2>11, SystemTyped
  <2> QED
    BY <1>1, <2>7, <2>9, <2>11, <2>12
<1>2. CASE r \notin Instructed
  BY <1>2 DEF ToChat, NoSystem
<1> QED
  BY <1>1, <1>2

Telling == {"calling", "saving", "saving late", "done", "failed"}
Answering == {"saving", "saving late", "done"}
Turns(r) == Append(talk[r], AssistantTurn(replied[r]))

\* A request, the history it read, and what was told and stored for it.
KeptFor(r) ==
    /\ IsInput(request[r].input)
    /\ pc[r] \in Telling => Spoken(talk[r], told[r]) /\ sent[r] = ToChat(r, talk[r])
    /\ pc[r] \notin Telling => sent[r] = <<>>
    /\ pc[r] \in Answering => IsAnswer(replied[r])
    /\ pc[r] \notin Answering => replied[r] = <<>>
    /\ histories[r].stored => pc[r] \in Answering /\ histories[r].turns = Turns(r)

\* The history a request builds upon is that of the response it names.
FoundFor(r) ==
    LET p == request[r].previous
    IN pc[r] = "loading" /\ found[r].stored =>
        IF p = NoResponse THEN found[r].turns = <<>>
        ELSE p \in Response /\ pc[p] \in Answering /\ found[r].turns = Turns(p)

Columns ==
    /\ request = [r \in Response |-> request[r]] /\ pc = [r \in Response |-> pc[r]]
    /\ found = [r \in Response |-> found[r]] /\ sent = [r \in Response |-> sent[r]]
    /\ talk = [r \in Response |-> talk[r]] /\ replied = [r \in Response |-> replied[r]]
    /\ histories = [r \in Response |-> histories[r]] /\ told = [r \in Response |-> told[r]]

KeptInv ==
    /\ Columns
    /\ items \in SUBSET ItemType
    /\ \A r \in Response : KeptFor(r) /\ FoundFor(r)

LEMMA KeptInitial == ResponsesInit => KeptInv
<1> SUFFICES ASSUME ResponsesInit PROVE KeptInv
  OBVIOUS
<1>1. Columns
  BY DEF ResponsesInit, Columns
<1>2. items \in SUBSET ItemType
  BY DEF ResponsesInit
<1>3. IsInput(<<>>)
  BY DEF IsInput
<1>4. ASSUME NEW r \in Response PROVE KeptFor(r) /\ FoundFor(r)
  BY <1>3 DEF ResponsesInit, KeptFor, FoundFor, NoRequest, NoHistory, Telling, Answering
<1> QED
  BY <1>1, <1>2, <1>4 DEF KeptInv

\* What a client may put in.
LEMMA AnswerTyped ==
    ASSUME NEW out, IsAnswer(out)
    PROVE  out \in Seq(ItemType) /\ ToSet(out) \subseteq ItemType
<1>1. out \in Seq(ItemType)
  BY TurnOfParts DEF IsAnswer
<1> QED
  BY <1>1 DEF ToSet

LEMMA AnItem ==
    ASSUME NEW type \in {"message", "function_call", "function_call_output"},
           NEW role \in {"user", "assistant", "tool"}, NEW id \in Ids, NEW call \in Ids,
           id # NoId, type = "message" => role \in {"user", "assistant"}
    PROVE  Item(type, role, id, call) \in ItemType
BY DEF Item, ItemType

LEMMA InputsTyped ==
    ASSUME KeptInv, NEW r \in Response, NEW input \in Inputs(r)
    PROVE  IsInput(input)
<1>1. \A o \in ShownItems : o \in ItemType
  <2> SUFFICES ASSUME NEW q \in Response, Shown(q) PROVE ToSet(replied[q]) \subseteq ItemType
    BY DEF ShownItems, Known
  <2>1. IsAnswer(replied[q])
    BY DEF Shown, KeptInv, KeptFor, Answering
  <2> QED
    BY <2>1, AnswerTyped
<1>2. ASSUME NEW i \in Nat, NEW x \in InputItems(r, i), x.type # "item_reference"
      PROVE  x \in ItemType
  <2>1. <<"in", r, i>> \in Ids /\ UnknownCall \in Ids /\ <<"in", r, i>> # NoId
    BY DEF Ids, UnknownCall, NoId
  <2>2. CASE x = Say(<<"in", r, i>>)
    BY <2>1, <2>2, NoIdTyped, AnItem DEF Say
  <2>3. CASE \E o \in ShownItems : x = Reference(o.id)
    BY <1>2, <2>3 DEF Reference, Item
  <2>4. CASE x \in ShownItems
    BY <1>1, <2>4
  <2>5. CASE \E c \in Ids : x = Result(<<"in", r, i>>, c)
    BY <2>1, <2>5, AnItem DEF Result
  <2>6. \A o \in ShownItems : o.call \in Ids
    BY <1>1 DEF ItemType
  <2> QED
    BY <1>2, <2>1, <2>2, <2>3, <2>4, <2>5, <2>6 DEF InputItems
<1>3. PICK n \in 0 .. MaxInput[r] :
        /\ input \in [1 .. n -> UNION {InputItems(r, i) : i \in 1 .. n}]
        /\ \A i \in 1 .. n : input[i] \in InputItems(r, i)
  BY DEF Inputs
<1>4. n \in Nat
  BY <1>3
<1>5. PICK T : input \in [1 .. n -> T]
  BY <1>3
<1>6. input \in Seq(T) /\ Len(input) = n /\ DOMAIN input = 1 .. n
  BY <1>4, <1>5
<1>7. \A i \in 1 .. n : i \in Nat
  BY <1>4
<1> QED
  BY <1>2, <1>3, <1>4, <1>6, <1>7 DEF IsInput

\* Every action is about one response, the rows of the others stay.
RowsOfOthers(r) ==
    \A q \in Response \ {r} :
        /\ request'[q] = request[q] /\ pc'[q] = pc[q] /\ found'[q] = found[q] /\ sent'[q] = sent[q]
        /\ talk'[q] = talk[q] /\ replied'[q] = replied[q]
        /\ histories'[q] = histories[q] /\ told'[q] = told[q]

\* What is told stays told.
AnswerStays(r) ==
    pc[r] \in Answering =>
        pc'[r] \in Answering /\ talk'[r] = talk[r] /\ replied'[r] = replied[r]

LEMMA OthersKept ==
    ASSUME KeptInv, NEW r \in Response, RowsOfOthers(r), AnswerStays(r), Columns',
           (items \in SUBSET ItemType)', KeptFor(r)', FoundFor(r)'
    PROVE  KeptInv'
<1>1. ASSUME NEW q \in Response \ {r} PROVE KeptFor(q)'
  BY <1>1 DEF KeptInv, KeptFor, RowsOfOthers, Turns
<1>2. ASSUME NEW q \in Response \ {r} PROVE FoundFor(q)'
  <2>1. request'[q] = request[q] /\ pc'[q] = pc[q] /\ found'[q] = found[q]
    BY <1>2 DEF RowsOfOthers
  <2>2. ASSUME NEW p \in Response, pc[p] \in Answering
        PROVE  pc'[p] \in Answering /\ Turns(p)' = Turns(p)
    <3>1. CASE p = r
      BY <2>2, <3>1 DEF AnswerStays, Turns
    <3>2. CASE p # r
      BY <2>2, <3>2 DEF RowsOfOthers, Turns
    <3> QED
      BY <3>1, <3>2
  <2>3. FoundFor(q)
    BY DEF KeptInv
  <2>4. PICK p : p = request[q].previous /\ p = request'[q].previous
    BY <2>1
  <2> SUFFICES ASSUME pc[q] = "loading", found[q].stored, p # NoResponse
      PROVE  p \in Response /\ pc'[p] \in Answering /\ found[q].turns = Turns(p)'
    BY <2>1, <2>3, <2>4 DEF FoundFor
  <2>5. p \in Response /\ pc[p] \in Answering /\ found[q].turns = Turns(p)
    BY <2>3, <2>4 DEF FoundFor
  <2> QED
    BY <2>2, <2>5
<1> QED
  BY <1>1, <1>2 DEF KeptInv

LEMMA Labels ==
    /\ "idle" \notin Telling /\ "loading" \notin Telling /\ "refused" \notin Telling /\ "not found" \notin Telling
    /\ "calling" \in Telling /\ "failed" \in Telling /\ "calling" \notin Answering /\ "failed" \notin Answering
    /\ "loading" \notin Answering /\ "refused" \notin Answering /\ "not found" \notin Answering /\ "idle" \notin Answering
    /\ Answering \subseteq Telling
    /\ "saving" \in Answering /\ "saving late" \in Answering /\ "done" \in Answering
BY DEF Telling, Answering

LEMMA AskKeeps ==
    ASSUME KeptInv, NEW r \in Response, Ask(r)
    PROVE  KeptInv'
<1>1. Columns
  BY DEF KeptInv
<1>2. PICK p \in Known \cup {NoResponse}, input \in Inputs(r), way \in Ways(r) :
        /\ request' = [request EXCEPT ![r] = [previous |-> p, input |-> input, way |-> way]]
        /\ found' = [found EXCEPT ![r] = IF p = NoResponse THEN History(<<>>) ELSE histories[p]]
  BY DEF Ask
<1>3. pc' = [pc EXCEPT ![r] = "loading"] /\ pc[r] = "idle"
      /\ UNCHANGED <<sent, talk, replied, histories, items, told, lost>>
  BY DEF Ask, Goto
<1>4. request'[r].previous = p /\ request'[r].input = input /\ pc'[r] = "loading"
      /\ found'[r] = IF p = NoResponse THEN History(<<>>) ELSE histories[p]
  BY <1>1, <1>2, <1>3 DEF Columns
<1>5. RowsOfOthers(r) /\ AnswerStays(r)
  BY <1>1, <1>2, <1>3, Labels DEF Columns, RowsOfOthers, AnswerStays
<1>6. Columns'
  BY <1>1, <1>2, <1>3 DEF Columns
<1>7. KeptFor(r)'
  <2>1. IsInput(input)
    BY InputsTyped
  <2>2. sent[r] = <<>> /\ replied[r] = <<>> /\ ~ histories[r].stored
    BY <1>3, Labels DEF KeptInv, KeptFor
  <2> QED
    BY <1>3, <1>4, <2>1, <2>2, Labels DEF KeptFor
<1>8. FoundFor(r)'
  <2>1. CASE p = NoResponse
    BY <1>4, <2>1 DEF FoundFor, History
  <2>2. CASE p # NoResponse
    <3>1. p \in Response /\ p # r
      BY <1>3, <2>2 DEF Known, Shown
    <3>2. histories[p].stored => pc[p] \in Answering /\ histories[p].turns = Turns(p)
      BY <3>1 DEF KeptInv, KeptFor
    <3>3. pc'[p] = pc[p] /\ Turns(p)' = Turns(p)
      BY <1>3, <1>5, <3>1 DEF RowsOfOthers, Turns
    <3> QED
      BY <1>4, <2>2, <3>1, <3>2, <3>3 DEF FoundFor
  <2> QED
    BY <2>1, <2>2
<1> QED
  BY <1>3, <1>5, <1>6, <1>7, <1>8, OthersKept DEF KeptInv

LEMMA BuildKeeps ==
    ASSUME KeptInv, NEW r \in Response, Build(r)
    PROVE  KeptInv'
<1>1. Columns
  BY DEF KeptInv
<1>2. PICK list : list = Resolved(request[r].input, items)
  OBVIOUS
<1>3. PICK ms : ms = Appended(list)[Len(list)]
  OBVIOUS
<1>4. PICK past : past = found[r].turns
  OBVIOUS
<1>5. PICK conversation : conversation = Conversation(past, ms)
  OBVIOUS
<1>6. PICK before : before = IF request[r].previous = NoResponse THEN <<>>
                             ELSE told[request[r].previous] \o replied[request[r].previous]
  OBVIOUS
<1>7. /\ pc[r] = "loading" /\ found[r].stored
      /\ told' = [told EXCEPT ![r] = before \o list]
      /\ \/ pc' = [pc EXCEPT ![r] = "refused"] /\ UNCHANGED <<sent, talk>>
         \/ /\ pc' = [pc EXCEPT ![r] = "calling"]
            /\ sent' = [sent EXCEPT ![r] = ToChat(r, conversation)]
            /\ talk' = [talk EXCEPT ![r] = conversation]
      /\ UNCHANGED <<request, found, replied, histories, items, lost>>
  BY <1>2, <1>3, <1>4, <1>5, <1>6 DEF Build, Goto, InputToMessages
<1>8. list \in Seq(ItemType)
  BY <1>2, ResolvedTyped DEF KeptInv, KeptFor
<1>9. ms \in Seq(ChatType) /\ NoSystem(ms) /\ Said(ms) = RawFacts(list)
  BY <1>3, <1>8, InputSays
<1>10. Spoken(conversation, before \o list)
  <2>1. CASE request[r].previous = NoResponse
    <3>1. past = <<>> /\ before = <<>>
      BY <1>4, <1>6, <1>7, <2>1 DEF KeptInv, FoundFor
    <3> QED
      BY <1>5, <1>8, <1>9, <3>1, FirstSpoken
  <2>2. CASE request[r].previous # NoResponse
    <3>1. PICK p : p = request[r].previous
      OBVIOUS
    <3>2. p \in Response /\ pc[p] \in Answering /\ past = Turns(p) /\ before = told[p] \o replied[p]
      BY <1>4, <1>6, <1>7, <2>2, <3>1 DEF KeptInv, FoundFor
    <3>3. Spoken(talk[p], told[p]) /\ IsAnswer(replied[p])
      BY <3>2, Labels DEF KeptInv, KeptFor
    <3>4. PICK tk, c, o : tk = talk[p] /\ c = told[p] /\ o = replied[p]
      OBVIOUS
    <3>5. Spoken(tk, c) /\ IsAnswer(o) /\ past = Append(tk, AssistantTurn(o))
      BY <3>2, <3>3, <3>4 DEF Turns
    <3>6. /\ past \in Seq(ChatType) /\ NoSystem(past) /\ o \in Seq(ItemType)
          /\ Continues(Said(past), Mend(RawFacts(c)), RawFacts(o))
      BY <3>5, TurnsSay
    <3>7. c \in Seq(ItemType)
      BY <3>5 DEF Spoken
    <3>8. Spoken(conversation, (c \o o) \o list)
      BY <1>5, <1>8, <1>9, <3>6, <3>7, NextSpoken
    <3> QED
      BY <3>2, <3>4, <3>8
  <2> QED
    BY <2>1, <2>2
<1>11. RowsOfOthers(r) /\ AnswerStays(r)
  BY <1>1, <1>7, Labels DEF Columns, RowsOfOthers, AnswerStays
<1>12. Columns'
  BY <1>1, <1>7 DEF Columns
<1>13. KeptFor(r)'
  <2>1. sent[r] = <<>> /\ replied[r] = <<>> /\ ~ histories[r].stored /\ IsInput(request[r].input)
    BY <1>7, Labels DEF KeptInv, KeptFor
  <2>2. told'[r] = before \o list
    BY <1>1, <1>7 DEF Columns
  <2>3. CASE pc' = [pc EXCEPT ![r] = "refused"] /\ UNCHANGED <<sent, talk>>
    <3>1. pc'[r] = "refused"
      BY <1>1, <2>3 DEF Columns
    <3> QED
      BY <1>7, <2>1, <2>3, <3>1, Labels DEF KeptFor
  <2>4. CASE /\ pc' = [pc EXCEPT ![r] = "calling"]
             /\ sent' = [sent EXCEPT ![r] = ToChat(r, conversation)]
             /\ talk' = [talk EXCEPT ![r] = conversation]
    <3>1. pc'[r] = "calling" /\ sent'[r] = ToChat(r, conversation) /\ talk'[r] = conversation
      BY <1>1, <2>4 DEF Columns
    <3> QED
      BY <1>7, <1>10, <2>1, <2>2, <3>1, Labels DEF KeptFor
  <2> QED
    BY <1>7, <2>3, <2>4
<1>14. FoundFor(r)'
  BY <1>1, <1>7 DEF FoundFor, Columns
<1> QED
  BY <1>7, <1>11, <1>12, <1>13, <1>14, OthersKept DEF KeptInv

LEMMA ReplyKeeps ==
    ASSUME KeptInv, NEW r \in Response, Reply(r)
    PROVE  KeptInv'
<1>1. Columns
  BY DEF KeptInv
<1>2. PICK out \in Replies(r), label \in Answering :
        /\ replied' = [replied EXCEPT ![r] = out] /\ pc' = [pc EXCEPT ![r] = label]
        /\ pc[r] = "calling" /\ UNCHANGED <<request, found, sent, talk, histories, items, told, lost>>
  <2>1. "done" \in Answering /\ Saving(r) \in Answering
    BY Labels DEF Saving
  <2> QED
    BY <2>1 DEF Reply, Goto
<1>3. replied'[r] = out /\ pc'[r] = label
  BY <1>1, <1>2 DEF Columns
<1>4. RowsOfOthers(r) /\ AnswerStays(r)
  BY <1>1, <1>2, Labels DEF Columns, RowsOfOthers, AnswerStays
<1>5. Columns'
  BY <1>1, <1>2 DEF Columns
<1>6. IsAnswer(out)
  BY RepliesHaveParts DEF IsAnswer, AnswerOf
<1>7. KeptFor(r)'
  <2>1. /\ IsInput(request[r].input) /\ Spoken(talk[r], told[r]) /\ sent[r] = ToChat(r, talk[r])
        /\ ~ histories[r].stored
    BY <1>2, Labels DEF KeptInv, KeptFor
  <2> QED
    BY <1>2, <1>3, <1>6, <2>1, Labels DEF KeptFor
<1>8. FoundFor(r)'
  BY <1>3, Labels DEF FoundFor
<1> QED
  BY <1>2, <1>4, <1>5, <1>7, <1>8, OthersKept DEF KeptInv

\* Those that end a request, and those that touch its rows.
LEMMA EndKeeps ==
    ASSUME KeptInv, NEW r \in Response, NEW label,
           pc' = [pc EXCEPT ![r] = label],
           \/ pc[r] = "loading" /\ label = "not found"
           \/ pc[r] = "calling" /\ label = "failed",
           UNCHANGED <<request, found, sent, talk, replied, histories, items, told>>
    PROVE  KeptInv'
<1>1. Columns
  BY DEF KeptInv
<1>2. pc'[r] = label
  BY <1>1 DEF Columns
<1>3. RowsOfOthers(r) /\ AnswerStays(r)
  BY <1>1, Labels DEF Columns, RowsOfOthers, AnswerStays
<1>4. Columns'
  BY <1>1 DEF Columns
<1>5. KeptFor(r)'
  BY <1>2, Labels DEF KeptInv, KeptFor
<1>6. FoundFor(r)'
  BY <1>2 DEF FoundFor
<1> QED
  BY <1>3, <1>4, <1>5, <1>6, OthersKept DEF KeptInv

LEMMA RowsKeep ==
    ASSUME KeptInv, NEW r \in Response, NEW h,
           pc' = pc \/ pc' = [pc EXCEPT ![r] = "done"],
           histories' = histories \/ histories' = [histories EXCEPT ![r] = h],
           h = NoHistory \/ h = History(Turns(r)),
           pc[r] \in Answering, items' \in SUBSET ItemType,
           UNCHANGED <<request, found, sent, talk, replied, told>>
    PROVE  KeptInv'
<1>1. Columns
  BY DEF KeptInv
<1>2. pc'[r] \in Answering
  BY <1>1, Labels DEF Columns
<1>3. RowsOfOthers(r) /\ AnswerStays(r)
  BY <1>1, <1>2, Labels DEF Columns, RowsOfOthers, AnswerStays
<1>4. Columns'
  BY <1>1 DEF Columns
<1>5. KeptFor(r)'
  <2>1. Turns(r)' = Turns(r)
    BY DEF Turns
  <2>2. histories'[r].stored => histories'[r].turns = Turns(r)
    <3>1. CASE histories' = histories
      BY <3>1 DEF KeptInv, KeptFor
    <3>2. CASE histories' = [histories EXCEPT ![r] = h]
      <4>1. histories'[r] = h
        BY <1>1, <3>2 DEF Columns
      <4> QED
        BY <4>1 DEF NoHistory, History
    <3> QED
      BY <3>1, <3>2
  <2>3. /\ IsInput(request[r].input) /\ Spoken(talk[r], told[r]) /\ sent[r] = ToChat(r, talk[r])
        /\ IsAnswer(replied[r])
    BY Labels DEF KeptInv, KeptFor
  <2> QED
    BY <1>2, <2>1, <2>2, <2>3, Labels DEF KeptFor
<1>6. FoundFor(r)'
  BY <1>2, Labels DEF FoundFor
<1> QED
  BY <1>3, <1>4, <1>5, <1>6, OthersKept DEF KeptInv

LEMMA SaveKeeps ==
    ASSUME KeptInv, NEW r \in Response, Save(r)
    PROVE  KeptInv'
<1>1. PICK h : h = History(Turns(r))
  OBVIOUS
<1>2. /\ pc' = [pc EXCEPT ![r] = "done"] /\ pc[r] \in Answering
      /\ histories' = histories \/ histories' = [histories EXCEPT ![r] = h]
      /\ UNCHANGED <<request, found, sent, talk, replied, told>>
  BY <1>1, Labels DEF Save, Goto, Turns
<1>3. items' \in SUBSET ItemType
  <2>1. IsAnswer(replied[r]) /\ IsInput(request[r].input) /\ items \in SUBSET ItemType
    BY <1>2 DEF KeptInv, KeptFor
  <2>2. ToSet(replied[r]) \subseteq ItemType
    BY <2>1, AnswerTyped
  <2>3. \A i \in ToSet(request[r].input) : i.type # "item_reference" => i \in ItemType
    BY <2>1 DEF IsInput, ToSet
  <2>4. items' = items \cup ToSet(replied[r])
                 \cup {i \in ToSet(request[r].input) : i.id[1] = "out" /\ i.type # "item_reference"}
    BY DEF Save
  <2> QED
    BY <2>1, <2>2, <2>3, <2>4
<1> QED
  BY <1>1, <1>2, <1>3, RowsKeep

LEMMA ExpireKeeps ==
    ASSUME KeptInv, NEW r \in Response, Expire(r)
    PROVE  KeptInv'
<1>1. pc[r] \in Answering
  BY DEF KeptInv, KeptFor, Expire
<1>2. items' \in SUBSET ItemType
  BY DEF Expire, KeptInv
<1>3. /\ pc' = pc /\ histories' = [histories EXCEPT ![r] = NoHistory]
      /\ UNCHANGED <<request, found, sent, talk, replied, told>>
  BY DEF Expire
<1> QED
  BY <1>1, <1>2, <1>3, RowsKeep

LEMMA KeptStep == KeptInv /\ [ResponsesNext]_responsesVars => KeptInv'
<1> SUFFICES ASSUME KeptInv, [ResponsesNext]_responsesVars PROVE KeptInv'
  OBVIOUS
<1>1. ASSUME NEW r \in Response, Ask(r) PROVE KeptInv'
  BY <1>1, AskKeeps
<1>2. ASSUME NEW r \in Response, Build(r) PROVE KeptInv'
  BY <1>2, BuildKeeps
<1>3. ASSUME NEW r \in Response, NotFound(r) PROVE KeptInv'
  BY <1>3, EndKeeps DEF NotFound, Goto
<1>4. ASSUME NEW r \in Response, Reply(r) PROVE KeptInv'
  BY <1>4, ReplyKeeps
<1>5. ASSUME NEW r \in Response, Fail(r) PROVE KeptInv'
  BY <1>5, EndKeeps DEF Fail, Goto
<1>6. ASSUME NEW r \in Response, Save(r) PROVE KeptInv'
  BY <1>6, SaveKeeps
<1>7. ASSUME NEW r \in Response, Unsaved(r) PROVE KeptInv'
  <2>1. /\ pc' = [pc EXCEPT ![r] = "done"] /\ pc[r] \in Answering
        /\ UNCHANGED <<request, found, sent, talk, replied, histories, items, told>>
    BY <1>7, Labels DEF Unsaved, Goto
  <2>2. items' \in SUBSET ItemType
    BY <2>1 DEF KeptInv
  <2> QED
    BY <2>1, <2>2, RowsKeep
<1>8. ASSUME NEW r \in Response, Expire(r) PROVE KeptInv'
  BY <1>8, ExpireKeeps
<1>9. CASE UNCHANGED responsesVars
  BY <1>9 DEF responsesVars, KeptInv, Columns, KeptFor, FoundFor, Turns
<1> QED
  BY <1>1, <1>2, <1>3, <1>4, <1>5, <1>6, <1>7, <1>8, <1>9 DEF ResponsesNext

\* However requests build upon each other, replies are stored, lost and
\* forgotten, and items are brought again or by reference: the model is told
\* what the items of the whole chain say, results paired with their calls, after
\* the instructions of this request and no other.
THEOREM ConversationsAreKept == ResponsesSpec => []ConversationKept
<1>1. KeptInv => ConversationKept
  <2> SUFFICES ASSUME KeptInv, NEW r \in Response, sent[r] # <<>>
               PROVE  /\ Said(sent[r]) = Facts(told[r])
                      /\ {i \in DOMAIN sent[r] : sent[r][i].role = "system"}
                           = IF r \in Instructed THEN {1} ELSE {}
    BY DEF ConversationKept
  <2>1. Spoken(talk[r], told[r]) /\ sent[r] = ToChat(r, talk[r])
    BY DEF KeptInv, KeptFor
  <2>2. PICK c, s, chain : c = talk[r] /\ s = sent[r] /\ chain = told[r]
    OBVIOUS
  <2>3. c \in Seq(ChatType) /\ NoSystem(c) /\ s = ToChat(r, c) /\ chain \in Seq(ItemType)
        /\ Said(c) = Mend(RawFacts(chain))
    BY <2>1, <2>2 DEF Spoken
  <2>4. Said(s) = Said(c) /\ {i \in DOMAIN s : s[i].role = "system"} = IF r \in Instructed THEN {1} ELSE {}
    BY <2>3, ChatSays
  <2>5. Facts(chain) = Mend(RawFacts(chain))
    BY <2>3, FactsMended
  <2> QED
    BY <2>2, <2>3, <2>4, <2>5
<1> QED
  BY <1>1, KeptInitial, KeptStep, PTL DEF ResponsesSpec

====
