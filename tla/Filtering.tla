---- MODULE Filtering ----
(***************************************************************************)
(* The comprehension [x for x in s if ...] by which the orchestrator drops *)
(* models that cool down and providers that cannot serve a request, and    *)
(* which tells the texts of a response from its calls.                     *)
(***************************************************************************)
EXTENDS Naturals, Sequences

\* The members of S in the order of sequence s, up to each of its places.
Kept(s, S) ==
    LET kept[i \in 0..Len(s)] ==
          IF i = 0 THEN <<>>
          ELSE IF s[i] \in S THEN Append(kept[i - 1], s[i]) ELSE kept[i - 1]
    IN  kept
Only(s, S) == Kept(s, S)[Len(s)]
====
