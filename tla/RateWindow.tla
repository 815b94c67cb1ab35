---- MODULE RateWindow ----
(***************************************************************************)
(* What the rate limiter of one (user, provider) pair promises: an         *)
(* admission is a single atomic step, taken only when every sliding window *)
(* that reaches back from its time stamp still has room.  Nothing here     *)
(* knows of database transactions, row locks or processes.                 *)
(***************************************************************************)
EXTENDS Naturals, FiniteSets

CONSTANTS
    Event,      \* possible admissions: records with a time stamp "at"
    Caps        \* the limits in force: records [window, limit]

VARIABLE log    \* admissions that stand (neither withdrawn nor undone)

Init == log = {}

Admit(e) ==
    /\ log' = log \cup {e}
    /\ \A c \in Caps :
          Cardinality({f \in log : f.at + c.window >= e.at}) < c.limit

\* The request behind some admissions failed and took them back.
Withdraw(gone) == log' = log \ gone

Next ==
    \/ \E e \in Event : Admit(e)
    \/ \E gone \in SUBSET log : Withdraw(gone)

Spec == Init /\ [][Next]_log
====
