---- MODULE Rollup ----
(***************************************************************************)
(* The hourly maintenance of every pod (app/lifecycle.py, _periodic_purge) *)
(* and the daily rollup it keeps (usage_repo.py, rollup_day).              *)
(*                                                                         *)
(* A pass is one transaction: it deletes and rewrites the rollup rows of   *)
(* yesterday and of today from the usage events, drops what is too old and *)
(* commits.  Every pod runs its own loop and nothing serialises them, so   *)
(* two passes meet at READ COMMITTED: a DELETE waits for rows that another *)
(* pass has deleted and does not see the rows that pass inserts, an INSERT *)
(* waits for an equal key and fails when that key is committed.            *)
(***************************************************************************)
EXTENDS Integers, FiniteSets

CONSTANTS
    Pod,         \* the processes that run the loop
    UsageEvent,  \* usage events, each recorded by a request of its own
    Accounts,    \* what may group the events (user, provider, model, strategy): a set of
                 \* functions on UsageEvent, of which a behaviour takes one
    Unknown,     \* the account with a NULL model
    Unnamed,     \* the account that differs from it by an empty model
    KeepEvents,  \* days that usage_events are kept (90 in the code)
    KeepRollups, \* days that usage_daily_rollup is kept (730 in the code)
    MaxDay       \* bound: the clock stops there

ASSUME RetentionAssumption ==
    /\ KeepEvents \in Nat /\ KeepRollups \in Nat /\ MaxDay \in Nat
    /\ 1 < KeepEvents /\ KeepEvents < KeepRollups

VARIABLES
    today,   \* the UTC day
    account, \* UsageEvent -> the group it falls in
    usage,   \* UsageEvent -> [at: day of occurred_at, in: where its row is]
    rollup,  \* committed rows of usage_daily_rollup
    pass,    \* Pod -> its open transaction
    counted  \* history: events that a committed pass has counted

rollupVars == <<today, account, usage, rollup, pass, counted>>

Asleep == [pc |-> "asleep", base |-> 0, day |-> 0, snapshot |-> {}, deleted |-> {}, inserted |-> {}]

RollupInit ==
    /\ today = 0
    /\ account \in Accounts
    /\ usage = [e \in UsageEvent |-> [at |-> 0, in |-> "none"]]
    /\ rollup = {}
    /\ pass = [p \in Pod |-> Asleep]
    /\ counted = {}

(* ----------------------------- the requests ---------------------------- *)

\* A request adds its event with the time of the call, in its own transaction,
\* and that transaction commits when the request ends.
Record(e) ==
    /\ usage[e].in = "none"
    /\ usage' = [usage EXCEPT ![e] = [at |-> today, in |-> "open"]]
    /\ UNCHANGED <<today, account, rollup, pass, counted>>

Land(e) ==
    /\ usage[e].in = "open"
    /\ usage' = [usage EXCEPT ![e].in = "table"]
    /\ UNCHANGED <<today, account, rollup, pass, counted>>

\* Neither a request nor a pass lasts a whole day.
NextDay ==
    /\ today < MaxDay
    /\ \A e \in UsageEvent : usage[e].in = "open" => usage[e].at = today
    /\ \A p \in Pod : pass[p].pc # "asleep" => pass[p].base = today
    /\ today' = today + 1
    /\ UNCHANGED <<account, usage, rollup, pass, counted>>

(* ------------------------------- one pass ------------------------------ *)

\* What two rows may not share: the primary key, in which COALESCE(model, '')
\* makes the NULL model and the empty one equal.
Key(a) == IF a = Unnamed THEN Unknown ELSE a
SameKey(r, s) == r.day = s.day /\ Key(r.account) = Key(s.account)

Wake(p) ==
    /\ pass[p].pc = "asleep"
    /\ pass' = [pass EXCEPT ![p] = [Asleep EXCEPT !.pc = "delete", !.base = today, !.day = today - 1]]
    /\ UNCHANGED <<today, account, usage, rollup, counted>>

\* The statement DELETE sees the rows that are committed when it starts ...
StartDelete(p) ==
    /\ pass[p].pc = "delete"
    /\ pass' = [pass EXCEPT ![p].pc = "deleting",
                            ![p].snapshot = {r \in rollup : r.day = pass[p].day}]
    /\ UNCHANGED <<today, account, usage, rollup, counted>>

\* ... waits for the passes that hold one of them, and skips those that are gone.
EndDelete(p) ==
    /\ pass[p].pc = "deleting"
    /\ \A q \in Pod \ {p} : pass[p].snapshot \cap pass[q].deleted = {}
    /\ pass' = [pass EXCEPT ![p].pc = "insert", ![p].snapshot = {},
                            ![p].deleted = @ \cup (pass[p].snapshot \cap rollup)]
    /\ UNCHANGED <<today, account, usage, rollup, counted>>

\* INSERT ... SELECT reads the events committed when it starts.
StartInsert(p) ==
    /\ pass[p].pc = "insert"
    /\ pass' = [pass EXCEPT ![p].pc = "inserting",
                            ![p].snapshot = {e \in UsageEvent : usage[e].in = "table" /\ usage[e].at = pass[p].day}]
    /\ UNCHANGED <<today, account, usage, rollup, counted>>

\* One row per group; GROUP BY keeps the NULL model and the empty one apart.
Groups(p) ==
    {[day |-> pass[p].day, account |-> a, of |-> {e \in pass[p].snapshot : account[e] = a}, by |-> p] :
        a \in {account[e] : e \in pass[p].snapshot}}

\* A key that another open pass has inserted, or deleted: its end is awaited.
KeyBusy(p) ==
    \E q \in Pod \ {p}, r \in Groups(p) :
        \E s \in pass[q].inserted \cup (pass[q].deleted \cap rollup) : SameKey(r, s)

\* Mutant: a rollup table without the unique key.
NeverDuplicate(p) == FALSE

Duplicate(p) ==
    \E r \in Groups(p) :
        \/ \E s \in rollup \ pass[p].deleted : SameKey(r, s)
        \/ \E s \in Groups(p) \ {r} : SameKey(r, s)

EndInsert(p) ==
    /\ pass[p].pc = "inserting" /\ ~KeyBusy(p) /\ ~Duplicate(p)
    /\ pass' = [pass EXCEPT ![p].inserted = @ \cup Groups(p), ![p].snapshot = {},
                            ![p].pc = IF pass[p].day = pass[p].base THEN "purge" ELSE "delete",
                            ![p].day = pass[p].base]
    /\ UNCHANGED <<today, account, usage, rollup, counted>>

\* The purges, against the clock of that moment, and the commit of the pass.
Expired(r) == r.day < today - KeepRollups

Commit(p) ==
    /\ pass[p].pc = "purge"
    /\ usage' = [e \in UsageEvent |-> IF usage[e].in = "table" /\ usage[e].at < today - KeepEvents
                                 THEN [usage[e] EXCEPT !.in = "purged"] ELSE usage[e]]
    /\ rollup' = {r \in (rollup \ pass[p].deleted) \cup pass[p].inserted : ~Expired(r)}
    /\ counted' = counted \cup UNION {r.of : r \in pass[p].inserted}
    /\ pass' = [pass EXCEPT ![p] = Asleep]
    /\ UNCHANGED <<today, account>>

\* Mutant: every statement in a transaction of its own, so that an error after the
\* DELETE leaves the day empty.
RollBackTheRest(p) ==
    /\ pass[p].pc # "asleep"
    /\ rollup' = rollup \ pass[p].deleted
    /\ pass' = [pass EXCEPT ![p] = Asleep]
    /\ UNCHANGED <<today, account, usage, counted>>

\* The unique key, any other error of the database, or the shutdown of the pod:
\* the loop logs it, the transaction is rolled back, the next hour tries again.
RollBack(p) ==
    /\ pass[p].pc # "asleep"
    /\ pass' = [pass EXCEPT ![p] = Asleep]
    /\ UNCHANGED <<today, account, usage, rollup, counted>>

RollupNext ==
    \/ NextDay
    \/ \E e \in UsageEvent : Record(e) \/ Land(e)
    \/ \E p \in Pod :
        \/ Wake(p) \/ StartDelete(p) \/ EndDelete(p)
        \/ StartInsert(p) \/ EndInsert(p) \/ Commit(p) \/ RollBack(p)

RollupSpec == RollupInit /\ [][RollupNext]_rollupVars

(* ------------------------------ properties ----------------------------- *)

\* An event that a committed pass has counted stays counted until its day leaves
\* the rollup's retention: no later pass of any pod, whose statements saw older or
\* newer events, or fewer because of the purge, rewrites the day without it.
CountedStays ==
    \A e \in counted :
        usage[e].at >= today - KeepRollups => \E r \in rollup : r.day = usage[e].at /\ e \in r.of

\* The rows of one day were written by one pass and count an event once: passes that
\* overlap never leave a mixture of theirs behind.
OnePassPerDay ==
    \A r, s \in rollup :
        r.day = s.day => r.by = s.by /\ (r # s => ~SameKey(r, s) /\ r.of \cap s.of = {})
====
