---- MODULE StrategyCache ----
(***************************************************************************)
(* The strategies table, its admin endpoints (routers/strategies.py over   *)
(* strategy_repo.py) and the per-process cache through which every chat    *)
(* request reads it (orchestrator.py, _StrategyCache), for one name: the   *)
(* names do not influence each other.                                      *)
(*                                                                         *)
(* A handler drops the entry of its own process BEFORE its transaction     *)
(* commits, and the other processes are not told: what keeps a changed     *)
(* strategy from being served for ever is the time to live alone.          *)
(***************************************************************************)
EXTENDS Integers

CONSTANTS
    Process,      \* processes whose cache is looked at
    AdminProcess, \* processes that may serve the admin, of Process or not
    Lookup,       \* concurrent requests that resolve the strategy
    Definition,   \* definitions an admin may store
    NoStrategy,   \* no such strategy (_MISSING)
    NoEntry,      \* no cache entry
    TTL,          \* _TTL, in ticks
    MaxNow        \* bound: the clock stops there

ASSUME TTLAssumption == TTL \in Nat \ {0} /\ MaxNow \in Nat

VARIABLES
    now,     \* the monotonic clock
    strategy,\* what the committed row says
    held,    \* history: tick -> what the row said at some moment of it
    cache,   \* Process -> its entry, or NoEntry
    lookup,  \* Lookup -> where it is
    admin    \* the open transaction of an admin's request

cacheVars == <<now, strategy, held, cache, lookup, admin>>

Value == Definition \cup {NoStrategy}

Unasked == [pc |-> "unasked", on |-> NoEntry, since |-> 0, value |-> NoEntry]
NoWrite == [pc |-> "closed", value |-> NoEntry]

CacheInit ==
    /\ now = 0
    /\ strategy \in Value
    /\ held = [t \in 0..MaxNow |-> IF t = 0 THEN {strategy} ELSE {}]
    /\ cache = [p \in Process |-> NoEntry]
    /\ lookup = [l \in Lookup |-> Unasked]
    /\ admin = NoWrite

Tick ==
    /\ now < MaxNow
    /\ now' = now + 1
    /\ held' = [held EXCEPT ![now + 1] = {strategy}]
    /\ UNCHANGED <<strategy, cache, lookup, admin>>

(* ------------------------- _StrategyCache.get -------------------------- *)

Fresh(p) == cache[p] # NoEntry /\ now - cache[p].at < TTL

Hit(l, p) ==
    /\ lookup[l].pc = "unasked" /\ Fresh(p)
    /\ lookup' = [lookup EXCEPT ![l] = [pc |-> "answered", on |-> p, since |-> now, value |-> cache[p].value]]
    /\ UNCHANGED <<now, strategy, held, cache, admin>>

\* The time is taken here, before the row is asked for.
Miss(l, p) ==
    /\ lookup[l].pc = "unasked" /\ ~Fresh(p)
    /\ lookup' = [lookup EXCEPT ![l] = [pc |-> "asking", on |-> p, since |-> now, value |-> NoEntry]]
    /\ UNCHANGED <<now, strategy, held, cache, admin>>

ReadRow(l) ==
    /\ lookup[l].pc = "asking"
    /\ lookup' = [lookup EXCEPT ![l].pc = "read", ![l].value = strategy]
    /\ UNCHANGED <<now, strategy, held, cache, admin>>

\* Mutant: the age of an entry counted from the answer instead of the question.
StampOnArrival(l) == now

\* The answer of the database arrives, at any time after it was given.
Stamp(l) == lookup[l].since

Keep(l) ==
    /\ lookup[l].pc = "read"
    /\ cache' = [cache EXCEPT ![lookup[l].on] = [value |-> lookup[l].value, at |-> Stamp(l)]]
    /\ lookup' = [lookup EXCEPT ![l].pc = "answered"]
    /\ UNCHANGED <<now, strategy, held, admin>>

\* The request goes on with what it was told; another one comes.
Use(l) ==
    /\ lookup[l].pc = "answered"
    /\ lookup' = [lookup EXCEPT ![l] = Unasked]
    /\ UNCHANGED <<now, strategy, held, cache, admin>>

(* --------------------------- the admin's side -------------------------- *)

\* The row is written in the open transaction, the entry of this process dropped.
WriteAndInvalidate(p, value) ==
    /\ admin.pc = "closed"
    /\ admin' = [pc |-> "open", value |-> value]
    /\ cache' = [q \in Process |-> IF q = p THEN NoEntry ELSE cache[q]]
    /\ UNCHANGED <<now, strategy, held, lookup>>

CreateStrategy(p, d) == strategy = NoStrategy /\ WriteAndInvalidate(p, d)  \* else 409
UpdateStrategy(p, d) == strategy # NoStrategy /\ WriteAndInvalidate(p, d)  \* else 404
DeleteStrategy(p) == strategy # NoStrategy /\ WriteAndInvalidate(p, NoStrategy)

CommitStrategy ==
    /\ admin.pc = "open"
    /\ strategy' = admin.value
    /\ held' = [held EXCEPT ![now] = @ \cup {admin.value}]
    /\ admin' = NoWrite
    /\ UNCHANGED <<now, cache, lookup>>

RollBackStrategy ==
    /\ admin.pc = "open"
    /\ admin' = NoWrite
    /\ UNCHANGED <<now, strategy, held, cache, lookup>>

CacheNext ==
    \/ Tick
    \/ \E l \in Lookup :
        \/ \E p \in Process : Hit(l, p) \/ Miss(l, p)
        \/ ReadRow(l) \/ Keep(l) \/ Use(l)
    \/ \E p \in AdminProcess :
        \/ \E d \in Definition : CreateStrategy(p, d) \/ UpdateStrategy(p, d)
        \/ DeleteStrategy(p)
    \/ CommitStrategy \/ RollBackStrategy

CacheSpec == CacheInit /\ [][CacheNext]_cacheVars

(* ------------------------------ properties ----------------------------- *)

\* Whatever the order of reads, invalidations and commits on whichever process, a
\* request is routed by a definition that was in force at some moment less than one
\* time to live before it asked, or since.
FreshWithinTTL ==
    \A l \in Lookup :
        lookup[l].pc = "answered" =>
            \E t \in 0..now : t > lookup[l].since - TTL /\ lookup[l].value \in held[t]
====
