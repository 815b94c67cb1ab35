---- MODULE Reservation ----
(***************************************************************************)
(* Slot reservation for one (user, provider) pair: the database            *)
(* transactions of concurrent requests running freeai_try_reserve          *)
(* (migration 0014) on the provider_stats row and the rate_events table.   *)
(*                                                                         *)
(* A request opens one transaction and keeps it until its response is      *)
(* ready, so the row lock of SELECT ... FOR UPDATE outlives the upstream   *)
(* call, and NOW(), the stamp of every reservation, is the time at which   *)
(* the transaction began.  The isolation level is READ COMMITTED: each     *)
(* statement sees what was committed when it starts, plus its own writes.  *)
(***************************************************************************)
EXTENDS Naturals, FiniteSets

CONSTANTS
    Tx,             \* requests, one transaction each
    None,           \* nobody holds the row lock
    NoRow,          \* the provider_stats row does not exist (yet)
    Caps,           \* [window, limit] records; a NULL limit is left out
    Quarantine,     \* durations an outcome may park the provider for
    RowExists,      \* does the provider_stats row exist at the start?
    MaxReserve,     \* bound: reservations one request attempts
    MaxClock        \* bound: the clock stops here

ASSUME NoneAssumption == None \notin Tx
ASSUME CapsAssumption ==
    Caps \subseteq [window : Nat, limit : Nat]
ASSUME BoundsAssumption ==
    /\ MaxReserve \in Nat
    /\ MaxClock \in Nat
    /\ Quarantine \subseteq Nat \ {0}
    /\ RowExists \in BOOLEAN

VARIABLES
    clock,      \* seconds
    row,        \* committed provider_stats row, or NoRow
    draft,      \* the lock holder's uncommitted version of the row
    lock,       \* transaction holding the row, or None
    pc,         \* where each transaction is
    start,      \* NOW() of each transaction
    tries,      \* reservations attempted by each transaction
    events      \* rate_events, committed or not

vars == <<clock, row, draft, lock, pc, start, tries, events>>

Row == [until : Nat, healthy : BOOLEAN]
Event == [tx : Tx, n : 1..MaxReserve, at : 0..MaxClock]
Finished == {"idle", "committed", "aborted"}
ASSUME NoRowAssumption == NoRow \notin Row

FreshRow == [until |-> 0, healthy |-> TRUE]

Init ==
    /\ clock = 0
    /\ row = IF RowExists THEN FreshRow ELSE NoRow
    /\ draft = NoRow
    /\ lock = None
    /\ pc = [t \in Tx |-> "idle"]
    /\ start = [t \in Tx |-> 0]
    /\ tries = [t \in Tx |-> 0]
    /\ events = {}

ReadRow(t) == IF lock = t THEN draft ELSE row

\* Mutant: the quarantine counts only when the breaker tripped too.
ParkedIfTripped(r, now) == ~r.healthy /\ r.until > now

\* freeai_try_reserve returns NULL on a parked row, and on an unhealthy one
\* whose quarantine was cleared.
Parked(r, now) == r.until > now \/ (~r.healthy /\ r.until = 0)

Visible(t) == {e \in events : e.tx = t \/ pc[e.tx] = "committed"}

\* Mutant: the event at the very edge of the window is forgotten.
CountedOpen(t, c) == {e \in Visible(t) : e.at + c.window > start[t]}

Counted(t, c) == {e \in Visible(t) : e.at + c.window >= start[t]}

\* Mutant: one reservation too many.
RoomOffByOne(t) == \A c \in Caps : Cardinality(Counted(t, c)) <= c.limit

Room(t) == \A c \in Caps : Cardinality(Counted(t, c)) < c.limit

Goto(t, label) == pc' = [pc EXCEPT ![t] = label]

Begin(t) ==
    /\ pc[t] = "idle"
    /\ Goto(t, "ready")
    /\ start' = [start EXCEPT ![t] = clock]
    /\ UNCHANGED <<clock, row, draft, lock, tries, events>>

\* Mutant: a plain SELECT, without FOR UPDATE.
ReadUnlocked(t) == UNCHANGED <<lock, draft>>

\* The row lock of FOR UPDATE or UPDATE: wait for it, keep it to the end.
TakeLock(t) ==
    /\ lock \in {None, t}
    /\ lock' = t
    /\ draft' = ReadRow(t)

\* freeai_try_reserve is called.  From here to its answer the transaction can
\* do nothing else: it waits for its SELECT ... FOR UPDATE.
Reserve(t) ==
    /\ pc[t] = "ready"
    /\ tries[t] < MaxReserve
    /\ tries' = [tries EXCEPT ![t] = @ + 1]
    /\ Goto(t, "reserve")
    /\ UNCHANGED <<clock, row, draft, lock, start, events>>

\* SELECT ... FOR UPDATE finds the row; a parked provider is given up at once,
\* its lock is not.
LockRow(t) ==
    /\ pc[t] = "reserve"
    /\ ReadRow(t) # NoRow
    /\ TakeLock(t)
    /\ Goto(t, IF Parked(ReadRow(t), start[t]) THEN "ready" ELSE "count")
    /\ UNCHANGED <<clock, row, start, tries, events>>

\* NOT FOUND: a row another transaction has inserted but not committed is
\* invisible, and FOR UPDATE does not wait for it.
MissRow(t) ==
    /\ pc[t] = "reserve"
    /\ ReadRow(t) = NoRow
    /\ Goto(t, "insert")
    /\ UNCHANGED <<clock, row, draft, lock, start, tries, events>>

\* INSERT ... ON CONFLICT DO NOTHING waits for an inserter in progress; on
\* conflict with a committed row it does nothing and locks nothing.
InsertRow(t) ==
    /\ pc[t] = "insert"
    /\ \/ /\ row = NoRow
          /\ lock = None
          /\ lock' = t
          /\ draft' = FreshRow
       \/ /\ row # NoRow
          /\ UNCHANGED <<lock, draft>>
    /\ Goto(t, "count")
    /\ UNCHANGED <<clock, row, start, tries, events>>

CountEvents(t) ==
    /\ pc[t] = "count"
    /\ Goto(t, IF Room(t) THEN "admit" ELSE "ready")
    /\ UNCHANGED <<clock, row, draft, lock, start, tries, events>>

\* The rate_events row is stamped with the start of the transaction; the
\* upstream call is sent now, and so may be later than its stamp.
InsertEvent(t) ==
    /\ pc[t] = "admit"
    /\ events' = events \cup {[tx |-> t, n |-> tries[t], at |-> start[t]]}
    /\ Goto(t, "calling")
    /\ UNCHANGED <<clock, row, draft, lock, start, tries>>

\* Mutant: a quarantine that ends before it starts.
OutcomesPast(r) == {FreshRow, r} \cup {[r EXCEPT !.until = clock - q] : q \in Quarantine}

\* What RateRepository.commit may leave in the row; module CircuitBreaker has
\* the details of which.
Outcomes(r) ==
    {FreshRow, r}
      \cup {[r EXCEPT !.until = clock + q] : q \in {d \in Quarantine : clock + d > r.until}}
      \cup {[until |-> clock + q, healthy |-> FALSE] : q \in Quarantine}

\* The upstream call ended: UPDATE provider_stats takes the row lock if this
\* transaction does not hold it yet.
Settle(t) ==
    /\ pc[t] = "calling"
    /\ ReadRow(t) # NoRow
    /\ lock \in {None, t}
    /\ lock' = t
    /\ draft' \in Outcomes(ReadRow(t))
    /\ Goto(t, "ready")
    /\ UNCHANGED <<clock, row, start, tries, events>>

\* Mutant: the transaction ends and its row lock does not.
KeepLock(t) == UNCHANGED <<lock, draft>>

Unlock(t) ==
    /\ lock' = IF lock = t THEN None ELSE lock
    /\ draft' = IF lock = t THEN NoRow ELSE draft

\* Some provider answered: session.commit().
Commit(t) ==
    /\ pc[t] = "ready"
    /\ row' = ReadRow(t)
    /\ Unlock(t)
    /\ Goto(t, "committed")
    /\ UNCHANGED <<clock, start, tries, events>>

\* Every provider failed, the client went away, or the pod died:
\* session.rollback(), or the server undoing an abandoned transaction.
Abort(t) ==
    /\ pc[t] \notin Finished
    /\ events' = {e \in events : e.tx # t}
    /\ Unlock(t)
    /\ Goto(t, "aborted")
    /\ UNCHANGED <<clock, row, start, tries>>

\* reset_health from the admin panel or a provider edit, in a transaction of
\* its own; its UPDATE waits for the row lock.
ResetHealth ==
    /\ row # NoRow
    /\ lock = None
    /\ row' = FreshRow
    /\ UNCHANGED <<clock, draft, lock, pc, start, tries, events>>

Tick ==
    /\ clock < MaxClock
    /\ clock' = clock + 1
    /\ UNCHANGED <<row, draft, lock, pc, start, tries, events>>

Step(t) ==
    \/ Begin(t) \/ Reserve(t) \/ LockRow(t) \/ MissRow(t) \/ InsertRow(t)
    \/ CountEvents(t) \/ InsertEvent(t) \/ Settle(t) \/ Commit(t) \/ Abort(t)

Next == (\E t \in Tx : Step(t)) \/ ResetHealth \/ Tick

Spec == Init /\ [][Next]_vars

\* A request that was started is carried on: the event loop schedules it and
\* its upstream calls time out.  Nothing but the lock itself ends the wait at
\* "reserve" or "insert", and an Abort is never counted on.
Progress(t) ==
    \/ Reserve(t) \/ LockRow(t) \/ MissRow(t) \/ InsertRow(t)
    \/ CountEvents(t) \/ InsertEvent(t) \/ Settle(t) \/ Commit(t)

FairSpec == Spec /\ \A t \in Tx : WF_vars(Progress(t))

-----------------------------------------------------------------------------
\* Types of the variables.
TypeOK ==
    /\ clock \in 0..MaxClock
    /\ row \in Row \cup {NoRow}
    /\ draft \in Row \cup {NoRow}
    /\ lock \in Tx \cup {None}
    /\ pc \in [Tx -> Finished \cup
                     {"ready", "reserve", "insert", "count", "admit", "calling"}]
    /\ start \in [Tx -> 0..MaxClock]
    /\ tries \in [Tx -> 0..MaxReserve]
    /\ events \in SUBSET Event

\* Between the window count and the end of the upstream call a request is
\* alone with its provider: no other transaction counts, admits or calls.
Serialized ==
    \A t, u \in Tx :
        /\ pc[t] \in {"count", "admit", "calling"}
        /\ pc[u] \in {"count", "admit", "calling"}
        => t = u

\* The quota promise, on the stamps the code counts by: no window of a cap's
\* length ever holds more standing reservations than the cap allows,
\* whatever the interleaving of counts, inserts, commits and rollbacks.
WindowCap ==
    \A c \in Caps : \A e \in events :
        Cardinality({f \in events : e.at <= f.at /\ f.at <= e.at + c.window}) <= c.limit

\* A provider somebody has parked is not called: when the upstream call is
\* about to start, the row this request would read is not parked.
QuarantineRespected ==
    \A t \in Tx : pc[t] = "admit" =>
        /\ ReadRow(t).until <= clock
        /\ ReadRow(t).healthy \/ ReadRow(t).until > 0

\* Why the cap holds once the row exists: whoever counts, admits or has a
\* standing reservation that is not committed holds the row lock, so a count
\* under the lock misses nothing and stays true until its insert.
RoomInAll(t) ==
    \A c \in Caps :
        Cardinality({e \in events : e.at + c.window >= start[t]}) < c.limit

LockDiscipline ==
    /\ row # NoRow
    /\ lock # None => draft # NoRow /\ pc[lock] \notin Finished
    /\ \A e \in events : pc[e.tx] = "committed" \/ lock = e.tx
    /\ \A t \in Tx :
          /\ pc[t] # "insert"
          /\ pc[t] \in {"count", "admit", "calling"} => lock = t
          /\ pc[t] \in {"reserve", "count", "admit", "calling"} => tries[t] > 0
          /\ start[t] <= clock
          /\ pc[t] \in {"count", "admit"} => ~Parked(draft, start[t])
          /\ pc[t] = "admit" => RoomInAll(t)

\* Whoever waits for the provider's row, be it behind its lock or behind an
\* insert that is not committed, gets it: every request that began ends, its
\* predecessors in the queue first.
RequestsEnd ==
    \A t \in Tx : pc[t] \notin Finished ~> pc[t] \in {"committed", "aborted"}

\* The interleaved transactions implement the atomic limiter of RateWindow.
Limiter == INSTANCE RateWindow WITH log <- events, Event <- Event, Caps <- Caps
ImplementsLimiter == Limiter!Spec
====
