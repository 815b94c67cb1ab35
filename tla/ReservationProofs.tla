---- MODULE ReservationProofs ----
(***************************************************************************)
(* Proofs about module Reservation, for any number of requests, any caps   *)
(* and any quarantine durations.                                           *)
(***************************************************************************)
EXTENDS Reservation, FiniteSetTheorems, TLAPS

\* A transaction past its first statement has attempted a reservation.
Attempted ==
    \A t \in Tx : pc[t] \in {"reserve", "insert", "count", "admit", "calling"} => tries[t] > 0

\* The row that freeai_try_reserve inserts is a row.
LEMMA FreshRowTyped == FreshRow \in Row
BY DEF FreshRow, Row

\* Whatever RateRepository.commit writes is a row.
LEMMA OutcomesTyped ==
    ASSUME NEW r \in Row, clock \in Nat
    PROVE  Outcomes(r) \subseteq Row
<1>1. ASSUME NEW q \in Quarantine
      PROVE  clock + q \in Nat
  BY BoundsAssumption
<1>2. \A q \in Quarantine : [r EXCEPT !.until = clock + q] \in Row
  BY <1>1 DEF Row
<1>3. \A q \in Quarantine : [until |-> clock + q, healthy |-> FALSE] \in Row
  BY <1>1 DEF Row
<1> HIDE DEF Row
<1> QED
  BY <1>2, <1>3, FreshRowTyped DEF Outcomes

\* Every variable keeps its type, whether or not the provider_stats row
\* exists at the start.
THEOREM TypeCorrect == Spec => [](TypeOK /\ Attempted)
<1> USE BoundsAssumption, NoneAssumption
<1>1. Init => TypeOK /\ Attempted
  BY FreshRowTyped DEF Init, TypeOK, Attempted, Finished
<1>2. TypeOK /\ Attempted /\ [Next]_vars => (TypeOK /\ Attempted)'
  <2> SUFFICES ASSUME TypeOK, Attempted, [Next]_vars
               PROVE  (TypeOK /\ Attempted)'
    OBVIOUS
  <2> USE DEF TypeOK, Attempted, Finished
  <2>1. ASSUME NEW t \in Tx, Begin(t) PROVE (TypeOK /\ Attempted)'
    BY <2>1 DEF Begin, Goto
  <2>0. ASSUME NEW t \in Tx, Reserve(t) PROVE (TypeOK /\ Attempted)'
    BY <2>0 DEF Reserve, Goto
  <2>2. ASSUME NEW t \in Tx, LockRow(t) PROVE (TypeOK /\ Attempted)'
    BY <2>2 DEF LockRow, TakeLock, Goto, ReadRow
  <2>3. ASSUME NEW t \in Tx, MissRow(t) PROVE (TypeOK /\ Attempted)'
    BY <2>3 DEF MissRow, Goto
  <2>4. ASSUME NEW t \in Tx, InsertRow(t) PROVE (TypeOK /\ Attempted)'
    BY <2>4, FreshRowTyped DEF InsertRow, Goto
  <2>5. ASSUME NEW t \in Tx, CountEvents(t) PROVE (TypeOK /\ Attempted)'
    BY <2>5 DEF CountEvents, Goto
  <2>6. ASSUME NEW t \in Tx, InsertEvent(t) PROVE (TypeOK /\ Attempted)'
    <3>1. [tx |-> t, n |-> tries[t], at |-> start[t]] \in Event
      BY <2>6 DEF InsertEvent, Event
    <3> QED
      BY <2>6, <3>1 DEF InsertEvent, Goto
  <2>7. ASSUME NEW t \in Tx, Settle(t) PROVE (TypeOK /\ Attempted)'
    <3>1. ReadRow(t) \in Row
      BY <2>7 DEF Settle, ReadRow
    <3>2. draft' \in Row
      BY <2>7, <3>1, OutcomesTyped DEF Settle
    <3> QED
      BY <2>7, <3>2 DEF Settle, Goto
  <2>8. ASSUME NEW t \in Tx, Commit(t) PROVE (TypeOK /\ Attempted)'
    BY <2>8 DEF Commit, Goto, Unlock, ReadRow
  <2>9. ASSUME NEW t \in Tx, Abort(t) PROVE (TypeOK /\ Attempted)'
    BY <2>9 DEF Abort, Goto, Unlock
  <2>10. CASE ResetHealth
    BY <2>10, FreshRowTyped DEF ResetHealth
  <2>11. CASE Tick
    BY <2>11 DEF Tick
  <2>12. CASE UNCHANGED vars
    BY <2>12 DEF vars
  <2> QED
    BY <2>0, <2>1, <2>2, <2>3, <2>4, <2>5, <2>6, <2>7, <2>8, <2>9, <2>10, <2>11, <2>12
    DEF Next, Step
<1> QED
  BY <1>1, <1>2, PTL DEF Spec

-----------------------------------------------------------------------------
(***************************************************************************)
(* From here on the provider_stats row exists at the start.                *)
(***************************************************************************)

IInv ==
    /\ TypeOK
    /\ IsFiniteSet(events)
    /\ LockDiscipline
    /\ WindowCap

\* Under the lock a count sees every standing reservation, so the room it
\* finds is room among all of them.
LEMMA CountMissesNothing ==
    ASSUME IInv, NEW t \in Tx, lock = t, Room(t)
    PROVE  RoomInAll(t)
<1>1. Visible(t) = events
  BY DEF IInv, LockDiscipline, Visible
<1> QED
  BY <1>1 DEF Room, RoomInAll, Counted

\* Adding one reservation where there is room keeps every window within its
\* cap.
LEMMA AddWithinCap ==
    ASSUME IInv, NEW t \in Tx, RoomInAll(t), NEW e0 \in Event, e0.at = start[t]
    PROVE  LET after == events \cup {e0}
           IN  \A c \in Caps : \A e \in after :
                 Cardinality({f \in after : e.at <= f.at /\ f.at <= e.at + c.window})
                   <= c.limit
<1> DEFINE after == events \cup {e0}
           W(S, e, c) == {f \in S : e.at <= f.at /\ f.at <= e.at + c.window}
<1> SUFFICES ASSUME NEW c \in Caps, NEW e \in after
             PROVE  Cardinality(W(after, e, c)) <= c.limit
  OBVIOUS
<1> DEFINE recent == {f \in events : f.at + c.window >= start[t]}
<1>1. c.window \in Nat /\ c.limit \in Nat
  BY CapsAssumption
<1>2. \A f \in after : f.at \in Nat
  BY BoundsAssumption DEF IInv, TypeOK, Event
<1>3. IsFiniteSet(recent) /\ Cardinality(recent) \in Nat /\ Cardinality(recent) < c.limit
  <2>1. recent \in SUBSET events /\ IsFiniteSet(events)
    BY DEF IInv
  <2>2. IsFiniteSet(recent)
    BY <2>1, FS_Subset
  <2> QED
    BY <2>2, FS_CardinalityType DEF RoomInAll
<1>4. CASE e.at <= e0.at /\ e0.at <= e.at + c.window
  <2>1. W(after, e, c) \in SUBSET (recent \cup {e0})
    BY <1>1, <1>2, <1>4
  <2>2. /\ IsFiniteSet(recent \cup {e0})
        /\ Cardinality(recent \cup {e0}) <= Cardinality(recent) + 1
        /\ Cardinality(recent \cup {e0}) \in Nat
    <3> HIDE DEF recent
    <3>1. /\ IsFiniteSet(recent \cup {e0})
          /\ Cardinality(recent \cup {e0})
               = IF e0 \in recent THEN Cardinality(recent) ELSE Cardinality(recent) + 1
      BY <1>3, FS_AddElement
    <3> QED
      BY <1>3, <3>1
  <2>3. /\ Cardinality(W(after, e, c)) <= Cardinality(recent \cup {e0})
        /\ Cardinality(W(after, e, c)) \in Nat
    <3> HIDE DEF recent, W, after
    <3> QED
      BY <2>1, <2>2, FS_Subset, FS_CardinalityType
  <2> HIDE DEF recent, W, after
  <2> QED
    BY <1>1, <1>3, <2>2, <2>3
<1>5. CASE ~(e.at <= e0.at /\ e0.at <= e.at + c.window)
  <2>1. e \in events
    BY <1>1, <1>2, <1>5
  <2>2. W(after, e, c) = W(events, e, c)
    BY <1>5
  <2> QED
    BY <2>1, <2>2 DEF IInv, WindowCap
<1> QED
  BY <1>4, <1>5

\* With the row in place, the initial state satisfies the inductive invariant.
LEMMA InductiveInit == RowExists /\ Init => IInv
<1> SUFFICES ASSUME RowExists, Init PROVE IInv
  OBVIOUS
<1>1. TypeOK
  BY BoundsAssumption, NoneAssumption, FreshRowTyped DEF Init, TypeOK, Finished
<1>2. IsFiniteSet(events)
  BY FS_EmptySet DEF Init
<1>3. LockDiscipline
  BY FreshRowTyped, NoRowAssumption DEF Init, LockDiscipline, Finished
<1>4. WindowCap
  BY DEF Init, WindowCap
<1> QED
  BY <1>1, <1>2, <1>3, <1>4 DEF IInv

\* No row is read without a lock and no reservation is uncommitted without
\* one: each action, given types before and after the step.
LEMMA LockDisciplineStep ==
    ASSUME IInv, TypeOK', [Next]_vars
    PROVE  LockDiscipline'
<1> USE NoneAssumption, NoRowAssumption, BoundsAssumption
    DEF IInv, TypeOK, LockDiscipline, Finished
<1>1. ASSUME NEW t \in Tx, Begin(t) PROVE LockDiscipline'
  BY <1>1 DEF Begin, Goto, RoomInAll
<1>0. ASSUME NEW t \in Tx, Reserve(t) PROVE LockDiscipline'
  BY <1>0 DEF Reserve, Goto, RoomInAll
<1>2. ASSUME NEW t \in Tx, LockRow(t) PROVE LockDiscipline'
  <2>1. ReadRow(t) # NoRow /\ draft' = ReadRow(t) /\ lock' = t /\ row' = row
    BY <1>2 DEF LockRow, TakeLock
  <2>2. \A u \in Tx : u # t => pc[u] \in Finished \cup {"ready", "reserve"}
    BY <1>2 DEF LockRow, TakeLock
  <2>3. pc'[t] \in {"ready", "count"} /\ (pc'[t] = "count" => ~Parked(draft', start[t]))
    BY <1>2 DEF LockRow, TakeLock, Goto
  <2>4. \A u \in Tx : u # t => pc'[u] = pc[u]
    BY <1>2 DEF LockRow, TakeLock, Goto
  <2>5. \A e \in events : pc'[e.tx] = "committed" \/ lock' = e.tx
    BY <1>2, <2>4 DEF LockRow, TakeLock, Event
  <2>6. UNCHANGED <<clock, start, tries, events>> /\ tries[t] > 0
    BY <1>2 DEF LockRow, TakeLock
  <2>7. start[t] <= clock
    BY <1>2
  <2> QED
    BY <2>1, <2>2, <2>3, <2>4, <2>5, <2>6, <2>7
<1>3. ASSUME NEW t \in Tx, MissRow(t) PROVE LockDiscipline'
  BY <1>3 DEF MissRow, ReadRow
<1>4. ASSUME NEW t \in Tx, InsertRow(t) PROVE LockDiscipline'
  BY <1>4 DEF InsertRow
<1>5. ASSUME NEW t \in Tx, CountEvents(t) PROVE LockDiscipline'
  <2>1. Room(t) => RoomInAll(t)
    BY <1>5, CountMissesNothing DEF CountEvents
  <2> QED
    BY <1>5, <2>1 DEF CountEvents, Goto, RoomInAll
<1>6. ASSUME NEW t \in Tx, InsertEvent(t) PROVE LockDiscipline'
  BY <1>6 DEF InsertEvent, Goto, RoomInAll
<1>7. ASSUME NEW t \in Tx, Settle(t) PROVE LockDiscipline'
  <2>1. ReadRow(t) \in Row
    BY <1>7 DEF Settle, ReadRow
  <2>2. draft' \in Row
    BY <1>7, <2>1, OutcomesTyped DEF Settle
  <2> QED
    BY <1>7, <2>2 DEF Settle, Goto, RoomInAll
<1>8. ASSUME NEW t \in Tx, Commit(t) PROVE LockDiscipline'
  BY <1>8 DEF Commit, Goto, Unlock, ReadRow, RoomInAll
<1>9. ASSUME NEW t \in Tx, Abort(t) PROVE LockDiscipline'
  BY <1>9 DEF Abort, Goto, Unlock, RoomInAll, Event
<1>10. CASE ResetHealth
  BY <1>10, FreshRowTyped DEF ResetHealth, RoomInAll
<1>11. CASE Tick
  BY <1>11 DEF Tick, RoomInAll
<1>12. CASE UNCHANGED vars
  BY <1>12 DEF vars, RoomInAll
<1> QED
  BY <1>0, <1>1, <1>2, <1>3, <1>4, <1>5, <1>6, <1>7, <1>8, <1>9, <1>10, <1>11, <1>12
  DEF Next, Step

\* Only two actions change the reservations: an insert adds one where there
\* is room, an abort takes some away.
LEMMA EventsStep ==
    ASSUME IInv, [Next]_vars
    PROVE  \/ events' = events
           \/ events' \subseteq events
           \/ \E t \in Tx, e0 \in Event :
                RoomInAll(t) /\ e0.at = start[t] /\ events' = events \cup {e0}
<1>1. ASSUME NEW t \in Tx, InsertEvent(t)
      PROVE  \E e0 \in Event :
               RoomInAll(t) /\ e0.at = start[t] /\ events' = events \cup {e0}
  <2>1. [tx |-> t, n |-> tries[t], at |-> start[t]] \in Event
    BY <1>1, BoundsAssumption DEF InsertEvent, IInv, TypeOK, LockDiscipline, Event
  <2> QED
    BY <1>1, <2>1 DEF InsertEvent, IInv, LockDiscipline
<1>2. ASSUME NEW t \in Tx, Abort(t) PROVE events' \subseteq events
  BY <1>2 DEF Abort
<1>3. ASSUME NEW t \in Tx,
             \/ Begin(t) \/ Reserve(t) \/ LockRow(t) \/ MissRow(t) \/ InsertRow(t)
             \/ CountEvents(t) \/ Settle(t) \/ Commit(t)
      PROVE  events' = events
  BY <1>3 DEF Begin, Reserve, LockRow, MissRow, InsertRow, CountEvents, Settle, Commit
<1>4. CASE ResetHealth \/ Tick \/ UNCHANGED vars
  BY <1>4 DEF ResetHealth, Tick, vars
<1> QED
  BY <1>1, <1>2, <1>3, <1>4 DEF Next, Step

\* Every step keeps every window within its cap.
LEMMA CapStep ==
    ASSUME IInv, [Next]_vars
    PROVE  IsFiniteSet(events') /\ WindowCap'
<1>1. CASE events' = events
  BY <1>1 DEF IInv, WindowCap
<1>2. CASE events' \subseteq events
  <2>1. IsFiniteSet(events')
    BY <1>2, FS_Subset DEF IInv
  <2>2. WindowCap'
    <3> SUFFICES ASSUME NEW c \in Caps, NEW e \in events'
                 PROVE  Cardinality({f \in events' : e.at <= f.at /\ f.at <= e.at + c.window})
                          <= c.limit
      BY DEF WindowCap
    <3> DEFINE W(S) == {f \in S : e.at <= f.at /\ f.at <= e.at + c.window}
    <3>1. W(events') \in SUBSET W(events) /\ W(events) \in SUBSET events
      BY <1>2
    <3>2. Cardinality(W(events)) <= c.limit
      BY <1>2 DEF IInv, WindowCap
    <3> HIDE DEF W
    <3>3. /\ IsFiniteSet(W(events)) /\ IsFiniteSet(W(events'))
          /\ Cardinality(W(events')) <= Cardinality(W(events))
      BY <3>1, FS_Subset DEF IInv
    <3>4. Cardinality(W(events)) \in Nat /\ Cardinality(W(events')) \in Nat
      BY <3>3, FS_CardinalityType
    <3>5. Cardinality(W(events')) <= c.limit
      BY <3>2, <3>3, <3>4, CapsAssumption
    <3> QED
      BY <3>5 DEF W
  <2> QED
    BY <2>1, <2>2
<1>3. CASE \E t \in Tx, e0 \in Event :
             RoomInAll(t) /\ e0.at = start[t] /\ events' = events \cup {e0}
  <2>1. PICK t \in Tx, e0 \in Event :
             RoomInAll(t) /\ e0.at = start[t] /\ events' = events \cup {e0}
    BY <1>3
  <2>2. IsFiniteSet(events')
    BY <2>1, FS_AddElement DEF IInv
  <2> QED
    BY <2>1, <2>2, AddWithinCap DEF WindowCap
<1> QED
  BY <1>1, <1>2, <1>3, EventsStep

\* IInv holds in every reachable state, provided the row exists at the start.
LEMMA Inductive ==
    ASSUME RowExists PROVE Spec => []IInv
<1>1. Init => IInv
  BY InductiveInit
<1>2. TypeOK' /\ IInv /\ [Next]_vars => IInv'
  BY LockDisciplineStep, CapStep DEF IInv
<1> QED
  BY <1>1, <1>2, TypeCorrect, PTL DEF Spec

\* The rate limit holds: with the provider_stats row in place, no window of a
\* cap's length ever holds more standing reservations than the cap allows.
THEOREM CapHolds ==
    ASSUME RowExists PROVE Spec => []WindowCap
<1>1. IInv => WindowCap
  BY DEF IInv
<1> QED
  BY <1>1, Inductive, PTL

\* At most one request at a time counts, admits or waits for the provider.
THEOREM OneAtATime ==
    ASSUME RowExists PROVE Spec => []Serialized
<1>1. IInv => Serialized
  BY DEF IInv, LockDiscipline, Serialized
<1> QED
  BY <1>1, Inductive, PTL

\* No request is admitted to a provider that is parked at that moment.
THEOREM NoCallWhileParked ==
    ASSUME RowExists PROVE Spec => []QuarantineRespected
<1>1. IInv => QuarantineRespected
  <2> SUFFICES ASSUME IInv, NEW t \in Tx, pc[t] = "admit"
               PROVE  /\ ReadRow(t).until <= clock
                      /\ ReadRow(t).healthy \/ ReadRow(t).until > 0
    BY DEF QuarantineRespected
  <2>1. lock = t /\ start[t] <= clock /\ ~Parked(draft, start[t]) /\ draft # NoRow
    BY NoneAssumption DEF IInv, LockDiscipline, TypeOK
  <2>2. draft \in Row /\ start[t] \in Nat /\ clock \in Nat
    BY <2>1, BoundsAssumption DEF IInv, TypeOK
  <2> QED
    BY <2>1, <2>2 DEF Parked, ReadRow, Row
<1> QED
  BY <1>1, Inductive, PTL

\* The cardinality that RateWindow counts with is the one of this module.
LEMMA SameCardinality == \A S : Limiter!Cardinality(S) = Cardinality(S)
BY DEF Limiter!Cardinality, Cardinality, Limiter!IsFiniteSet, IsFiniteSet

\* The transactions implement the atomic limiter: each of their steps admits
\* one reservation with room in every window, withdraws some, or changes no
\* reservation at all.
THEOREM LimiterImplemented ==
    ASSUME RowExists PROVE Spec => ImplementsLimiter
<1>1. Init => Limiter!Init
  BY DEF Init, Limiter!Init
<1>2. IInv /\ [Next]_vars => [Limiter!Next]_events
  <2> SUFFICES ASSUME IInv, [Next]_vars, events' # events
               PROVE  Limiter!Next
    OBVIOUS
  <2>1. CASE events' \subseteq events
    <3>1. Limiter!Withdraw(events \ events')
      BY <2>1 DEF Limiter!Withdraw
    <3> QED
      BY <3>1 DEF Limiter!Next
  <2>2. CASE \E t \in Tx, e0 \in Event :
               RoomInAll(t) /\ e0.at = start[t] /\ events' = events \cup {e0}
    <3>1. PICK t \in Tx, e0 \in Event :
               RoomInAll(t) /\ e0.at = start[t] /\ events' = events \cup {e0}
      BY <2>2
    <3>2. ASSUME NEW c \in Caps
          PROVE  {f \in events : f.at + c.window >= e0.at}
                   = {f \in events : f.at + c.window >= start[t]}
      BY <3>1
    <3>3. \A c \in Caps :
             Cardinality({f \in events : f.at + c.window >= e0.at}) < c.limit
      BY <3>1, <3>2 DEF RoomInAll
    <3>4. Limiter!Admit(e0)
      BY <3>1, <3>3, SameCardinality DEF Limiter!Admit
    <3> QED
      BY <3>4 DEF Limiter!Next
  <2> QED
    BY <2>1, <2>2, EventsStep
<1> QED
  BY <1>1, <1>2, Inductive, PTL DEF Spec, ImplementsLimiter, Limiter!Spec
====
