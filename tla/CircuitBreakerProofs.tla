---- MODULE CircuitBreakerProofs ----
(***************************************************************************)
(* What CircuitBreaker promises for every breaker setting, quarantine and  *)
(* bound, by one inductive invariant, IInv.                                *)
(***************************************************************************)
EXTENDS CircuitBreaker, TLAPS

Typed ==
    /\ clock \in 1..MaxClock
    /\ row \in Row
    /\ calling \in BOOLEAN
    /\ recent \in Seq(Nat)
    /\ Len(recent) <= MaxRecent
    /\ lastTrip \in Nat

ShortStreak == row.streak = 0 \/ \E cfg \in Configs : row.streak < cfg.threshold

\* A call in progress started when no quarantine was running, and nothing can
\* start one while it lasts.
NotParkedWhileCalling == calling => row.until <= clock

\* The streak counter is backed by as many remembered failures, none of them
\* older than the stamp of the streak.
Evidence ==
    row.streak > 0 =>
        /\ row.streak <= Len(recent)
        /\ row.since > 0 =>
              \A i \in (Len(recent) - row.streak + 1)..Len(recent) :
                 row.since <= recent[i]

\* Stamps lie in the past.
SinceKnown == row.since <= clock

IInv ==
    /\ Typed
    /\ SinceKnown
    /\ ShortStreak
    /\ NoLockout
    /\ NotParkedWhileCalling
    /\ Evidence

-----------------------------------------------------------------------------
\* The streak after a failure that does not trip is shorter than the threshold,
\* so the failures behind it still fit in the history.
LEMMA NewStreakFits ==
    ASSUME IInv, NEW cfg \in Configs, ~Trips(row, cfg)
    PROVE  /\ NewStreak(row, cfg) \in Nat \ {0}
           /\ NewStreak(row, cfg) < cfg.threshold
           /\ NewStreak(row, cfg) <= MaxRecent
<1>1. cfg \in Config /\ cfg.threshold \in Nat /\ cfg.threshold <= MaxRecent
  BY ConfigAssumption, BoundsAssumption DEF Config
<1>2. row.streak \in Nat
  BY DEF IInv, Typed, Row
<1>3. NewStreak(row, cfg) \in Nat \ {0}
  BY <1>2 DEF NewStreak, InStreak
<1> QED
  BY <1>1, <1>3, BoundsAssumption DEF Trips, Greatest

\* What a sequence remembers after one more failure.
LEMMA RememberKeeps ==
    ASSUME Typed
    PROVE  /\ Remember(recent) \in Seq(Nat)
           /\ MaxRecent > 0 => Len(Remember(recent)) <= MaxRecent
           /\ Len(recent) < MaxRecent =>
                 /\ Len(Remember(recent)) = Len(recent) + 1
                 /\ \A i \in 1..Len(recent) : Remember(recent)[i] = recent[i]
                 /\ Remember(recent)[Len(recent) + 1] = clock
           /\ Len(recent) = MaxRecent /\ MaxRecent > 0 =>
                 /\ Len(Remember(recent)) = Len(recent)
                 /\ \A i \in 1..(Len(recent) - 1) : Remember(recent)[i] = recent[i + 1]
                 /\ Remember(recent)[Len(recent)] = clock
<1>1. clock \in Nat /\ MaxRecent \in Nat /\ recent \in Seq(Nat)
  BY BoundsAssumption DEF Typed
<1>2. CASE Len(recent) < MaxRecent
  BY <1>1, <1>2 DEF Remember
<1>3. CASE Len(recent) = MaxRecent /\ MaxRecent > 0
  <2>1. recent # <<>>
    BY <1>3, <1>1
  <2>2. /\ Tail(recent) \in Seq(Nat)
        /\ Len(Tail(recent)) = Len(recent) - 1
        /\ \A i \in 1..(Len(recent) - 1) : Tail(recent)[i] = recent[i + 1]
    BY <2>1, <1>1
  <2>3. Remember(recent) = Append(Tail(recent), clock)
    BY <1>3, <1>1 DEF Remember
  <2> QED
    BY <1>1, <1>3, <2>2, <2>3
<1> QED
  BY <1>1, <1>2, <1>3, BoundsAssumption DEF Typed

\* A success, a reset or a trip forgets every failure.
LEMMA NothingRemembered == <<>> \in Seq(Nat) /\ Len(<<>>) = 0
OBVIOUS

\* A fresh provider_stats row satisfies the inductive invariant.
LEMMA InductiveInit == Init => IInv
<1> SUFFICES ASSUME Init PROVE IInv
  OBVIOUS
<1> USE DEF Init, NewRow
<1>1. row \in Row
  BY DEF Row
<1>2. recent \in Seq(Nat) /\ Len(recent) <= MaxRecent
  BY BoundsAssumption, NothingRemembered
<1>3. clock \in 1..MaxClock /\ lastTrip \in Nat
  BY BoundsAssumption
<1>5. calling \in BOOLEAN
  BY Zenon
<1>4. Typed
  BY <1>1, <1>2, <1>3, <1>5, Zenon DEF Typed
<1> QED
  BY <1>4 DEF IInv, ShortStreak, NoLockout, NotParkedWhileCalling, Evidence, SinceKnown

\* The cooldown of a trip is a number, whatever the level.
LEMMA CooldownTyped ==
    ASSUME IInv, NEW cfg \in Configs PROVE Cooldown(row, cfg) \in Nat
<1>1. Least(row.level, MaxLevel) \in 0..MaxLevel
  BY DoublingAssumption DEF IInv, Typed, Row, Least
<1>2. Doubling[Least(row.level, MaxLevel)] \in Nat
  BY <1>1, DoublingAssumption
<1>3. cfg.base \in Nat /\ cfg.max \in Nat
  BY ConfigAssumption DEF Config
<1>4. cfg.base * Doubling[Least(row.level, MaxLevel)] \in Nat
  BY <1>2, <1>3
<1> QED
  BY <1>3, <1>4 DEF Cooldown, Least

\* commit() on the failure that reaches the threshold keeps the invariant.
LEMMA TripInductive ==
    ASSUME IInv, NEW cfg \in Configs, Fail(cfg), Trips(row, cfg)
    PROVE  IInv'
<1>1. /\ row' = Tripped(row, cfg)
      /\ calling' = FALSE /\ recent' = <<>> /\ clock' = clock
      /\ lastTrip' = Cooldown(row, cfg)
  BY DEF Fail, AfterFailure
<1>2. Cooldown(row, cfg) \in Nat
  BY CooldownTyped
<1>3. clock \in Nat \ {0} /\ row.level \in Nat
  BY DEF IInv, Typed, Row
<1>4. /\ row' = [healthy |-> FALSE, until |-> clock + Cooldown(row, cfg),
                 streak |-> 0, since |-> 0, level |-> row.level + 1]
      /\ row' \in Row
  BY <1>1, <1>2, <1>3 DEF Tripped, Row
<1>5. Typed'
  <2>1. recent' \in Seq(Nat) /\ Len(recent') <= MaxRecent
    BY <1>1, BoundsAssumption, NothingRemembered
  <2>2. clock' \in 1..MaxClock /\ calling' \in BOOLEAN /\ lastTrip' \in Nat
    BY <1>1, <1>2 DEF IInv, Typed
  <2> QED
    BY <1>4, <2>1, <2>2, Zenon DEF Typed
<1> QED
  BY <1>1, <1>2, <1>3, <1>4, <1>5
     DEF IInv, ShortStreak, NoLockout, NotParkedWhileCalling, Evidence, SinceKnown

\* commit() on a failure below the threshold keeps the invariant: the streak it
\* writes never runs ahead of the failures that happened.
LEMMA NoTripInductive ==
    ASSUME IInv, NEW cfg \in Configs, Fail(cfg), ~Trips(row, cfg)
    PROVE  IInv'
<1> DEFINE new == NewStreak(row, cfg)
<1>1. /\ row' = [row EXCEPT !.streak = new,
                            !.since = IF InStreak(row, cfg) THEN @ ELSE clock]
      /\ calling' = FALSE /\ recent' = Remember(recent) /\ clock' = clock
      /\ lastTrip' = lastTrip
  BY DEF Fail, AfterFailure
<1>2. new \in Nat \ {0} /\ new < cfg.threshold /\ new <= MaxRecent
  BY NewStreakFits
<1>3. Typed
  BY DEF IInv
<1>4. /\ row' \in Row /\ row'.healthy = row.healthy /\ row'.until = row.until
      /\ row'.streak = new
      /\ row'.since = IF InStreak(row, cfg) THEN row.since ELSE clock
  <2>1. row \in Row /\ clock \in Nat
    BY <1>3 DEF Typed
  <2> DEFINE stamp == IF InStreak(row, cfg) THEN row.since ELSE clock
  <2>2. row' = [row EXCEPT !.streak = new, !.since = stamp]
    BY <1>1, <2>1 DEF Row
  <2>3. stamp \in Nat
    BY <2>1 DEF Row
  <2> HIDE DEF stamp, new
  <2>4. /\ row' \in Row /\ row'.healthy = row.healthy /\ row'.until = row.until
        /\ row'.streak = new /\ row'.since = stamp
    BY <1>2, <2>1, <2>2, <2>3 DEF Row
  <2> QED
    BY <2>4 DEF stamp
<1>5. Typed'
  <2>1. recent' \in Seq(Nat) /\ Len(recent') <= MaxRecent
    BY <1>1, <1>3, RememberKeeps, BoundsAssumption
  <2> QED
    BY <1>1, <1>3, <1>4, <2>1 DEF Typed
<1>6. ShortStreak' /\ NoLockout' /\ NotParkedWhileCalling'
  BY <1>1, <1>2, <1>4 DEF IInv, ShortStreak, NoLockout, NotParkedWhileCalling
<1>7. Evidence'
  <2>1. Len(recent) \in 0..MaxRecent /\ clock \in Nat /\ recent \in Seq(Nat)
    BY <1>3, BoundsAssumption DEF Typed
  <2>2. \/ /\ InStreak(row, cfg) /\ new = row.streak + 1 /\ row.streak \in Nat \ {0}
           /\ row.since > 0 /\ row'.since = row.since /\ row.since \in Nat
           /\ clock >= row.since
           /\ row.streak <= Len(recent)
           /\ \A i \in (Len(recent) - row.streak + 1)..Len(recent) : row.since <= recent[i]
        \/ new = 1 /\ row'.since = clock
    <3>1. CASE InStreak(row, cfg)
      <4>1. row.streak > 0 /\ row.since > 0 /\ row.streak \in Nat /\ row.since \in Nat
        BY <3>1, <1>3 DEF InStreak, Typed, Row
      <4>2. /\ row.streak <= Len(recent)
            /\ \A i \in (Len(recent) - row.streak + 1)..Len(recent) : row.since <= recent[i]
        BY <4>1 DEF IInv, Evidence
      <4>3. row.since <= clock
        BY <4>1 DEF IInv, SinceKnown
      <4> QED
        BY <3>1, <4>1, <4>2, <4>3, <1>4 DEF NewStreak
    <3>2. CASE ~InStreak(row, cfg)
      BY <3>2, <1>4 DEF NewStreak
    <3> QED
      BY <3>1, <3>2
  <2>3. CASE Len(recent) < MaxRecent
    <3>1. /\ Len(recent') = Len(recent) + 1
          /\ \A i \in 1..Len(recent) : recent'[i] = recent[i]
          /\ recent'[Len(recent) + 1] = clock
      BY <1>1, <1>3, <2>3, RememberKeeps
    <3>2. new <= Len(recent')
      BY <2>1, <2>2, <3>1
    <3>3. ASSUME NEW i \in (Len(recent') - new + 1)..Len(recent')
          PROVE  row'.since <= recent'[i]
      <4>1. CASE i = Len(recent) + 1
        BY <4>1, <2>1, <2>2, <3>1
      <4>2. CASE i # Len(recent) + 1
        <5>1. i \in 1..Len(recent) /\ new # 1
          BY <4>2, <3>1, <3>2, <2>1, <1>2
        <5>2. i \in (Len(recent) - row.streak + 1)..Len(recent)
          BY <5>1, <2>1, <2>2, <3>1
        <5> QED
          BY <5>1, <5>2, <2>2, <3>1
      <4> QED
        BY <4>1, <4>2
    <3> QED
      BY <1>4, <3>2, <3>3 DEF Evidence
  <2>4. CASE Len(recent) = MaxRecent
    <3>1. /\ Len(recent') = Len(recent)
          /\ \A i \in 1..(Len(recent) - 1) : recent'[i] = recent[i + 1]
          /\ recent'[Len(recent)] = clock
      BY <1>1, <1>3, <2>4, RememberKeeps, BoundsAssumption
    <3>2. new <= Len(recent')
      BY <1>2, <2>1, <2>4, <3>1
    <3>3. ASSUME NEW i \in (Len(recent') - new + 1)..Len(recent')
          PROVE  row'.since <= recent'[i]
      <4>1. CASE i = Len(recent)
        BY <4>1, <2>1, <2>2, <3>1
      <4>2. CASE i # Len(recent)
        <5>1. i \in 1..(Len(recent) - 1) /\ new # 1
          BY <4>2, <3>1, <3>2, <2>1, <1>2
        <5>2. i + 1 \in (Len(recent) - row.streak + 1)..Len(recent)
          BY <5>1, <2>1, <2>2, <3>1
        <5> QED
          BY <5>1, <5>2, <2>2, <3>1
      <4> QED
        BY <4>1, <4>2
    <3> QED
      BY <1>4, <3>2, <3>3 DEF Evidence
  <2> QED
    BY <2>1, <2>3, <2>4, BoundsAssumption
<1> QED
  BY <1>5, <1>6, <1>7, <1>1, <1>3, <1>4 DEF IInv, SinceKnown, Typed

\* commit(ok=True) leaves a healthy, unparked row without a streak.
LEMMA SuccessHeals ==
    ASSUME row \in Row, Succeed
    PROVE  /\ row' \in Row /\ row'.healthy /\ row'.until = 0 /\ row'.streak = 0
           /\ row'.since = 0 /\ row'.level <= row.level
<1>1. row' = AfterSuccess(row) /\ row.level \in Nat
  BY DEF Succeed, Row
<1>2. row'.healthy = TRUE /\ row' \in Row
  BY <1>1 DEF AfterSuccess, Row
<1>3. row'.level \in {0, row.level} /\ row'.until = 0 /\ row'.streak = 0
      /\ row'.since = 0
  BY <1>1 DEF AfterSuccess, Row
<1> QED
  BY <1>1, <1>2, <1>3

\* So does reset_health, which leaves the level and the start of the streak.
LEMMA ResetHeals ==
    ASSUME row \in Row, ResetHealth
    PROVE  /\ row' \in Row /\ row'.healthy /\ row'.until = 0 /\ row'.streak = 0
           /\ row'.since = row.since /\ row'.level <= row.level
<1>1. row' = AfterReset(row) /\ row.level \in Nat
  BY DEF ResetHealth, Row
<1>2. row'.healthy = TRUE /\ row' \in Row
  BY <1>1 DEF AfterReset, Row
<1>3. row'.level \in {0, row.level} /\ row'.until = 0 /\ row'.streak = 0
      /\ row'.since = row.since
  BY <1>1 DEF AfterReset, Row
<1> QED
  BY <1>1, <1>2, <1>3

\* Every action but a breaker failure keeps the invariant.
LEMMA OthersInductive ==
    ASSUME IInv,
           Reserve \/ Succeed \/ FailBenign \/ Undo \/ ResetHealth \/ Tick
              \/ UNCHANGED vars
    PROVE  IInv'
<1>1. /\ clock \in Nat \ {0} /\ row \in Row /\ recent \in Seq(Nat) /\ Typed
      /\ Len(recent) <= MaxRecent
  BY DEF IInv, Typed
<1>2. CASE Reserve
  BY <1>1, <1>2
     DEF Reserve, Parked, IInv, Typed, Row, SinceKnown, ShortStreak, NoLockout,
         NotParkedWhileCalling, Evidence
<1>3. CASE Succeed
  <2>1. row' \in Row /\ row'.healthy /\ row'.until = 0 /\ row'.streak = 0 /\ row'.since = 0
    BY <1>1, <1>3, SuccessHeals
  <2>2. /\ recent' \in Seq(Nat) /\ Len(recent') <= MaxRecent
        /\ clock' = clock /\ ~calling' /\ lastTrip' \in Nat
    BY <1>3, NothingRemembered, BoundsAssumption DEF Succeed
  <2>3. calling' \in BOOLEAN
    BY <1>3, Zenon DEF Succeed
  <2> QED
    BY <1>1, <2>1, <2>2, <2>3
       DEF IInv, Typed, SinceKnown, ShortStreak, NoLockout, NotParkedWhileCalling, Evidence
<1>4. CASE FailBenign
  <2>1. /\ row' \in Row /\ row'.healthy = row.healthy /\ row'.until >= row.until
        /\ row'.streak = row.streak /\ row'.since = row.since
    BY <1>1, <1>4, BoundsAssumption DEF FailBenign, AfterBenign, Greatest, Row
  <2>2. UNCHANGED <<clock, recent, lastTrip>> /\ ~calling'
    BY <1>4 DEF FailBenign
  <2>3. calling' \in BOOLEAN
    BY <1>4, Zenon DEF FailBenign
  <2>4. row.until \in Nat /\ row'.until \in Nat
    BY <1>1, <2>1 DEF Row
  <2> QED
    BY <1>1, <2>1, <2>2, <2>3, <2>4
       DEF IInv, Typed, SinceKnown, ShortStreak, NoLockout, NotParkedWhileCalling, Evidence
<1>5. CASE Undo
  BY <1>1, <1>5
     DEF Undo, IInv, Typed, SinceKnown, ShortStreak, NoLockout, NotParkedWhileCalling,
         Evidence
<1>6. CASE ResetHealth
  <2>1. row' \in Row /\ row'.healthy /\ row'.until = 0 /\ row'.streak = 0
        /\ row'.since = row.since
    BY <1>1, <1>6, ResetHeals
  <2>2. /\ recent' \in Seq(Nat) /\ Len(recent') <= MaxRecent
        /\ UNCHANGED <<clock, calling, lastTrip>> /\ ~calling
    BY <1>6, NothingRemembered, BoundsAssumption DEF ResetHealth
  <2> QED
    BY <1>1, <2>1, <2>2
       DEF IInv, Typed, SinceKnown, ShortStreak, NoLockout, NotParkedWhileCalling, Evidence
<1>7. CASE Tick
  <2>1. clock' \in 1..MaxClock /\ clock' >= clock
        /\ UNCHANGED <<row, calling, recent, lastTrip>>
    BY <1>1, <1>7, BoundsAssumption DEF Tick
  <2>2. row.until \in Nat /\ row.since \in Nat
    BY <1>1 DEF Row
  <2> QED
    BY <1>1, <2>1, <2>2
       DEF IInv, Typed, SinceKnown, ShortStreak, NoLockout, NotParkedWhileCalling, Evidence
<1>8. CASE UNCHANGED vars
  BY <1>8
     DEF vars, IInv, Typed, SinceKnown, ShortStreak, NoLockout, NotParkedWhileCalling,
         Evidence
<1> QED
  BY <1>2, <1>3, <1>4, <1>5, <1>6, <1>7, <1>8

\* IInv holds in every reachable state.
LEMMA Inductive == Spec => []IInv
<1>1. IInv /\ [Next]_vars => IInv'
  BY TripInductive, NoTripInductive, OthersInductive DEF Next
<1> QED
  BY <1>1, InductiveInit, PTL DEF Spec

\* Type correctness, and: a failure streak never reaches the longest
\* threshold, because commit() starts over when it trips.
THEOREM TypeCorrect == Spec => []TypeOK
<1>1. IInv => TypeOK
  BY DEF IInv, Typed, ShortStreak, TypeOK
<1> QED
  BY <1>1, Inductive, PTL

\* No sequence of outcomes, trips, quarantines and resets leaves a provider in
\* the state that freeai_try_reserve refuses for ever.
THEOREM NeverLockedOut == Spec => []NoLockout
<1>1. IInv => NoLockout
  BY DEF IInv
<1> QED
  BY <1>1, Inductive, PTL

\* Only a success or an admin reset ends a quarantine early.
THEOREM QuarantineKept == Spec => NoEarlyRelease
<1>1. IInv /\ [Next]_vars =>
        [row'.until < row.until => row'.healthy /\ row'.until = 0 /\ row'.streak = 0]_vars
  <2> SUFFICES ASSUME IInv, Next, row'.until < row.until
               PROVE  row'.healthy /\ row'.until = 0 /\ row'.streak = 0
    BY DEF vars
  <2>1. /\ row \in Row /\ row.until \in Nat /\ clock \in Nat
        /\ calling => row.until <= clock
    BY DEF IInv, Typed, Row, NotParkedWhileCalling
  <2>2. CASE Succeed
    BY <2>1, <2>2, SuccessHeals
  <2>6. CASE ResetHealth
    BY <2>1, <2>6, ResetHeals
  <2>3. CASE FailBenign
    <3>1. row'.until >= row.until /\ row'.until \in Nat
      BY <2>1, <2>3, BoundsAssumption DEF FailBenign, AfterBenign, Greatest, Row
    <3> QED
      BY <3>1, <2>1
  <2>4. CASE \E cfg \in Configs : Fail(cfg)
    <3> PICK cfg \in Configs : Fail(cfg)
      BY <2>4
    <3>1. calling /\ row' = AfterFailure(row, cfg)
      BY DEF Fail
    <3>2. CASE ~Trips(row, cfg)
      <4>1. row'.until = row.until
        BY <2>1, <3>1, <3>2 DEF AfterFailure, Row, InStreak
      <4> QED
        BY <4>1, <2>1
    <3>3. CASE Trips(row, cfg)
      <4>1. row'.until = clock + Cooldown(row, cfg) /\ Cooldown(row, cfg) \in Nat
        BY <3>1, <3>3, CooldownTyped DEF AfterFailure, Tripped
      <4> QED
        BY <4>1, <3>1, <2>1
    <3> QED
      BY <3>2, <3>3
  <2>5. CASE Reserve \/ Undo \/ Tick
    <3>1. row' = row
      BY <2>5 DEF Reserve, Undo, Tick
    <3> QED
      BY <3>1, <2>1
  <2> QED
    BY <2>2, <2>3, <2>4, <2>5, <2>6 DEF Next
<1> QED
  BY <1>1, Inductive, PTL DEF Spec, NoEarlyRelease

\* The breaker opens only when a threshold of failures fell within a window.
THEOREM TripsAreJustified == Spec => TripJustified
<1> DEFINE Justified ==
      \E cfg \in Configs :
        LET n == Greatest(1, cfg.threshold)
        IN  /\ Len(recent) >= n - 1
            /\ n > 1 => clock - recent[Len(recent) - n + 2] <= cfg.window
<1>1. ASSUME IInv, NEW cfg \in Configs, Fail(cfg), Trips(row, cfg)
      PROVE  Justified
  <2> DEFINE n == Greatest(1, cfg.threshold)
  <2>0. cfg.threshold \in Nat /\ cfg.window \in Nat
    BY ConfigAssumption DEF Config
  <2>1. n \in Nat \ {0} /\ NewStreak(row, cfg) >= n
    BY <1>1, <2>0 DEF Trips, Greatest
  <2>2. /\ recent \in Seq(Nat) /\ Len(recent) \in Nat /\ clock \in Nat
        /\ row.streak \in Nat /\ row.since \in Nat /\ cfg.window \in Nat
    BY <1>1, <2>0 DEF IInv, Typed, Row
  <2>3. CASE n = 1
    BY <2>3, <2>2
  <2>4. CASE n > 1
    <3>1. InStreak(row, cfg) /\ row.streak >= n - 1 /\ row.streak > 0 /\ row.since > 0
      BY <2>1, <2>2, <2>4 DEF NewStreak, InStreak
    <3>2. clock - row.since <= cfg.window
      BY <3>1 DEF InStreak
    <3>3. /\ row.streak <= Len(recent)
          /\ \A i \in (Len(recent) - row.streak + 1)..Len(recent) : row.since <= recent[i]
      BY <1>1, <3>1 DEF IInv, Evidence
    <3> HIDE DEF n
    <3>4. /\ Len(recent) >= n - 1
          /\ Len(recent) - n + 2 \in (Len(recent) - row.streak + 1)..Len(recent)
          /\ Len(recent) - n + 2 \in 1..Len(recent)
      BY <2>1, <2>2, <2>4, <3>1, <3>3
    <3>5. row.since <= recent[Len(recent) - n + 2] /\ recent[Len(recent) - n + 2] \in Nat
      BY <3>3, <3>4, <2>2
    <3>6. clock - recent[Len(recent) - n + 2] <= cfg.window
      BY <2>2, <3>2, <3>5
    <3> QED
      BY <3>4, <3>6 DEF n
  <2> QED
    BY <2>1, <2>3, <2>4
<1>2. IInv /\ [Next]_vars =>
        [(row.healthy /\ ~row'.healthy) \/ row'.level > row.level => Justified]_vars
  <2> SUFFICES ASSUME IInv, Next, (row.healthy /\ ~row'.healthy) \/ row'.level > row.level
               PROVE  Justified
    BY DEF vars
  <2> HIDE DEF Justified
  <2>1. row \in Row /\ row.level \in Nat
    BY DEF IInv, Typed, Row
  <2>2. \E cfg \in Configs : Fail(cfg) /\ Trips(row, cfg)
    <3>1. ~(Reserve \/ Undo \/ Tick)
      BY <2>1 DEF Reserve, Undo, Tick
    <3>2. ~Succeed /\ ~ResetHealth
      <4>1. Succeed \/ ResetHealth =>
              row'.healthy /\ row'.level <= row.level /\ row'.level \in Nat
        BY <2>1, SuccessHeals, ResetHeals DEF Row
      <4> QED
        BY <4>1, <2>1
    <3>3. ~FailBenign
      BY <2>1 DEF FailBenign, AfterBenign, Row
    <3>4. ASSUME NEW cfg \in Configs, Fail(cfg), ~Trips(row, cfg)
          PROVE  row'.level = row.level /\ row'.healthy = row.healthy
      BY <2>1, <3>4 DEF Fail, AfterFailure, Row, InStreak
    <3> QED
      BY <2>1, <3>1, <3>2, <3>3, <3>4 DEF Next
  <2> QED
    BY <2>2, <1>1
<1> QED
  BY <1>2, Inductive, PTL DEF Spec, TripJustified

-----------------------------------------------------------------------------
(* The backoff.                                                            *)

\* All settings share base and cap, and the exponent reaches the cap before it
\* stops growing (2^20 in the code, twelve days for a base of a second).
OneBackoff ==
    \A c, d \in Configs :
        /\ c.base = d.base /\ c.max = d.max
        /\ c.max <= c.base * Doubling[MaxLevel]

\* The cooldown of a trip at level n.
CooldownAt(n, cfg) == Least(cfg.max, cfg.base * Doubling[Least(n, MaxLevel)])

\* The latest trip was the one that led to the row's level.
LastTripKnown ==
    lastTrip > 0 =>
        row.level > 0 /\ \A cfg \in Configs : lastTrip = CooldownAt(row.level - 1, cfg)

\* One level more means a longer cooldown or the cap.
LEMMA CooldownGrows ==
    ASSUME OneBackoff, NEW cfg \in Configs, NEW n \in Nat
    PROVE  \/ CooldownAt(n + 1, cfg) > CooldownAt(n, cfg)
           \/ CooldownAt(n + 1, cfg) = cfg.max
<1>0. cfg.base \in Nat \ {0} /\ cfg.max \in Nat /\ MaxLevel \in Nat
  BY ConfigAssumption, DoublingAssumption DEF Config
<1>1. CASE n < MaxLevel
  <2>1. n \in 0..MaxLevel /\ n + 1 \in 1..MaxLevel /\ n + 1 \in 0..MaxLevel
    BY <1>0, <1>1
  <2>2. Doubling[n + 1] = 2 * Doubling[n] /\ Doubling[n] \in Nat \ {0}
    <3>1. Doubling[n + 1] = 2 * Doubling[(n + 1) - 1]
      BY <2>1, DoublingAssumption
    <3>2. (n + 1) - 1 = n
      OBVIOUS
    <3> QED
      BY <2>1, <3>1, <3>2, DoublingAssumption
  <2>3. PICK d \in Nat \ {0}, b \in Nat \ {0} : d = Doubling[n] /\ b = cfg.base
    BY <2>2, <1>0
  <2>4. b * d \in Nat \ {0} /\ b * (2 * d) = 2 * (b * d)
    OBVIOUS
  <2>5. /\ CooldownAt(n, cfg) = Least(cfg.max, b * d)
        /\ CooldownAt(n + 1, cfg) = Least(cfg.max, 2 * (b * d))
    BY <1>0, <1>1, <2>1, <2>2, <2>3, <2>4 DEF CooldownAt, Least
  <2> QED
    BY <1>0, <2>4, <2>5 DEF Least
<1>2. CASE n >= MaxLevel
  <2>1. CooldownAt(n + 1, cfg) = Least(cfg.max, cfg.base * Doubling[MaxLevel])
    BY <1>0, <1>2 DEF CooldownAt, Least
  <2>2. Doubling[MaxLevel] \in Nat
    BY <1>0, DoublingAssumption
  <2>3. cfg.base * Doubling[MaxLevel] \in Nat
    BY <1>0, <2>2
  <2> QED
    BY <1>0, <2>1, <2>3 DEF OneBackoff, Least
<1> QED
  BY <1>0, <1>1, <1>2

\* Every step keeps track of the latest trip: only a success starts over.
LEMMA LastTripStep ==
    ASSUME OneBackoff, IInv, LastTripKnown, [Next]_vars
    PROVE  LastTripKnown'
<1>1. row \in Row /\ row.level \in Nat /\ lastTrip \in Nat
  BY DEF IInv, Typed, Row
<1>2. CASE row'.level = row.level /\ lastTrip' = lastTrip
  BY <1>2 DEF LastTripKnown, CooldownAt
<1>3. CASE Succeed
  BY <1>3 DEF Succeed, LastTripKnown
<1>4. CASE ResetHealth \/ FailBenign
  <2>1. row'.level = row.level /\ lastTrip' = lastTrip
    BY <1>1, <1>4 DEF ResetHealth, AfterReset, FailBenign, AfterBenign, Row
  <2> QED
    BY <2>1, <1>2
<1>5. CASE \E cfg \in Configs : Fail(cfg)
  <2> PICK cfg \in Configs : Fail(cfg)
    BY <1>5
  <2>1. CASE ~Trips(row, cfg)
    <3>1. row'.level = row.level /\ lastTrip' = lastTrip
      BY <1>1, <2>1 DEF Fail, AfterFailure, Row, InStreak
    <3> QED
      BY <3>1, <1>2
  <2>2. CASE Trips(row, cfg)
    <3>1. row'.level = row.level + 1 /\ lastTrip' = Cooldown(row, cfg)
      BY <2>2 DEF Fail, AfterFailure, Tripped
    <3>2. row'.level > 0 /\ row'.level - 1 = row.level
      BY <1>1, <3>1
    <3>3. ASSUME NEW c \in Configs PROVE lastTrip' = CooldownAt(row'.level - 1, c)
      BY <3>1, <3>2 DEF OneBackoff, Cooldown, CooldownAt
    <3> QED
      BY <3>2, <3>3 DEF LastTripKnown, CooldownAt
  <2> QED
    BY <2>1, <2>2
<1>6. CASE Reserve \/ Undo \/ Tick \/ UNCHANGED vars
  BY <1>2, <1>6 DEF Reserve, Undo, Tick, vars
<1> QED
  BY <1>3, <1>4, <1>5, <1>6 DEF Next

\* As long as no call succeeds, every trip parks the provider for longer than the
\* one before it, up to the cap, whatever resets come in between.
THEOREM BackoffGrows ==
    ASSUME OneBackoff PROVE Spec => BackoffEscalates
<1>1. Init => LastTripKnown
  BY DEF Init, LastTripKnown
<1>2. IInv /\ LastTripKnown /\ [Next]_vars => LastTripKnown'
  BY LastTripStep
<1>3. ASSUME IInv, LastTripKnown, NEW cfg \in Configs, Fail(cfg), Trips(row, cfg), lastTrip > 0
      PROVE  row'.until - clock > lastTrip \/ row'.until - clock = cfg.max
  <2>1. row'.until = clock + Cooldown(row, cfg) /\ Cooldown(row, cfg) \in Nat
    BY <1>3, CooldownTyped DEF Fail, AfterFailure, Tripped
  <2>2. clock \in Nat /\ row.level \in Nat \ {0}
    BY <1>3 DEF IInv, Typed, Row, LastTripKnown
  <2>3. row'.until - clock = CooldownAt(row.level, cfg)
    BY <2>1, <2>2 DEF Cooldown, CooldownAt
  <2>4. PICK n \in Nat : n = row.level - 1 /\ row.level = n + 1
    BY <2>2
  <2>5. lastTrip = CooldownAt(n, cfg)
    BY <1>3, <2>4 DEF LastTripKnown
  <2>6. \/ CooldownAt(n + 1, cfg) > CooldownAt(n, cfg)
        \/ CooldownAt(n + 1, cfg) = cfg.max
    BY CooldownGrows
  <2> QED
    BY <2>3, <2>4, <2>5, <2>6
<1>4. IInv /\ LastTripKnown /\ [Next]_vars =>
        [\A cfg \in Configs :
           Fail(cfg) /\ Trips(row, cfg) /\ lastTrip > 0 =>
             row'.until - clock > lastTrip \/ row'.until - clock = cfg.max]_vars
  BY <1>3
<1> QED
  BY <1>1, <1>2, <1>4, Inductive, PTL DEF Spec, BackoffEscalates
====
