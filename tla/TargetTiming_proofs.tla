------------------------- MODULE TargetTiming_proofs ------------------------
(***************************************************************************)
(* Pacing and alignment hold for all periods, chunk lengths, latencies and *)
(* delays: types, then how the deadline relates to the ticks behind it and *)
(* to the targets ahead of it, then the properties of TargetTiming.        *)
(***************************************************************************)
EXTENDS TargetTiming, TLAPS

USE DEF client, loop, gate

----------------------------------------------------------------------------
(* Types *)

\* The next deadline is a time.
LEMMA NextDeadlineType ==
  ASSUME NEW now \in Nat, started \in Nat, deadline \in Nat, period \in Nat
  PROVE  NextDeadline(now) \in Nat
BY DEF NextDeadline

\* What a new plan holds are times.
LEMMA FreshTargetsType ==
  ASSUME TypeOK, pending # NoRequest, NEW elapsed \in Nat
  PROVE  /\ FreshCount(elapsed) \in Nat
         /\ FreshTargets(elapsed) \in Seq(Nat)
         /\ Len(FreshTargets(elapsed)) = FreshCount(elapsed)
         /\ \A i \in 1..FreshCount(elapsed) :
              FreshTargets(elapsed)[i] = pending.at + (elapsed + i - 1) * period
<1>1. pending \in Request /\ period \in Nat /\ Horizon \in Nat
  BY TimingAssumption DEF TypeOK
<1>2. FreshCount(elapsed) \in Nat
  BY <1>1 DEF FreshCount, AtMost, AtLeast, Request
<1>3. ASSUME NEW i \in 1..FreshCount(elapsed)
      PROVE  pending.at + (elapsed + i - 1) * period \in Nat
  <2>1. elapsed + i - 1 \in Nat /\ pending.at \in Nat
    BY <1>1, <1>2, <1>3 DEF Request
  <2>2. \A a, b \in Nat : a * b \in Nat
    OBVIOUS
  <2> QED BY <2>1, <2>2, <1>1
<1> QED BY <1>2, <1>3 DEF FreshTargets

\* A request that is answered can be invalidated, and stays a request.
LEMMA InvalidatedType ==
  ASSUME pending \in Request
  PROVE  [pending EXCEPT !.current = FALSE] \in Request
<1>1. FALSE \in BOOLEAN
  OBVIOUS
<1> QED BY <1>1 DEF Request

\* Every step keeps the types.
LEMMA TypeStep == TypeOK /\ [Next]_vars => TypeOK'
<1> SUFFICES ASSUME TypeOK, [Next]_vars PROVE TypeOK'
  OBVIOUS
<1> USE TimingAssumption
<1>1. CASE Change
  <2>1. predicting' \in BOOLEAN
    BY <1>1, Zenon DEF Change, TypeOK
  <2>2. controlPeriod' \in Periods /\ changes' \in 0..MaxChanges
    BY <1>1 DEF Change, TypeOK
  <2> QED BY <1>1, <2>1, <2>2 DEF Change, TypeOK
<1>2. CASE Wake
  <2>1. PICK d \in Delays : clock' = AtLeast(clock, deadline) + d
    BY <1>2 DEF Wake, Later
  <2>2. clock' \in Nat
    BY <2>1 DEF TypeOK, AtLeast
  <2>3. starts' \in Seq(Nat)
    <3>1. Len(starts) \in Nat /\ (Len(starts) < Window \/ starts # <<>>)
      BY DEF TypeOK
    <3> QED BY <1>2, <2>2, <3>1 DEF Wake, TypeOK
  <2> QED BY <1>2, <2>2, <2>3 DEF Wake, TypeOK, Steps
<1>3. CASE Prepare
  <2>1. pending' \in Request \cup {NoRequest}
    BY <1>3, InvalidatedType DEF Prepare, TypeOK
  <2>2. plan' \in Seq(Nat) /\ retryAt' \in Nat
    <3>1. CASE predicting # enabled \/ controlPeriod # period
      <4>1. plan' = <<>> /\ retryAt' = 0
        BY <1>3, <3>1, Zenon DEF Prepare
      <4> QED BY <4>1
    <3>2. CASE ~(predicting # enabled \/ controlPeriod # period)
      BY <1>3, <3>2 DEF Prepare, TypeOK
    <3> QED BY <3>1, <3>2
  <2>3. starts' \in Seq(Nat)
    BY <1>3 DEF Prepare, TypeOK
  <2> QED BY <1>3, <2>1, <2>2, <2>3 DEF Prepare, TypeOK, Steps
<1>4. CASE Receive
  <2>1. pending # NoRequest /\ pending \in Request /\ pending.at \in Nat /\ pending.took \in Nat
    BY <1>4 DEF Receive, Answered, TypeOK, Request
  <2>2. plan' \in Seq(Nat)
    <3>1. CASE UNCHANGED plan
      BY <3>1 DEF TypeOK
    <3>2. CASE pending.length # 0
      <4>1. PICK elapsed \in 0..(started - pending.at) :
              plan' = IF FreshCount(elapsed) # 0 THEN FreshTargets(elapsed) ELSE plan
        BY <1>4, <3>2 DEF Receive
      <4>2. elapsed \in Nat
        BY <2>1, <4>1 DEF TypeOK
      <4> QED BY <2>1, <4>1, <4>2, FreshTargetsType DEF TypeOK
    <3> QED BY <1>4, <3>1, <3>2 DEF Receive
  <2>3. latency' \in Nat
    BY <1>4, <2>1 DEF Receive, TypeOK
  <2>4. retryAt' \in Nat
    BY <1>4 DEF Receive, TypeOK
  <2> QED BY <1>4, <2>2, <2>3, <2>4 DEF Receive, TypeOK, Steps
<1>5. CASE ReceiveNothing
  BY <1>5 DEF ReceiveNothing, TypeOK, Steps
<1>6. CASE RequestPrediction
  <2>1. pending' \in Request \cup {NoRequest}
    <3>1. \A l \in Latencies, n \in ChunkLengths :
            [at |-> started, took |-> l, length |-> n, current |-> TRUE] \in Request
      BY DEF TypeOK, Request
    <3> QED BY <1>6, <3>1 DEF RequestPrediction, TypeOK
  <2> QED BY <1>6, <2>1 DEF RequestPrediction, TypeOK, Steps
<1>7. CASE Submit
  <2>1. clock' \in Nat
    BY <1>7 DEF Submit, Later, TypeOK
  <2>2. CASE plan # <<>>
    <3>1. Head(plan) \in Nat /\ Tail(plan) \in Seq(Nat)
      BY <2>2 DEF TypeOK
    <3> QED BY <1>7, <2>1, <2>2, <3>1 DEF Submit, TypeOK, Steps
  <2>3. CASE plan = <<>>
    BY <1>7, <2>1, <2>3 DEF Submit, TypeOK, Steps
  <2> QED BY <2>2, <2>3
<1>8. CASE TickFails
  <2>1. clock' \in Nat
    <3>1. PICK d \in Delays : clock' = clock + d
      BY <1>8 DEF TickFails, Later
    <3> QED BY <3>1 DEF TypeOK
  <2>2. pending' \in Request \cup {NoRequest}
    BY <1>8, InvalidatedType DEF TickFails, TypeOK
  <2>3. predicting' \in BOOLEAN /\ enabled' \in BOOLEAN
    BY <1>8, Zenon DEF TickFails
  <2>4. /\ UNCHANGED <<controlPeriod, loop, period, latency>>
        /\ plan' = <<>> /\ lastTarget' = NoTarget /\ retryAt' = 0 /\ step' = "pacing"
    BY <1>8 DEF TickFails
  <2>5. changes' \in 0..MaxChanges
    <3>1. changes' = changes + 1 /\ changes < MaxChanges
      BY <1>8 DEF TickFails
    <3> QED BY <3>1, TimingAssumption DEF TypeOK
  <2> QED BY <2>1, <2>2, <2>3, <2>4, <2>5 DEF TypeOK, Steps
<1>9. CASE Pace
  <2>1. clock' \in Nat
    BY <1>9 DEF Pace, Later, TypeOK
  <2>2. deadline' \in Nat
    BY <1>9, <2>1, NextDeadlineType DEF Pace, TypeOK
  <2> QED BY <1>9, <2>1, <2>2 DEF Pace, TypeOK, Steps
<1>10. CASE UNCHANGED vars
  BY <1>10 DEF vars, TypeOK
<1> QED
  BY <1>1, <1>2, <1>3, <1>4, <1>5, <1>6, <1>7, <1>8, <1>9, <1>10 DEF Next, Terminated

----------------------------------------------------------------------------
(* Arithmetic of periods *)

\* One more or one less of a number of periods.
LEMMA OneMore ==
  ASSUME NEW p \in Nat
  PROVE  \A k \in Int : (k + 1) * p = k * p + p /\ k * p \in Int
OBVIOUS

\* The next deadline is later than now, than the start of this tick, and at least
\* a period after the previous one while the rate stays the same.
LEMMA NextDeadlineBounds ==
  ASSUME NEW now \in Nat, started \in Nat, deadline \in Nat, period \in Nat \ {0},
         deadline <= started, started <= now
  PROVE  /\ NextDeadline(now) > started
         /\ NextDeadline(now) <= now + period
         /\ pace = period => NextDeadline(now) >= deadline + period
BY DEF NextDeadline

----------------------------------------------------------------------------
(* Ticks and deadlines *)

\* The history is a sequence of times, and what Wake makes of it.
LEMMA WakeHistory ==
  ASSUME TypeOK, Wake
  PROVE  LET kept == IF Len(starts) < Window THEN starts ELSE Tail(starts)
             skip == IF Len(starts) < Window THEN 0 ELSE 1
         IN  /\ clock' \in Nat /\ Len(starts) \in Nat /\ skip <= Len(starts)
             /\ Len(starts') = Len(starts) - skip + 1
             /\ \A i \in 1..(Len(starts) - skip) : starts'[i] = starts[i + skip]
             /\ starts'[Len(starts')] = clock'
             /\ started' = clock' /\ step' = "woken" /\ clock' >= deadline
             /\ clock' >= clock
<1> USE TimingAssumption
<1>1. PICK d \in Delays : clock' = AtLeast(clock, deadline) + d
  BY DEF Wake, Later
<1>2. clock' \in Nat /\ clock' >= deadline /\ clock' >= clock
  BY <1>1 DEF TypeOK, AtLeast
<1>3. Len(starts) \in Nat /\ starts \in Seq(Nat)
  BY DEF TypeOK
<1>4. CASE Len(starts) < Window
  BY <1>2, <1>3, <1>4 DEF Wake
<1>5. CASE ~(Len(starts) < Window)
  <2>1. starts # <<>> /\ Len(starts) # 0
    BY <1>3, <1>5
  <2>2. /\ Tail(starts) \in Seq(Nat) /\ Len(Tail(starts)) = Len(starts) - 1
        /\ \A i \in 1..(Len(starts) - 1) : Tail(starts)[i] = starts[i + 1]
    BY <1>3, <2>1
  <2>3. starts' = Append(Tail(starts), clock')
    BY <1>5 DEF Wake
  <2>4. /\ Len(starts') = Len(starts) - 1 + 1
        /\ \A i \in 1..(Len(starts) - 1) : starts'[i] = Tail(starts)[i]
        /\ starts'[Len(starts')] = clock'
    BY <1>2, <1>3, <2>2, <2>3
  <2> QED BY <1>2, <1>3, <1>5, <2>1, <2>2, <2>4 DEF Wake
<1> QED BY <1>4, <1>5

\* A tick starts no earlier than its deadline.
LEMMA TickStep == TypeOK /\ TickInv /\ [Next]_vars => TickInv'
<1> SUFFICES ASSUME TypeOK, TickInv, [Next]_vars PROVE TickInv'
  OBVIOUS
<1> USE TimingAssumption
<1>1. CASE Change \/ UNCHANGED vars
  BY <1>1 DEF Change, TickInv, vars
<1>2. CASE Wake
  BY <1>2, WakeHistory DEF Wake, TickInv
<1>3. CASE Prepare
  BY <1>3 DEF Prepare, TickInv, TypeOK
<1>4. CASE Receive \/ ReceiveNothing \/ RequestPrediction
  BY <1>4 DEF Receive, ReceiveNothing, RequestPrediction, TickInv
<1>5. CASE Submit \/ TickFails
  <2>1. PICK d \in Delays : clock' = clock + d
    BY <1>5 DEF Submit, TickFails, Later
  <2>2. clock' >= clock /\ clock \in Nat /\ started \in Nat
    BY <2>1 DEF TypeOK
  <2>3. UNCHANGED loop /\ UNCHANGED period /\ step # "sleeping" /\ step' = "pacing"
    BY <1>5 DEF Submit, TickFails
  <2> QED BY <2>1, <2>2, <2>3 DEF TickInv, TypeOK
<1>6. CASE Pace
  BY <1>6 DEF Pace, TickInv
<1> QED BY <1>1, <1>2, <1>3, <1>4, <1>5, <1>6 DEF Next, Terminated

\* What the deadline is, once Pace has run.
LEMMA PaceBounds ==
  ASSUME TypeOK, TickInv, Pace
  PROVE  /\ clock' \in Nat /\ clock' >= clock /\ deadline' \in Nat
         /\ deadline' > started /\ deadline' <= clock' + period
         /\ pace = period => deadline' >= deadline + period
<1> USE TimingAssumption
<1>1. PICK d \in Delays : clock' = clock + d
  BY DEF Pace, Later
<1>2. /\ clock' \in Nat /\ clock' >= clock /\ started \in Nat /\ deadline \in Nat
      /\ period \in Nat \ {0} /\ deadline <= started /\ started <= clock'
  BY <1>1 DEF TypeOK, TickInv, Pace
<1> QED BY <1>2, NextDeadlineBounds, NextDeadlineType DEF Pace

\* The deadline stays behind the remembered ticks.
LEMMA DeadlineStep ==
  TypeOK /\ TickInv /\ DeadlineInv /\ [Next]_vars => DeadlineInv'
<1> SUFFICES ASSUME TypeOK, TickInv, DeadlineInv, [Next]_vars PROVE DeadlineInv'
  OBVIOUS
<1> USE TimingAssumption
<1>1. CASE UNCHANGED <<starts, deadline, period>> /\ (step' = "sleeping" <=> step = "sleeping")
  BY <1>1 DEF DeadlineInv
<1>2. CASE Wake
  <2> DEFINE n == Len(starts)
             skip == IF n < Window THEN 0 ELSE 1
  <2>1. n \in Nat /\ Len(starts') - 1 = n - skip /\ UNCHANGED <<deadline, period>>
    BY <1>2, WakeHistory DEF Wake
  <2>2. ASSUME NEW i \in 1..(n - skip) PROVE deadline > starts'[i] + ((n - skip) - i) * period
    <3>1. starts'[i] = starts[i + skip]
      BY <1>2, WakeHistory
    <3>2. i + skip \in 1..n
      BY <2>1
    <3>3. deadline > starts[i + skip] + (n - (i + skip)) * period
      BY <1>2, <3>2 DEF DeadlineInv, Wake
    <3>4. n - (i + skip) = (n - skip) - i
      BY <2>1
    <3> QED BY <3>1, <3>3, <3>4
  <2> QED BY <1>2, <2>1, <2>2 DEF DeadlineInv, Wake
<1>3. CASE Prepare
  <2>1. CASE controlPeriod # period
    BY <1>3, <2>1 DEF Prepare, DeadlineInv, TypeOK
  <2>2. CASE controlPeriod = period
    BY <1>1, <1>3, <2>2 DEF Prepare
  <2> QED BY <2>1, <2>2
<1>4. CASE Pace
  <2> DEFINE n == Len(starts)
  <2>1. /\ n \in Nat \ {0} /\ starts[n] = started /\ started \in Nat
        /\ \A i \in 1..n : starts[i] \in Nat
        /\ UNCHANGED <<starts, period>> /\ period \in Nat /\ deadline \in Nat
    BY <1>4 DEF TickInv, Pace, TypeOK
  <2>2. /\ deadline' \in Nat /\ deadline' > started
        /\ pace = period => deadline' >= deadline + period
    BY <1>4, PaceBounds
  <2>3. ASSUME NEW i \in 1..n PROVE deadline' > starts[i] + (n - i) * period
    <3>1. CASE i = n
      <4>1. (n - i) * period = 0
        BY <2>1, <3>1
      <4> QED BY <2>1, <2>2, <3>1, <4>1
    <3>2. CASE i # n
      <4>1. i \in 1..(n - 1) /\ pace = period
        BY <1>4, <2>1, <3>2 DEF TickInv, Pace
      <4>2. deadline > starts[i] + ((n - 1) - i) * period
        BY <1>4, <4>1 DEF DeadlineInv, Pace
      <4>3. (((n - 1) - i) + 1) * period = ((n - 1) - i) * period + period
            /\ ((n - 1) - i) * period \in Int
        BY <2>1, OneMore
      <4>4. ((n - 1) - i) + 1 = n - i
        BY <2>1
      <4> QED BY <2>1, <2>2, <4>1, <4>2, <4>3, <4>4
    <3> QED BY <3>1, <3>2
  <2> QED BY <1>4, <2>1, <2>3 DEF DeadlineInv, Pace
<1>5. CASE Change \/ Receive \/ ReceiveNothing \/ RequestPrediction \/ Submit \/ TickFails
           \/ UNCHANGED vars
  BY <1>1, <1>5 DEF Change, Receive, ReceiveNothing, RequestPrediction, Submit, TickFails, vars
<1> QED BY <1>2, <1>3, <1>4, <1>5 DEF Next, Terminated

\* Ticks stay apart.
LEMMA BurstStep ==
  TypeOK /\ DeadlineInv /\ NoBurst /\ [Next]_vars => NoBurst'
<1> SUFFICES ASSUME TypeOK, DeadlineInv, NoBurst, [Next]_vars PROVE NoBurst'
  OBVIOUS
<1> USE TimingAssumption
<1>1. CASE UNCHANGED <<starts, period>>
  BY <1>1 DEF NoBurst
<1>2. CASE Wake
  <2> DEFINE n == Len(starts)
             skip == IF n < Window THEN 0 ELSE 1
             m == n - skip + 1
  <2>1. /\ n \in Nat /\ deadline \in Nat /\ period \in Nat /\ UNCHANGED period
        /\ \A i \in 1..n : starts[i] \in Nat
    BY <1>2 DEF Wake, TypeOK
  <2>3. /\ m \in Nat /\ Len(starts') = m /\ starts'[m] = clock' /\ skip \in {0, 1}
        /\ clock' >= deadline /\ clock' \in Nat
        /\ \A i \in 1..(m - 1) : starts'[i] = starts[i + skip]
    <3>1. n - skip = m - 1 /\ skip \in {0, 1}
      BY <2>1
    <3> QED BY <1>2, <3>1, WakeHistory
  <2> HIDE DEF n, skip, m
  <2>2. ASSUME NEW i \in 1..m, NEW j \in 1..m, i < j
        PROVE  starts'[j] - starts'[i] > (j - i - 1) * period
    <3>1. i + skip \in 1..n /\ starts'[i] = starts[i + skip]
      BY <2>1, <2>2, <2>3 DEF m
    <3>2. CASE j = m
      <4>1. deadline > starts[i + skip] + (n - (i + skip)) * period
        BY <1>2, <3>1 DEF DeadlineInv, Wake, n
      <4>2. n - (i + skip) = j - i - 1
        BY <2>1, <2>3, <3>2 DEF m
      <4>3. (j - i - 1) * period \in Int
        BY <2>1, OneMore
      <4>4. starts'[j] >= deadline /\ starts'[j] \in Nat /\ starts[i + skip] \in Nat
        BY <2>1, <2>3, <3>1, <3>2
      <4> QED BY <2>1, <3>1, <4>1, <4>2, <4>3, <4>4
    <3>3. CASE j # m
      <4>1. j + skip \in 1..n /\ starts'[j] = starts[j + skip] /\ i + skip < j + skip
        BY <2>1, <2>2, <2>3, <3>3 DEF m
      <4>2. starts[j + skip] - starts[i + skip] > ((j + skip) - (i + skip) - 1) * period
        BY <3>1, <4>1 DEF NoBurst, n
      <4>3. (j + skip) - (i + skip) - 1 = j - i - 1
        BY <2>3
      <4> QED BY <3>1, <4>1, <4>2, <4>3
    <3> QED BY <3>2, <3>3
  <2> QED BY <2>1, <2>2, <2>3 DEF NoBurst
<1>3. CASE Prepare
  <2>1. CASE controlPeriod # period
    <3>1. Len(starts') = 1
      BY <1>3, <2>1 DEF Prepare
    <3> QED BY <3>1 DEF NoBurst
  <2>2. CASE controlPeriod = period
    BY <1>1, <1>3, <2>2 DEF Prepare
  <2> QED BY <2>1, <2>2
<1>4. CASE Change \/ Receive \/ ReceiveNothing \/ RequestPrediction \/ Submit \/ TickFails
           \/ Pace \/ UNCHANGED vars
  BY <1>1, <1>4 DEF Change, Receive, ReceiveNothing, RequestPrediction, Submit, TickFails,
     Pace, vars
<1> QED BY <1>2, <1>3, <1>4 DEF Next, Terminated

\* The sleep is never longer than a period.
LEMMA SleepStep ==
  TypeOK /\ TickInv /\ SleepsAtMostOnePeriod /\ [Next]_vars => SleepsAtMostOnePeriod'
<1> SUFFICES ASSUME TypeOK, TickInv, SleepsAtMostOnePeriod, [Next]_vars
             PROVE  SleepsAtMostOnePeriod'
  OBVIOUS
<1>1. CASE Change \/ UNCHANGED vars
  BY <1>1 DEF Change, SleepsAtMostOnePeriod, vars
<1>2. CASE Pace
  BY <1>2, PaceBounds DEF Pace, SleepsAtMostOnePeriod
<1>3. CASE Wake \/ Prepare \/ Receive \/ ReceiveNothing \/ RequestPrediction \/ Submit \/ TickFails
  <2>1. step' # "sleeping"
    BY <1>3 DEF Wake, Prepare, Receive, ReceiveNothing, RequestPrediction, Submit, TickFails
  <2> QED BY <2>1 DEF SleepsAtMostOnePeriod
<1> QED BY <1>1, <1>2, <1>3 DEF Next, Terminated

----------------------------------------------------------------------------
(* The plan and the clock *)

\* A chunk is queued from the step whose time has come, not from a later one.
LEMMA FreshAligned ==
  ASSUME TypeOK, pending # NoRequest, NEW elapsed \in Nat,
         Elapsed(elapsed, pending.at, started), NEW i \in 1..FreshCount(elapsed)
  PROVE  FreshTargets(elapsed)[i] <= started + (i - 1) * period
<1> USE TimingAssumption
<1>1. /\ pending.at \in Nat /\ started \in Nat /\ period \in Nat
      /\ elapsed * period <= started - pending.at
  BY DEF TypeOK, Request, Elapsed
<1>2. FreshCount(elapsed) \in Nat
  BY FreshTargetsType
<1>3. FreshTargets(elapsed)[i] = pending.at + (elapsed + i - 1) * period
  BY FreshTargetsType
<1>4. (elapsed + i - 1) * period = elapsed * period + (i - 1) * period
      /\ elapsed * period \in Int /\ (i - 1) * period \in Int
  BY <1>1, <1>2
<1> QED BY <1>1, <1>3, <1>4

\* Every step keeps the plan behind the deadline or the start of the tick.
LEMMA PlanStep == TypeOK /\ TickInv /\ PlanInv /\ [Next]_vars => PlanInv'
<1> SUFFICES ASSUME TypeOK, TickInv, PlanInv, [Next]_vars PROVE PlanInv'
  OBVIOUS
<1> USE TimingAssumption
<1>1. CASE UNCHANGED <<plan, pace, period, deadline, started>> /\ (step = "sleeping" <=> step' = "sleeping")
           /\ (step = "pacing" <=> step' = "pacing")
  BY <1>1 DEF PlanInv
<1>2. CASE plan' = <<>>
  BY <1>2 DEF PlanInv
<1>3. CASE Wake
  <2>1. step = "sleeping" /\ step' = "woken" /\ UNCHANGED <<plan, pace, period, deadline>>
    BY <1>3 DEF Wake
  <2> QED BY <2>1 DEF PlanInv
<1>4. CASE Prepare
  <2>1. CASE predicting # enabled \/ controlPeriod # period
    <3>1. plan' = <<>>
      BY <1>4, <2>1, Zenon DEF Prepare
    <3> QED BY <1>2, <3>1
  <2>2. CASE ~(predicting # enabled \/ controlPeriod # period)
    BY <1>1, <1>4, <2>2 DEF Prepare
  <2> QED BY <2>1, <2>2
<1>5. CASE Receive
  <2>1. pending # NoRequest /\ pending.at \in Nat /\ started \in Nat
    BY <1>5 DEF Receive, Answered, TypeOK, Request
  <2>2. CASE UNCHANGED plan
    BY <1>1, <1>5, <2>2 DEF Receive
  <2>3. CASE plan' # plan
    <3>1. PICK elapsed \in 0..(started - pending.at) :
            /\ Elapsed(elapsed, pending.at, started) /\ plan' = FreshTargets(elapsed)
      BY <1>5, <2>3 DEF Receive
    <3>2. elapsed \in Nat
      BY <2>1
    <3>3. Len(plan') = FreshCount(elapsed)
      BY <2>1, <3>1, <3>2, FreshTargetsType
    <3>4. \A i \in 1..Len(plan') : plan'[i] <= started + (i - 1) * period
      BY <2>1, <3>1, <3>2, <3>3, FreshAligned
    <3>5. step' = "requesting" /\ UNCHANGED <<started, period>>
      BY <1>5 DEF Receive
    <3>6. \A i \in 1..Len(plan') : i + 0 - 1 = i - 1
      BY <2>1, <3>1, <3>2, <3>3, FreshTargetsType
    <3> QED BY <3>4, <3>5, <3>6 DEF PlanInv
  <2> QED BY <2>2, <2>3
<1>6. CASE ReceiveNothing
  <2>1. CASE enabled
    BY <1>1, <1>6, <2>1 DEF ReceiveNothing
  <2>2. CASE ~enabled
    <3>1. /\ step = "receiving" /\ step' = "pacing"
          /\ UNCHANGED <<plan, pace, period, deadline, started>>
      BY <1>6, <2>2 DEF ReceiveNothing
    <3>2. ASSUME NEW i \in 1..Len(plan)
          PROVE  \/ pace = period /\ plan[i] < deadline + (i + 1) * period
                 \/ plan[i] <= started + (i + 1 - 1) * period
      <4>1. /\ i \in Nat /\ plan[i] \in Nat /\ deadline \in Nat /\ started \in Nat
            /\ period \in Nat
        BY DEF TypeOK
      <4>2. /\ (i + 1) * period = i * period + period /\ i * period \in Int
            /\ ((i - 1) + 1) * period = (i - 1) * period + period /\ (i - 1) * period \in Int
            /\ i + 1 - 1 = (i - 1) + 1 /\ i + 0 = i
        BY <4>1, OneMore
      <4>3. \/ pace = period /\ plan[i] < deadline + (i + 0) * period
            \/ plan[i] <= started + (i + 0 - 1) * period
        BY <3>1 DEF PlanInv
      <4>4. CASE pace = period /\ plan[i] < deadline + (i + 0) * period
        BY <4>1, <4>2, <4>4
      <4>5. CASE plan[i] <= started + (i + 0 - 1) * period
        BY <4>1, <4>2, <4>5
      <4> QED BY <4>3, <4>4, <4>5
    <3> QED BY <3>1, <3>2 DEF PlanInv
  <2> QED BY <2>1, <2>2
<1>7. CASE Submit
  <2>1. CASE plan = <<>>
    BY <1>2, <1>7, <2>1 DEF Submit
  <2>2. CASE plan # <<>>
    <3>1. /\ plan' = Tail(plan) /\ step = "submitting" /\ step' = "pacing"
          /\ UNCHANGED <<pace, period, deadline, started>>
      BY <1>7, <2>2 DEF Submit
    <3>2. /\ Len(plan) \in Nat /\ Len(plan') = Len(plan) - 1
          /\ \A i \in 1..Len(plan') : plan'[i] = plan[i + 1]
      BY <2>2, <3>1 DEF TypeOK
    <3>3. ASSUME NEW i \in 1..Len(plan')
          PROVE  \/ pace = period /\ plan'[i] < deadline + (i + 1) * period
                 \/ plan'[i] <= started + (i + 1 - 1) * period
      <4>1. i + 1 \in 1..Len(plan) /\ (i + 1) + 0 = i + 1
        BY <3>2
      <4>2. \/ pace = period /\ plan[i + 1] < deadline + ((i + 1) + 0) * period
            \/ plan[i + 1] <= started + ((i + 1) + 0 - 1) * period
        BY <3>1, <4>1 DEF PlanInv
      <4> QED BY <3>2, <4>1, <4>2
    <3> QED BY <3>1, <3>3 DEF PlanInv
  <2> QED BY <2>1, <2>2
<1>8. CASE TickFails
  BY <1>2, <1>8 DEF TickFails
<1>9. CASE Pace
  <2>1. /\ started \in Nat /\ deadline \in Nat /\ deadline' \in Nat /\ period \in Nat
        /\ deadline' > started /\ (pace = period => deadline' >= deadline + period)
    BY <1>9, PaceBounds DEF TypeOK
  <2>2. /\ step = "pacing" /\ step' = "sleeping" /\ pace' = period
        /\ UNCHANGED <<plan, period, started>>
    BY <1>9 DEF Pace
  <2>3. ASSUME NEW i \in 1..Len(plan) PROVE plan[i] < deadline' + (i + 0) * period
    <3>1. i \in Nat /\ plan[i] \in Nat
      BY DEF TypeOK
    <3>2. /\ (i + 1) * period = i * period + period /\ i * period \in Int
          /\ i + 1 - 1 = i /\ i + 0 = i
      BY <2>1, <3>1, OneMore
    <3>3. \/ pace = period /\ plan[i] < deadline + (i + 1) * period
          \/ plan[i] <= started + (i + 1 - 1) * period
      BY <2>2 DEF PlanInv
    <3>4. CASE pace = period /\ plan[i] < deadline + (i + 1) * period
      BY <2>1, <3>1, <3>2, <3>4
    <3>5. CASE plan[i] <= started + (i + 1 - 1) * period
      BY <2>1, <3>1, <3>2, <3>5
    <3> QED BY <3>3, <3>4, <3>5
  <2> QED BY <2>2, <2>3 DEF PlanInv
<1>10. CASE Change \/ RequestPrediction \/ UNCHANGED vars
  BY <1>1, <1>10 DEF Change, RequestPrediction, vars
<1> QED
  BY <1>3, <1>4, <1>5, <1>6, <1>7, <1>8, <1>9, <1>10 DEF Next, Terminated

----------------------------------------------------------------------------
(* Theorems *)

\* The inductive invariant holds in every reachable state: the types, and how
\* deadline, history and plan relate to each other and to the present tick.
THEOREM TimingInvariance == Spec => []IInv
<1>1. Init => IInv
  <2> SUFFICES ASSUME Init PROVE IInv
    OBVIOUS
  <2>1. TypeOK
    <3>1. predicting \in BOOLEAN /\ enabled \in BOOLEAN
      BY Zenon DEF Init
    <3>2. /\ clock = 0 /\ controlPeriod \in Periods /\ period = controlPeriod /\ pace = period
          /\ plan = <<>> /\ lastTarget = NoTarget /\ pending = NoRequest /\ latency = 0
          /\ retryAt = 0 /\ step = "sleeping" /\ started = 0 /\ deadline = 0 /\ changes = 0
          /\ starts = <<>>
      BY DEF Init
    <3> QED BY <3>1, <3>2, TimingAssumption DEF TypeOK, Steps
  <2>2. TickInv /\ DeadlineInv /\ PlanInv /\ NoBurst
    BY DEF Init, TickInv, DeadlineInv, PlanInv, NoBurst
  <2>3. SleepsAtMostOnePeriod
    BY TimingAssumption DEF Init, SleepsAtMostOnePeriod
  <2> QED BY <2>1, <2>2, <2>3 DEF IInv
<1>2. IInv /\ [Next]_vars => IInv'
  BY TypeStep, TickStep, DeadlineStep, PlanStep, BurstStep, SleepStep DEF IInv
<1> QED BY <1>1, <1>2, PTL DEF Spec

\* However late ticks are, an overrun is not followed by a burst of targets.
THEOREM NoBurstHolds == Spec => []NoBurst
<1>1. IInv => NoBurst
  BY DEF IInv
<1> QED BY <1>1, TimingInvariance, PTL

\* The loop sleeps for at most one period of the present rate.
THEOREM SleepIsBounded == Spec => []SleepsAtMostOnePeriod
<1>1. IInv => SleepsAtMostOnePeriod
  BY DEF IInv
<1> QED BY <1>1, TimingInvariance, PTL

\* No target is sent a whole period before the time it is planned for.
THEOREM NeverAheadHolds == Spec => NeverAhead
<1>1. IInv /\ [Next]_vars => [Submit /\ plan # <<>> => Head(plan) < clock + period]_vars
  <2> SUFFICES ASSUME IInv, Submit, plan # <<>> PROVE Head(plan) < clock + period
    OBVIOUS
  <2> USE TimingAssumption
  <2>1. /\ step = "submitting" /\ deadline <= started /\ started <= clock
        /\ clock \in Nat /\ deadline \in Nat /\ started \in Nat /\ period \in Nat \ {0}
    BY DEF Submit, IInv, TypeOK, TickInv
  <2>2. Len(plan) \in Nat /\ 1 \in 1..Len(plan) /\ Head(plan) = plan[1] /\ plan[1] \in Nat
    BY DEF IInv, TypeOK
  <2>3. plan[1] < deadline + (1 + 0) * period \/ plan[1] <= started + (1 + 0 - 1) * period
    BY <2>1, <2>2 DEF IInv, PlanInv
  <2>4. (1 + 0) * period = period /\ (1 + 0 - 1) * period = 0
    BY <2>1
  <2> QED BY <2>1, <2>2, <2>3, <2>4
<1> QED BY <1>1, TimingInvariance, PTL DEF Spec, NeverAhead

----------------------------------------------------------------------------
(* Ticks that keep within their periods *)

\* The delays of one tick are less than a period.
LEMMA Fitting ==
  ASSUME TicksFit, NEW a \in Delays, NEW b \in Delays \cup {0}, NEW c \in Delays,
         NEW p \in Periods
  PROVE  a \in Nat /\ b \in Nat /\ c \in Nat /\ p \in Nat \ {0} /\ a + b + c < p
<1> USE TimingAssumption
<1>1. CASE b \in Delays
  BY <1>1 DEF TicksFit
<1>2. CASE b = 0
  <2>1. a + a + c < p
    BY DEF TicksFit
  <2> QED BY <1>2, <2>1
<1> QED BY <1>1, <1>2

\* So the next deadline is a period after the previous one, and not over yet.
LEMMA PaceOnTime ==
  ASSUME TicksFit, TypeOK, TickInv, OnTimeInv, Pace
  PROVE  /\ clock' <= deadline' /\ deadline' = Base + period
         /\ clock' \in Nat /\ Base \in Nat /\ period \in Nat
<1> USE TimingAssumption
<1>1. PICK c \in Delays : clock' = clock + c
  BY DEF Pace, Later
<1>2. PICK a \in Delays : started = deadline + a
  BY DEF Pace, OnTimeInv
<1>3. PICK b \in Delays \cup {0} : clock = started + b
  BY DEF Pace, OnTimeInv
<1>4. a \in Nat /\ b \in Nat /\ c \in Nat /\ a + b + c < period
  BY Fitting DEF TypeOK
<1>5. deadline \in Nat /\ started \in Nat /\ period \in Nat
  BY DEF TypeOK
<1>6. Base \in Nat /\ deadline <= Base /\ clock' < Base + period /\ clock' \in Nat
  BY <1>1, <1>2, <1>3, <1>4, <1>5 DEF Base
<1>7. deadline' = NextDeadline(clock')
  BY DEF Pace
<1>8. (IF period # pace THEN started ELSE deadline) = Base
  BY DEF Base
<1>9. deadline' = IF Base + period <= clock' THEN clock' + period ELSE Base + period
  BY <1>7, <1>8, Zenon DEF NextDeadline
<1>10. ~(Base + period <= clock')
  BY <1>5, <1>6
<1>11. deadline' = Base + period
  BY <1>9, <1>10, Zenon
<1> QED BY <1>5, <1>6, <1>11

\* Every step keeps the deadlines.
LEMMA OnTimeStep ==
  ASSUME TicksFit, TypeOK, TickInv, OnTimeInv, [Next]_vars
  PROVE  OnTimeInv'
<1> USE TimingAssumption
<1>1. CASE Change \/ UNCHANGED vars
  BY <1>1 DEF Change, OnTimeInv, vars
<1>2. CASE Wake
  <2>1. PICK d \in Delays : clock' = AtLeast(clock, deadline) + d
    BY <1>2 DEF Wake, Later
  <2>2. clock' = deadline + d
    BY <1>2, <2>1 DEF Wake, OnTimeInv, TypeOK, AtLeast
  <2> QED BY <1>2, <2>2 DEF Wake, OnTimeInv
<1>3. CASE Prepare \/ Receive \/ RequestPrediction
  <2>1. /\ UNCHANGED <<clock, started, deadline>>
        /\ step \notin {"sleeping", "pacing"} /\ step' \notin {"sleeping", "pacing"}
    BY <1>3 DEF Prepare, Receive, RequestPrediction
  <2> QED BY <2>1 DEF OnTimeInv
<1>4. CASE ReceiveNothing
  <2>1. /\ UNCHANGED <<clock, started, deadline>> /\ step = "receiving"
        /\ step' \in {"requesting", "pacing"}
    BY <1>4 DEF ReceiveNothing
  <2>2. clock' = started' + 0
    BY <2>1 DEF OnTimeInv, TypeOK
  <2> QED BY <2>1, <2>2 DEF OnTimeInv
<1>5. CASE Submit \/ TickFails
  <2>1. /\ UNCHANGED <<started, deadline>> /\ step \in {"requesting", "submitting"}
        /\ step' = "pacing" /\ \E d \in Delays : clock' = clock + d
    BY <1>5 DEF Submit, TickFails, Later
  <2> QED BY <2>1 DEF OnTimeInv
<1>6. CASE Pace
  BY <1>6, PaceOnTime DEF Pace, OnTimeInv
<1> QED BY <1>1, <1>2, <1>3, <1>4, <1>5, <1>6 DEF Next, Terminated

\* A chunk is queued from the step whose time has come, not from an earlier one.
LEMMA FreshInTime ==
  ASSUME TypeOK, pending # NoRequest, NEW elapsed \in Nat,
         Elapsed(elapsed, pending.at, started), NEW i \in 1..FreshCount(elapsed)
  PROVE  FreshTargets(elapsed)[i] > started + (i - 2) * period
<1> USE TimingAssumption
<1>1. /\ pending.at \in Nat /\ started \in Nat /\ period \in Nat
      /\ started - pending.at < (elapsed + 1) * period
  BY DEF TypeOK, Request, Elapsed
<1>2. FreshCount(elapsed) \in Nat
  BY FreshTargetsType
<1>3. FreshTargets(elapsed)[i] = pending.at + (elapsed + i - 1) * period
  BY FreshTargetsType
<1>4. (elapsed + i - 1) * period = (elapsed + 1) * period + (i - 2) * period
      /\ (elapsed + 1) * period \in Int /\ (i - 2) * period \in Int
  BY <1>1, <1>2
<1> QED BY <1>1, <1>3, <1>4

\* Every step keeps the targets close to their deadlines.
LEMMA LagStep ==
  ASSUME TicksFit, TypeOK, TickInv, OnTimeInv, LagInv, [Next]_vars
  PROVE  LagInv'
<1> USE TimingAssumption
<1>1. CASE /\ UNCHANGED <<plan, pace, period, deadline, enabled>>
           /\ pace = period \/ UNCHANGED started
           /\ step = "pacing" <=> step' = "pacing"
  <2>1. Base' = Base
    BY <1>1 DEF Base
  <2>2. enabled' \/ plan' = <<>>
    BY <1>1, Zenon DEF LagInv
  <2> QED BY <1>1, <2>1, <2>2 DEF LagInv
<1>2. CASE plan' = <<>>
  BY <1>2 DEF LagInv
<1>3. CASE Wake
  <2>1. /\ UNCHANGED <<plan, pace, period, deadline>> /\ pace = period
        /\ step = "sleeping" /\ step' = "woken"
    BY <1>3 DEF Wake, TickInv
  <2>2. enabled' = enabled
    BY <1>3, Zenon DEF Wake
  <2> QED BY <1>1, <2>1, <2>2
<1>4. CASE Prepare
  <2>1. CASE predicting # enabled \/ controlPeriod # period
    <3>1. plan' = <<>>
      BY <1>4, <2>1, Zenon DEF Prepare
    <3> QED BY <1>2, <3>1
  <2>2. CASE ~(predicting # enabled \/ controlPeriod # period)
    <3>1. enabled' = enabled
      BY <1>4, <2>2, Zenon DEF Prepare
    <3>2. /\ UNCHANGED <<plan, pace, period, deadline, started>>
          /\ step = "woken" /\ step' = "receiving"
      BY <1>4, <2>2 DEF Prepare
    <3> QED BY <1>1, <3>1, <3>2
  <2> QED BY <2>1, <2>2
<1>5. CASE Receive
  <2>1. /\ pending # NoRequest /\ pending.at \in Nat /\ started \in Nat /\ deadline \in Nat
        /\ deadline <= started /\ period \in Nat
    BY <1>5 DEF Receive, Answered, TypeOK, Request, TickInv
  <2>2. /\ UNCHANGED <<started, period, pace, deadline>>
        /\ step = "receiving" /\ step' = "requesting"
    BY <1>5 DEF Receive
  <2>3. enabled' = enabled /\ enabled
    BY <1>5, Zenon DEF Receive
  <2>4. CASE UNCHANGED plan
    BY <1>1, <2>2, <2>3, <2>4
  <2>5. CASE plan' # plan
    <3>1. PICK elapsed \in 0..(started - pending.at) :
            /\ Elapsed(elapsed, pending.at, started) /\ plan' = FreshTargets(elapsed)
      BY <1>5, <2>5 DEF Receive
    <3>2. elapsed \in Nat
      BY <2>1, <3>1
    <3>3. Len(plan') = FreshCount(elapsed) /\ FreshCount(elapsed) \in Nat
      BY <2>1, <3>1, <3>2, FreshTargetsType
    <3>4. \A i \in 1..Len(plan') : plan'[i] \in Nat /\ plan'[i] > started + (i - 2) * period
      <4> SUFFICES ASSUME NEW i \in 1..FreshCount(elapsed)
                   PROVE  /\ FreshTargets(elapsed)[i] \in Nat
                          /\ FreshTargets(elapsed)[i] > started + (i - 2) * period
        BY <3>1, <3>3
      <4>1. FreshTargets(elapsed)[i] > started + (i - 2) * period
        BY <2>1, <3>1, <3>2, FreshInTime
      <4>2. FreshTargets(elapsed)[i] \in Nat
        <5>1. /\ FreshTargets(elapsed) \in Seq(Nat)
              /\ Len(FreshTargets(elapsed)) = FreshCount(elapsed)
          BY <2>1, <3>2, FreshTargetsType
        <5> QED BY <5>1
      <4> QED BY <4>1, <4>2
    <3>5. Base' \in Nat /\ Base' <= started
      BY <2>1, <2>2 DEF Base
    <3>6. ASSUME NEW i \in 1..Len(plan') PROVE plan'[i] > Base' + (i + 0 - 2) * period
      <4>1. i \in Nat /\ (i - 2) * period \in Int /\ i + 0 - 2 = i - 2
        BY <2>1, <3>3
      <4> QED BY <2>1, <3>4, <3>5, <4>1
    <3> QED BY <2>2, <2>3, <3>6 DEF LagInv
  <2> QED BY <2>4, <2>5
<1>6. CASE ReceiveNothing
  <2>1. CASE enabled
    <3>1. enabled' = enabled
      BY <1>6, Zenon DEF ReceiveNothing
    <3>2. /\ UNCHANGED <<plan, pace, period, deadline, started>>
          /\ step = "receiving" /\ step' = "requesting"
      BY <1>6, <2>1 DEF ReceiveNothing
    <3> QED BY <1>1, <3>1, <3>2
  <2>2. CASE ~enabled
    <3>1. plan = <<>>
      BY <2>2, Zenon DEF LagInv
    <3> QED BY <1>2, <1>6, <3>1 DEF ReceiveNothing
  <2> QED BY <2>1, <2>2
<1>7. CASE Submit
  <2>1. CASE plan = <<>>
    BY <1>2, <1>7, <2>1 DEF Submit
  <2>2. CASE plan # <<>>
    <3>1. /\ plan' = Tail(plan) /\ step = "submitting" /\ step' = "pacing"
          /\ UNCHANGED <<pace, period, deadline, started>>
      BY <1>7, <2>2 DEF Submit
    <3>2. /\ Len(plan) \in Nat /\ Len(plan') = Len(plan) - 1
          /\ \A i \in 1..Len(plan') : plan'[i] = plan[i + 1]
      BY <2>2, <3>1 DEF TypeOK
    <3>3. Base' = Base
      BY <3>1 DEF Base
    <3>4. enabled'
      BY <1>7, <2>2, Zenon DEF Submit, LagInv
    <3>5. ASSUME NEW i \in 1..Len(plan') PROVE plan'[i] > Base + (i + 1 - 2) * period
      <4>1. i + 1 \in 1..Len(plan) /\ (i + 1) + 0 - 2 = i + 1 - 2
        BY <3>2
      <4>2. plan[i + 1] > Base + ((i + 1) + 0 - 2) * period
        BY <3>1, <4>1 DEF LagInv
      <4> QED BY <3>2, <4>1, <4>2
    <3> QED BY <3>1, <3>3, <3>4, <3>5 DEF LagInv
  <2> QED BY <2>1, <2>2
<1>8. CASE TickFails
  BY <1>2, <1>8 DEF TickFails
<1>9. CASE Pace
  <2>1. /\ deadline' = Base + period /\ Base \in Nat /\ period \in Nat
        /\ step = "pacing" /\ step' = "sleeping" /\ pace' = period
        /\ UNCHANGED <<plan, period>>
    BY <1>9, PaceOnTime DEF Pace
  <2>2. Base' = deadline'
    BY <2>1 DEF Base
  <2>3. enabled' \/ plan' = <<>>
    BY <1>9, Zenon DEF Pace, LagInv
  <2>4. ASSUME NEW i \in 1..Len(plan) PROVE plan[i] > deadline' + (i + 0 - 2) * period
    <3>1. i \in Nat /\ plan[i] \in Nat
      BY DEF TypeOK
    <3>2. /\ ((i - 2) + 1) * period = (i - 2) * period + period /\ (i - 2) * period \in Int
          /\ i + 1 - 2 = (i - 2) + 1 /\ i + 0 - 2 = i - 2
      BY <2>1, <3>1, OneMore
    <3>3. plan[i] > Base + (i + 1 - 2) * period
      BY <2>1 DEF LagInv
    <3> QED BY <2>1, <3>1, <3>2, <3>3
  <2> QED BY <2>1, <2>2, <2>3, <2>4 DEF LagInv
<1>10. CASE Change \/ RequestPrediction \/ UNCHANGED vars
  <2>1. /\ UNCHANGED <<plan, pace, period, deadline, started>>
        /\ step = "pacing" <=> step' = "pacing"
    BY <1>10 DEF Change, RequestPrediction, vars
  <2>2. enabled' = enabled
    BY <1>10, Zenon DEF Change, RequestPrediction, vars
  <2> QED BY <1>1, <2>1, <2>2
<1> QED
  BY <1>3, <1>4, <1>5, <1>6, <1>7, <1>8, <1>9, <1>10 DEF Next, Terminated

\* NeverBehind: while no tick overruns its period, a target is sent at most two
\* periods after its time, whatever predictions take and users change.
THEOREM NeverBehindHolds == ASSUME TicksFit PROVE Spec => NeverBehind
<1> USE TimingAssumption
<1>1. Init => OnTimeInv /\ LagInv
  <2> SUFFICES ASSUME Init PROVE OnTimeInv /\ LagInv
    OBVIOUS
  <2> QED BY DEF Init, OnTimeInv, LagInv
<1>2. IInv /\ OnTimeInv /\ LagInv /\ [Next]_vars => OnTimeInv' /\ LagInv'
  BY OnTimeStep, LagStep DEF IInv
<1>3. IInv /\ OnTimeInv /\ LagInv =>
        [Submit /\ plan # <<>> => clock < Head(plan) + 2 * period]_vars
  <2> SUFFICES ASSUME IInv, OnTimeInv, LagInv, Submit, plan # <<>>
               PROVE  clock < Head(plan) + 2 * period
    OBVIOUS
  <2>1. /\ step = "submitting" /\ clock = started /\ period \in Nat \ {0} /\ deadline \in Nat
        /\ clock \in Nat
    BY DEF Submit, OnTimeInv, IInv, TypeOK
  <2>2. PICK d \in Delays : started = deadline + d
    BY <2>1 DEF OnTimeInv
  <2>3. d \in Nat /\ d < period
    <3>1. period \in Periods
      BY DEF IInv, TypeOK
    <3> QED BY <2>2, <3>1, Fitting
  <2>4. Len(plan) \in Nat /\ 1 \in 1..Len(plan) /\ Head(plan) = plan[1] /\ plan[1] \in Nat
    BY DEF IInv, TypeOK
  <2>5. plan[1] > Base + (1 + 0 - 2) * period
    BY <2>1, <2>4 DEF LagInv
  <2>6. (1 + 0 - 2) * period = -period
    BY <2>1
  <2>7. Base \in Nat /\ clock <= Base + d
    BY <2>1, <2>2, <2>3 DEF Base
  <2>8. plan[1] > Base - period
    BY <2>1, <2>5, <2>6, <2>7
  <2>9. clock < plan[1] + 2 * period
    BY <2>1, <2>3, <2>4, <2>7, <2>8
  <2> QED BY <2>4, <2>9
<1> QED BY <1>1, <1>2, <1>3, TimingInvariance, PTL DEF Spec, NeverBehind

----------------------------------------------------------------------------
(* The supply of targets *)

\* More periods take longer.
LEMMA MorePeriods ==
  ASSUME NEW a \in Nat, NEW b \in Nat, NEW p \in Nat, a <= b
  PROVE  a * p \in Nat /\ b * p \in Nat /\ a * p <= b * p
<1>1. (b - a) \in Nat /\ b = a + (b - a)
  OBVIOUS
<1>2. (b - a) * p \in Nat /\ a * p \in Nat
  BY <1>1
<1>3. b * p = a * p + (b - a) * p
  BY <1>1
<1> QED BY <1>2, <1>3

\* A part of the assumption on predictions, for the present rate.
LEMMA OutlastsNow ==
  ASSUME NEW k, Outlasts(k), TypeOK, NEW d \in Delays, NEW l \in Latencies
  PROVE  /\ k \in Nat \ {0} /\ l \in Nat /\ k <= Horizon /\ l + d <= k * period
         /\ k <= CeilDiv(l, period) + 2
         /\ \A n \in ChunkLengths, e \in Nat :
              e * period <= l + period + d => k + e <= n
BY TimingAssumption DEF Outlasts, TypeOK

\* With a latency measured, the stream asks while k targets are left.
LEMMA PrefetchIs ==
  ASSUME NEW k, Outlasts(k), TypeOK, latency \in Latencies, NEW d \in Delays
  PROVE  PrefetchSteps \in Int /\ k <= PrefetchSteps
<1> USE TimingAssumption
<1>1. k \in Nat /\ k <= Horizon /\ k <= CeilDiv(latency, period) + 2
  BY OutlastsNow
<1>2. Horizon \in Nat /\ (Horizon + 1) \div 2 \in Int
  OBVIOUS
<1>3. CeilDiv(latency, period) \in Int
  BY DEF CeilDiv, TypeOK
<1>4. \A h, c \in Int : LET s == AtMost(Horizon, AtLeast(h, c))
                        IN  s \in Int /\ (k <= Horizon /\ k <= c => k <= s)
  BY <1>1, <1>2 DEF AtMost, AtLeast
<1>5. PrefetchSteps = AtMost(Horizon, AtLeast((Horizon + 1) \div 2, CeilDiv(latency, period) + 2))
  BY DEF PrefetchSteps
<1> QED BY <1>1, <1>2, <1>3, <1>4, <1>5

\* Of a chunk that comes as late as it may, k targets are fresh.
LEMMA FreshEnough ==
  ASSUME NEW k, Outlasts(k), TypeOK, pending # NoRequest,
         pending.took \in Latencies, pending.length \in ChunkLengths,
         NEW elapsed \in Nat, Elapsed(elapsed, pending.at, started),
         NEW d \in Delays, started <= pending.at + pending.took + period + d
  PROVE  FreshCount(elapsed) \in Nat /\ FreshCount(elapsed) >= k
<1> USE TimingAssumption
<1>1. /\ k \in Nat \ {0} /\ pending.took \in Nat /\ d \in Nat /\ k <= Horizon /\ period \in Nat
      /\ pending.at \in Nat /\ started \in Nat /\ pending.length \in Nat /\ Horizon \in Nat
  BY OutlastsNow DEF TypeOK, Request
<1>2. elapsed * period <= started - pending.at /\ elapsed * period \in Nat
  BY <1>1 DEF Elapsed
<1>3. elapsed * period <= pending.took + period + d
  BY <1>1, <1>2
<1>4. k + elapsed <= pending.length
  BY <1>3, OutlastsNow
<1>5. pending.length - elapsed >= k /\ pending.length - elapsed \in Int
  BY <1>1, <1>4
<1> QED BY <1>1, <1>5 DEF FreshCount, AtMost, AtLeast

\* Nothing of the supply depends on a pause, a resume or a wake-up as such.
LEMMA SupplyWake ==
  ASSUME NEW k, TypeOK, SupplyInv(k), Change \/ Wake \/ UNCHANGED vars
  PROVE  SupplyInv(k)'
<1>1. /\ UNCHANGED <<period, pace, plan, lastTarget, pending, retryAt, latency, deadline>>
      /\ \/ step = "sleeping" /\ step' \in {"sleeping", "woken"}
         \/ UNCHANGED <<step, started>>
  BY DEF Change, Wake, vars, loop, gate
<1>2. enabled' = enabled
  BY Zenon DEF Change, Wake, vars, gate
<1>3. Running' <=> Running
  BY <1>1 DEF Running
<1> QED BY <1>1, <1>2, <1>3 DEF SupplyInv, TypeOK

\* A tick begins at the rate it had; a pause or resume that it finds leaves nothing
\* that runs.
LEMMA SupplyPrepare ==
  ASSUME NEW k, Outlasts(k), TypeOK, SupplyInv(k), Prepare
  PROVE  SupplyInv(k)'
<1>1. controlPeriod = period
  BY DEF Outlasts, TypeOK
<1>2. /\ UNCHANGED <<period, pace, latency, deadline>>
      /\ step = "woken" /\ step' = "receiving"
  BY <1>1 DEF Prepare
<1>3. CASE predicting = enabled
  <2>1. UNCHANGED <<plan, retryAt, pending>>
    BY <1>1, <1>3, Zenon DEF Prepare
  <2>2. enabled' = enabled
    BY <1>3, Zenon DEF Prepare
  <2>3. lastTarget' = lastTarget
    BY <1>3, Zenon DEF Prepare
  <2>4. Running' <=> Running
    BY <2>1, <2>3 DEF Running
  <2> QED BY <1>2, <2>1, <2>2, <2>4 DEF SupplyInv, TypeOK
<1>4. CASE predicting # enabled
  <2>1. lastTarget' = NoTarget
    BY <1>4, Zenon DEF Prepare
  <2>2. /\ plan' = <<>> /\ retryAt' = 0
        /\ pending' = IF pending = NoRequest THEN NoRequest
                      ELSE [pending EXCEPT !.current = FALSE]
    BY <1>4, Zenon DEF Prepare
  <2>3. ~Running'
    BY <2>1, <2>2, NoneAssumption DEF Running
  <2>4. pending' # NoRequest => ~pending'.current
    BY <2>2 DEF TypeOK, Request
  <2>5. pace' = period'
    BY <1>2 DEF SupplyInv
  <2> QED BY <1>2, <2>2, <2>3, <2>4, <2>5 DEF SupplyInv
<1> QED BY <1>3, <1>4, Zenon

\* A chunk that is received is long enough for the next one to be awaited.
LEMMA SupplyReceive ==
  ASSUME NEW k, Outlasts(k), TicksFit, TypeOK, TickInv, OnTimeInv, SupplyInv(k), Receive
  PROVE  SupplyInv(k)'
<1> USE TimingAssumption
<1>1. /\ UNCHANGED <<period, pace, lastTarget, started, deadline>>
      /\ step = "receiving" /\ step' = "requesting"
      /\ pending # NoRequest /\ pending' = NoRequest /\ latency' = pending.took
      /\ pending.current
  BY DEF Receive, Answered
<1>2. enabled' = enabled /\ enabled
  BY Zenon DEF Receive
<1>3. /\ pending.took \in Latencies /\ pending.length \in ChunkLengths
      /\ deadline <= pending.at + pending.took + period
  BY <1>1 DEF SupplyInv
<1>4. PICK d \in Delays : started = deadline + d
  BY <1>1 DEF OnTimeInv
<1>5. /\ k \in Nat \ {0} /\ pending.took \in Nat /\ d \in Nat /\ period \in Nat
      /\ deadline \in Nat /\ pending.at \in Nat /\ pending.length \in Nat
  BY <1>1, <1>3, OutlastsNow DEF TypeOK, Request
<1>6. started <= pending.at + pending.took + period + d
  BY <1>3, <1>4, <1>5
<1>7. pending.length # 0
  <2>1. 0 * period <= pending.took + period + d
    BY <1>5
  <2>2. k + 0 <= pending.length
    BY <1>3, <2>1, OutlastsNow
  <2> QED BY <1>5, <2>2
<1>8. PICK elapsed \in 0..(started - pending.at) :
        /\ Elapsed(elapsed, pending.at, started)
        /\ plan' = IF FreshCount(elapsed) # 0 THEN FreshTargets(elapsed) ELSE plan
  BY <1>7 DEF Receive
<1>9. FreshCount(elapsed) \in Nat /\ FreshCount(elapsed) >= k /\ elapsed \in Nat
  BY <1>1, <1>3, <1>5, <1>6, <1>8, FreshEnough
<1>10. plan' = FreshTargets(elapsed)
  BY <1>5, <1>8, <1>9
<1>11. Len(plan') >= k /\ Len(plan') \in Nat
  BY <1>1, <1>9, <1>10, FreshTargetsType
<1>12. retryAt' = retryAt
  BY <1>7 DEF Receive
<1>13. pace' = period' /\ retryAt' = 0
  BY <1>1, <1>12 DEF SupplyInv
<1> QED BY <1>1, <1>2, <1>3, <1>11, <1>13 DEF SupplyInv

\* Without an answer the request is young enough to be in time; one that is dropped
\* was made before a pause, so that nothing runs.
LEMMA SupplyReceiveNothing ==
  ASSUME NEW k, Outlasts(k), TypeOK, TickInv, SupplyInv(k), ReceiveNothing
  PROVE  SupplyInv(k)'
<1> USE TimingAssumption
<1>1. /\ UNCHANGED <<period, pace, plan, lastTarget, retryAt, latency, started, deadline>>
      /\ step = "receiving" /\ step' = IF enabled THEN "requesting" ELSE "pacing"
  BY DEF ReceiveNothing
<1>2. enabled' = enabled
  BY Zenon DEF ReceiveNothing
<1>3. Running' <=> Running
  BY <1>1 DEF Running
<1>4. pending' \in {pending, NoRequest}
  BY DEF ReceiveNothing
<1>5. CASE ~(pending # NoRequest /\ pending.current)
  <2>1. ~(pending' # NoRequest /\ pending'.current)
    BY <1>4, <1>5
  <2>2. Running => enabled /\ pending = NoRequest
    BY <1>5 DEF SupplyInv
  <2>3. Running => step' = "requesting" /\ pending' = NoRequest
    BY <1>1, <1>4, <2>2
  <2> QED BY <1>1, <1>2, <1>3, <2>1, <2>2, <2>3 DEF SupplyInv
<1>6. CASE pending # NoRequest /\ pending.current
  <2>1. enabled /\ pending.took \in Latencies
    BY <1>6 DEF SupplyInv
  <2>2. ~Answered
    BY <1>6, <2>1 DEF ReceiveNothing
  <2>3. pending' = pending /\ step' = "requesting"
    BY <1>1, <2>1, <2>2 DEF ReceiveNothing
  <2>4. /\ pending.at \in Nat /\ pending.took \in Nat /\ started \in Nat /\ deadline \in Nat
        /\ deadline <= started
    BY <1>1, <1>6 DEF TypeOK, Request, TickInv
  <2>5. started < pending.at + pending.took /\ deadline <= pending.at + pending.took + 0
    BY <1>6, <2>2, <2>4 DEF Answered
  <2> QED BY <1>1, <1>2, <1>3, <1>6, <2>1, <2>3, <2>5 DEF SupplyInv
<1> QED BY <1>5, <1>6

\* A request is made in time, and none while there is enough.
LEMMA SupplyRequest ==
  ASSUME NEW k, Outlasts(k), TypeOK, TickInv, OnTimeInv, SupplyInv(k), RequestPrediction
  PROVE  SupplyInv(k)'
<1> USE TimingAssumption
<1>1. /\ UNCHANGED <<period, pace, plan, retryAt, latency, started, deadline>>
      /\ step = "requesting" /\ step' = "submitting"
  BY DEF RequestPrediction
<1>2. enabled' = enabled
  BY Zenon DEF RequestPrediction
<1>3. Running' <=> Running
  BY <1>1, NoneAssumption DEF Running, RequestPrediction
<1>4. PICK d \in Delays : started = deadline + d
  BY <1>1 DEF OnTimeInv
<1>5. /\ k \in Nat \ {0} /\ d \in Nat /\ period \in Nat /\ deadline \in Nat
      /\ started \in Nat /\ Len(plan) \in Nat /\ enabled
  BY <1>1 DEF TypeOK, Outlasts, SupplyInv
<1>6. CASE pending # NoRequest
  <2>1. pending' = pending
    BY <1>6 DEF RequestPrediction
  <2>2. Running => plan # <<>>
    <3> SUFFICES ASSUME Running PROVE plan # <<>>
      OBVIOUS
    <3>1. pending.current
      BY <1>6 DEF SupplyInv
    <3>2. /\ pending.at + pending.took <= deadline + (Len(plan) + 0) * period
          /\ started < pending.at + pending.took /\ pending.at + pending.took \in Nat
      BY <1>1, <1>6, <3>1 DEF SupplyInv, TypeOK, Request
    <3>3. plan = <<>> => (Len(plan) + 0) * period = 0
      BY <1>5
    <3> QED BY <1>4, <1>5, <3>2, <3>3
  <2> QED BY <1>1, <1>2, <1>3, <1>6, <2>1, <2>2 DEF SupplyInv
<1>7. CASE pending = NoRequest
  <2>1. Running => latency \in Latencies /\ Len(plan) >= k
    BY <1>7 DEF SupplyInv
  <2>2. Running => plan # <<>>
    BY <1>5, <2>1
  <2>3. CASE pending' = NoRequest
    <3>1. Running => Len(plan) > k
      <4> SUFFICES ASSUME Running PROVE Len(plan) > k
        OBVIOUS
      <4>1. k <= PrefetchSteps /\ PrefetchSteps \in Int
        BY <2>1, PrefetchIs
      <4>2. started >= retryAt
        BY <1>5 DEF SupplyInv
      <4>3. \A m \in Latencies, n \in ChunkLengths :
              [at |-> started, took |-> m, length |-> n, current |-> TRUE] # NoRequest
        <5>1. \A m \in Latencies, n \in ChunkLengths :
                [at |-> started, took |-> m, length |-> n, current |-> TRUE] \in Request
          BY <1>5 DEF Request
        <5> QED BY <5>1, NoneAssumption
      <4>4. ~(Len(plan) <= PrefetchSteps)
        BY <1>7, <2>3, <4>2, <4>3 DEF RequestPrediction
      <4> QED BY <1>5, <4>1, <4>4
    <3> QED BY <1>1, <1>2, <1>3, <1>5, <1>7, <2>1, <2>2, <2>3, <3>1 DEF SupplyInv
  <2>4. CASE pending' # NoRequest
    <3>1. PICK l \in Latencies, n \in ChunkLengths :
            pending' = [at |-> started, took |-> l, length |-> n, current |-> TRUE]
      BY <1>7, <2>4 DEF RequestPrediction
    <3>2. l \in Nat /\ l + d <= k * period
      BY OutlastsNow
    <3>3. Running => started + l <= deadline + (Len(plan) + 0) * period
      <4> SUFFICES ASSUME Running PROVE started + l <= deadline + (Len(plan) + 0) * period
        OBVIOUS
      <4>1. k * period \in Nat /\ Len(plan) * period \in Nat /\ k * period <= Len(plan) * period
        BY <1>5, <2>1, MorePeriods
      <4>2. (Len(plan) + 0) * period = Len(plan) * period
        BY <1>5
      <4> QED BY <1>4, <1>5, <3>2, <4>1, <4>2
    <3>4. deadline <= started + l + 0
      BY <1>4, <1>5, <3>2
    <3>5. /\ pending'.current /\ pending'.took = l /\ pending'.length = n
          /\ pending'.at = started
      BY <3>1
    <3> QED BY <1>1, <1>2, <1>3, <1>5, <1>7, <2>1, <2>2, <2>4, <3>3, <3>4, <3>5
         DEF SupplyInv
  <2> QED BY <2>3, <2>4
<1> QED BY <1>6, <1>7

\* A target less is a period less to wait.
LEMMA SupplySubmit ==
  ASSUME NEW k, Outlasts(k), TypeOK, SupplyInv(k), Submit
  PROVE  SupplyInv(k)'
<1>1. /\ UNCHANGED <<period, pace, pending, retryAt, latency, deadline>>
      /\ step = "submitting" /\ step' = "pacing"
  BY DEF Submit
<1>2. enabled' = enabled
  BY Zenon DEF Submit
<1>3. CASE plan = <<>>
  <2>1. UNCHANGED <<plan, lastTarget>> /\ ~Running
    BY <1>1, <1>3 DEF Submit, SupplyInv
  <2>2. ~Running'
    BY <2>1 DEF Running
  <2> QED BY <1>1, <1>2, <2>1, <2>2 DEF SupplyInv
<1>4. CASE plan # <<>>
  <2>1. Running
    BY <1>4 DEF Running
  <2>2. Len(plan') = Len(plan) - 1 /\ Len(plan) \in Nat /\ Len(plan') \in Nat
    BY <1>4 DEF Submit, TypeOK
  <2>3. Len(plan') + 1 = Len(plan) + 0 /\ k \in Nat
    BY <2>2 DEF Outlasts
  <2>4. enabled
    BY <2>1 DEF SupplyInv
  <2>5. pending = NoRequest => Len(plan') >= k
    <3>1. pending = NoRequest => Len(plan) > k
      BY <1>1, <2>1 DEF SupplyInv
    <3> QED BY <2>2, <2>3, <3>1
  <2>6. pending # NoRequest =>
          pending.at + pending.took <= deadline + (Len(plan') + 1) * period
    BY <1>1, <2>1, <2>3 DEF SupplyInv
  <2> QED BY <1>1, <1>2, <2>1, <2>4, <2>5, <2>6 DEF SupplyInv
<1> QED BY <1>3, <1>4

\* After a failure nothing runs.
LEMMA SupplyFails ==
  ASSUME NEW k, TypeOK, SupplyInv(k), TickFails
  PROVE  SupplyInv(k)'
<1>1. /\ UNCHANGED <<period, pace, latency, deadline>> /\ step' = "pacing"
      /\ plan' = <<>> /\ lastTarget' = NoTarget /\ retryAt' = 0
  BY DEF TickFails, loop
<1>2. pending' # NoRequest => ~pending'.current
  BY DEF TickFails, TypeOK, Request
<1>3. ~Running'
  BY <1>1, NoneAssumption DEF Running
<1> QED BY <1>1, <1>2, <1>3 DEF SupplyInv

\* The next deadline is a period away.
LEMMA SupplyPace ==
  ASSUME NEW k, Outlasts(k), TicksFit, TypeOK, TickInv, OnTimeInv, SupplyInv(k), Pace
  PROVE  SupplyInv(k)'
<1> USE TimingAssumption
<1>1. /\ UNCHANGED <<period, plan, lastTarget, pending, retryAt, latency>>
      /\ pace' = period /\ step = "pacing" /\ step' = "sleeping"
  BY DEF Pace
<1>2. enabled' = enabled
  BY Zenon DEF Pace
<1>3. Running' <=> Running
  BY <1>1 DEF Running
<1>4. deadline' = deadline + period /\ deadline \in Nat /\ period \in Nat
  BY PaceOnTime DEF SupplyInv, Base, TypeOK
<1>5. Len(plan) \in Nat
  BY DEF TypeOK
<1>6. (Len(plan) + 1) * period = (Len(plan) + 0) * period + period
      /\ (Len(plan) + 0) * period \in Nat
  BY <1>4, <1>5
<1>7. pending # NoRequest /\ pending.current =>
        /\ deadline' <= pending.at + pending.took + period
        /\ Running => pending.at + pending.took <= deadline' + (Len(plan) + 0) * period
  <2> SUFFICES ASSUME pending # NoRequest, pending.current
               PROVE  /\ deadline' <= pending.at + pending.took + period
                      /\ Running =>
                           pending.at + pending.took <= deadline' + (Len(plan) + 0) * period
    OBVIOUS
  <2>1. pending.at \in Nat /\ pending.took \in Nat
    BY DEF TypeOK, Request
  <2>2. deadline <= pending.at + pending.took + 0
    BY <1>1 DEF SupplyInv
  <2>3. Running => pending.at + pending.took <= deadline + (Len(plan) + 1) * period
    BY <1>1 DEF SupplyInv
  <2> QED BY <1>4, <1>5, <1>6, <2>1, <2>2, <2>3
<1> QED BY <1>1, <1>2, <1>3, <1>7 DEF SupplyInv

\* Every step keeps the supply.
LEMMA SupplyStep ==
  ASSUME NEW k, Outlasts(k), TicksFit, TypeOK, TickInv, OnTimeInv, SupplyInv(k),
         [Next]_vars
  PROVE  SupplyInv(k)'
BY SupplyWake, SupplyPrepare, SupplyReceive, SupplyReceiveNothing, SupplyRequest,
   SupplySubmit, SupplyFails, SupplyPace
DEF Next, Terminated

\* NeverRunsDry: if k targets outlast every prediction, a plan that has begun does not
\* run dry, however often it is paused and whatever else fails.
THEOREM NeverRunsDryHolds ==
  ASSUME TicksFit, NEW k, Outlasts(k) PROVE Spec => NeverRunsDry
<1> USE TimingAssumption
<1>1. Init => OnTimeInv /\ SupplyInv(k)
  <2> SUFFICES ASSUME Init PROVE OnTimeInv /\ SupplyInv(k)
    OBVIOUS
  <2>1. ~Running /\ pending = NoRequest
    BY NoneAssumption DEF Init, Running
  <2> QED BY <2>1 DEF Init, OnTimeInv, SupplyInv
<1>2. IInv /\ OnTimeInv /\ SupplyInv(k) /\ [Next]_vars => OnTimeInv' /\ SupplyInv(k)'
  BY OnTimeStep, SupplyStep DEF IInv
<1>3. SupplyInv(k) => [Submit /\ lastTarget \in Nat => plan # <<>>]_vars
  BY DEF SupplyInv, Running, Submit
<1> QED BY <1>1, <1>2, <1>3, TimingInvariance, PTL DEF Spec, NeverRunsDry
============================================================================
