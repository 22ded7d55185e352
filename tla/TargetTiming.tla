---------------------------- MODULE TargetTiming ----------------------------
(***************************************************************************)
(* The live target stream of clients/tidybot_stream.py in time: when       *)
(* run() lets ticks happen, which step of a chunk a tick sends, and when   *)
(* the next prediction is requested.                                       *)
(*                                                                         *)
(* Time is a count of units that divide every duration.  A target is the   *)
(* time it was planned for: step k of a chunk belongs to the time of its   *)
(* observation plus k periods.  Threads are the subject of TidybotStream;  *)
(* here pauses and setting changes happen while the loop sleeps, and one   *)
(* prediction is in flight at most (TidybotStream's OneInFlight), so its   *)
(* answer and the time it takes are a part of the pending request.         *)
(***************************************************************************)
EXTENDS Integers, Sequences

CONSTANTS
  Periods,        \* control periods the user may select
  Horizon,        \* execution horizon
  ChunkLengths,   \* actions of a chunk; 0 stands for a failed prediction
  Latencies,      \* times a prediction may take
  Delays,         \* times by which a wake-up, an RPC or the loop may be late
  RetryDelay,     \* half a second
  MaxClock,       \* bound on time
  MaxChanges,     \* bound on pauses, resumes and period changes
  Window,         \* how many ticks the history `starts' remembers
  NoRequest, NoTarget, MeasuredPose

ASSUME TimingAssumption ==
  /\ Periods \subseteq Nat \ {0} /\ Horizon \in Nat \ {0}
  /\ ChunkLengths \subseteq Nat /\ Latencies \subseteq Nat /\ Delays \subseteq Nat
  /\ RetryDelay \in Nat /\ MaxClock \in Nat
  /\ MaxChanges \in Nat /\ Window \in Nat \ {0}

\* PredictionRequest with its answer: `current' while its generation is.
Request == [at : Nat, took : Nat, length : Nat, current : BOOLEAN]

ASSUME NoneAssumption ==
  NoRequest \notin Request /\ NoTarget \notin Nat /\ MeasuredPose \notin Nat

VARIABLES
  clock, controlPeriod, predicting, enabled, period,
  plan,         \* _targets: the times the queued targets are planned for
  lastTarget,   \* such a time, MeasuredPose or NoTarget
  pending, latency, retryAt,
  step,         \* where run() and tick() are
  started,      \* run's `started', which is tick's `now'
  deadline, pace,   \* run's `deadline' and its local `period'
  changes,      \* history: interventions so far
  starts        \* history: `started' of the latest ticks, all at the present rate

client == <<controlPeriod, predicting, changes>>
loop   == <<started, deadline, pace, starts>>
gate   == <<enabled, period, plan, lastTarget, pending, retryAt>>
vars   == <<clock, client, loop, gate, latency, step>>

Steps == {"sleeping", "woken", "receiving", "requesting", "submitting", "pacing"}

AtLeast(a, b) == IF a >= b THEN a ELSE b
AtMost(a, b)  == IF a <= b THEN a ELSE b
CeilDiv(a, b) == (a + b - 1) \div b

\* Time goes on by one of the possible delays.
Later(from) == \E d \in Delays : clock' = from + d

\* run, up to the first tick.
Init ==
  /\ clock = 0
  /\ controlPeriod \in Periods /\ period = controlPeriod /\ pace = period
  /\ predicting \in BOOLEAN /\ enabled = predicting
  /\ plan = <<>> /\ lastTarget = NoTarget
  /\ pending = NoRequest /\ latency = 0 /\ retryAt = 0
  /\ step = "sleeping" /\ started = 0 /\ deadline = 0
  /\ changes = 0 /\ starts = <<>>

----------------------------------------------------------------------------
(* Users *)

\* A pause or resume or a new dt reaches the client between two ticks.
Change ==
  /\ step = "sleeping" /\ changes < MaxChanges
  /\ \/ predicting' = ~predicting /\ UNCHANGED controlPeriod
     \/ controlPeriod' \in Periods \ {controlPeriod} /\ UNCHANGED predicting
  /\ changes' = changes + 1
  /\ UNCHANGED <<clock, loop, gate, latency, step>>

----------------------------------------------------------------------------
(* The loop *)

\* run: stop_event.wait(remaining) returns at the deadline or somewhat later.
Wake ==
  /\ step = "sleeping" /\ clock < MaxClock
  /\ Later(AtLeast(clock, deadline))
  /\ started' = clock'
  /\ starts' = Append(IF Len(starts) < Window THEN starts ELSE Tail(starts), clock')
  /\ step' = "woken"
  /\ UNCHANGED <<client, gate, latency, deadline, pace>>

\* tick: the enabled flag and the period; a change of either invalidates.
Prepare ==
  LET toggled == predicting # enabled
      rated   == controlPeriod # period
  IN  /\ step = "woken"
      /\ enabled' = predicting
      /\ period' = controlPeriod
      /\ lastTarget' = IF toggled THEN NoTarget ELSE lastTarget
      /\ IF toggled \/ rated
         THEN /\ plan' = <<>>
              /\ retryAt' = 0
              /\ pending' = IF pending = NoRequest THEN NoRequest
                            ELSE [pending EXCEPT !.current = FALSE]
         ELSE UNCHANGED <<plan, retryAt, pending>>
      /\ starts' = IF rated THEN <<started>> ELSE starts
      /\ step' = "receiving"
      /\ UNCHANGED <<clock, client, started, deadline, pace, latency>>

Answered == pending # NoRequest /\ pending.at + pending.took <= started

\* Faulty variant: a chunk is used from its beginning whenever it arrives.
ElapsedIgnored(elapsed, from, until) == elapsed = 0

\* Faulty variant: the number of elapsed periods is rounded up.
ElapsedRoundedUp(elapsed, from, until) ==
  /\ (elapsed - 1) * period < until - from
  /\ until - from <= elapsed * period

\* elapsed = floor((until - from) / period).
Elapsed(elapsed, from, until) ==
  /\ elapsed * period <= until - from
  /\ until - from < (elapsed + 1) * period

FreshCount(elapsed) == AtMost(Horizon, AtLeast(pending.length - elapsed, 0))

\* actions[elapsed : elapsed + horizon], each with the time it is planned for.
FreshTargets(elapsed) ==
  [i \in 1..FreshCount(elapsed) |-> pending.at + (elapsed + i - 1) * period]

\* _receive: the answer to a request of the current generation.
Receive ==
  /\ step = "receiving" /\ Answered /\ pending.current /\ enabled
  /\ \/ /\ pending.length = 0
        /\ retryAt' = started + RetryDelay
        /\ UNCHANGED plan
     \/ /\ pending.length # 0
        /\ \E elapsed \in 0..(started - pending.at) :
             /\ Elapsed(elapsed, pending.at, started)
             /\ plan' = IF FreshCount(elapsed) # 0 THEN FreshTargets(elapsed) ELSE plan
        /\ UNCHANGED retryAt
  /\ latency' = pending.took
  /\ pending' = NoRequest
  /\ step' = "requesting"
  /\ UNCHANGED <<clock, client, loop, enabled, period, lastTarget>>

\* _receive: no answer yet, or one of an earlier generation.
ReceiveNothing ==
  /\ step = "receiving" /\ ~(Answered /\ pending.current /\ enabled)
  /\ pending' = IF Answered THEN NoRequest ELSE pending
  /\ step' = IF enabled THEN "requesting" ELSE "pacing"
  /\ UNCHANGED <<clock, client, loop, enabled, period, plan, lastTarget, retryAt, latency>>

\* Faulty variant: the measured latency is not considered.
PrefetchHalf == (Horizon + 1) \div 2

\* The queue may be this long when the next prediction is requested.
PrefetchSteps ==
  AtMost(Horizon, AtLeast((Horizon + 1) \div 2, CeilDiv(latency, period) + 2))

\* tick: seed the last target and request a prediction if it is time to.
RequestPrediction ==
  /\ step = "requesting"
  /\ lastTarget' = IF lastTarget = NoTarget THEN MeasuredPose ELSE lastTarget
  /\ IF pending = NoRequest /\ Len(plan) <= PrefetchSteps /\ started >= retryAt
     THEN \E l \in Latencies, n \in ChunkLengths :
            pending' = [at |-> started, took |-> l, length |-> n, current |-> TRUE]
     ELSE UNCHANGED pending
  /\ step' = "submitting"
  /\ UNCHANGED <<clock, client, loop, enabled, period, plan, retryAt, latency>>

\* tick: send the next target of the plan, or the last one again.
Submit ==
  /\ step = "submitting"
  /\ Later(clock)
  /\ IF plan # <<>>
     THEN lastTarget' = Head(plan) /\ plan' = Tail(plan)
     ELSE UNCHANGED <<lastTarget, plan>>
  /\ step' = "pacing"
  /\ UNCHANGED <<client, loop, enabled, period, pending, retryAt, latency>>

\* tick: the observation or the RPC failed; the stream closes itself.
TickFails ==
  /\ step \in {"requesting", "submitting"} /\ changes < MaxChanges
  /\ Later(clock)
  /\ predicting' = FALSE /\ enabled' = FALSE
  /\ plan' = <<>> /\ lastTarget' = NoTarget /\ retryAt' = 0
  /\ pending' = IF pending = NoRequest THEN NoRequest
                ELSE [pending EXCEPT !.current = FALSE]
  /\ changes' = changes + 1
  /\ step' = "pacing"
  /\ UNCHANGED <<controlPeriod, loop, period, latency>>

\* Faulty variant: catches up with the deadlines it missed.
NextDeadlineCatchingUp(now) == (IF period # pace THEN started ELSE deadline) + period

\* run: one period after the previous deadline, or after `now' if that is
\* over; a change of the period counts from the start of this tick.
NextDeadline(now) ==
  LET next == (IF period # pace THEN started ELSE deadline) + period
  IN  IF next <= now THEN now + period ELSE next

Pace ==
  /\ step = "pacing"
  /\ Later(clock)
  /\ deadline' = NextDeadline(clock')
  /\ pace' = period
  /\ step' = "sleeping"
  /\ UNCHANGED <<client, gate, latency, started, starts>>

Terminated == step = "sleeping" /\ clock >= MaxClock /\ UNCHANGED vars

Next ==
  \/ Change \/ Wake \/ Prepare \/ Receive \/ ReceiveNothing
  \/ RequestPrediction \/ Submit \/ TickFails \/ Pace \/ Terminated

Spec == Init /\ [][Next]_vars
----------------------------------------------------------------------------
(* Properties *)

TypeOK ==
  /\ clock \in Nat /\ controlPeriod \in Periods /\ period \in Periods /\ pace \in Periods
  /\ predicting \in BOOLEAN /\ enabled \in BOOLEAN
  /\ plan \in Seq(Nat) /\ lastTarget \in Nat \cup {NoTarget, MeasuredPose}
  /\ pending \in Request \cup {NoRequest}
  /\ latency \in Nat /\ retryAt \in Nat
  /\ step \in Steps /\ started \in Nat /\ deadline \in Nat
  /\ changes \in 0..MaxChanges /\ starts \in Seq(Nat)

\* However long ticks take and however late they start, any n + 1 ticks at one
\* rate span more than n - 1 periods: an overrun is never followed by a burst of
\* targets ("Don't send a burst of targets to catch up after an RPC overrun").
NoBurst ==
  \A i, j \in 1..Len(starts) :
    i < j => starts[j] - starts[i] > (j - i - 1) * period

\* The loop never sleeps for more than one period of the present rate, also
\* when the rate has just been raised.
SleepsAtMostOnePeriod == step = "sleeping" => deadline <= clock + pace

\* No target leaves a whole period or more before the time it is planned for:
\* chunks that arrive early, late or one after the other never let the arm run
\* ahead of the plan ("Outputs describe future steps relative to the request
\* observation").
NeverAhead == [][Submit /\ plan # <<>> => Head(plan) < clock + period]_vars

\* As long as no tick overruns its period, no target leaves two periods or more
\* after the time it is planned for, however late its chunk arrived ("Replace the
\* old plan with the part whose time has not passed").
NeverBehind == [][Submit /\ plan # <<>> => clock < Head(plan) + 2 * period]_vars

\* A plan that has begun to be executed does not run dry, whatever predictions take
\* within the two spare ticks and however often the stream is paused or fails ("enough
\* targets left to cover the observed latency, plus two ticks").
NeverRunsDry == [][Submit /\ lastTarget \in Nat => plan # <<>>]_vars

----------------------------------------------------------------------------
(* The inductive invariant behind the properties that hold for all delays *)

\* A tick starts at its deadline or later; a new rate is a new history.
TickInv ==
  /\ step \in {"sleeping", "woken"} => pace = period
  /\ step # "sleeping" =>
       /\ deadline <= started /\ started <= clock
       /\ Len(starts) # 0 /\ starts[Len(starts)] = started
       /\ pace # period => Len(starts) = 1

\* The deadline is behind every remembered tick by more than the periods that
\* followed that tick; during a tick, by those before this tick.
DeadlineInv ==
  LET n == IF step = "sleeping" THEN Len(starts) ELSE Len(starts) - 1
  IN  \A i \in 1..n : deadline > starts[i] + (n - i) * period

\* A target of the old plan is due within as many periods after the deadline as
\* targets are sent up to it, one of a new plan after the start of this tick.
PlanInv ==
  LET sent == IF step = "pacing" THEN 1 ELSE 0
  IN  \A i \in 1..Len(plan) :
        \/ pace = period /\ plan[i] < deadline + (i + sent) * period
        \/ step # "sleeping" /\ plan[i] <= started + (i + sent - 1) * period

IInv == TypeOK /\ TickInv /\ DeadlineInv /\ PlanInv /\ NoBurst /\ SleepsAtMostOnePeriod

----------------------------------------------------------------------------
(* What holds while ticks keep within their periods *)

\* A wake-up, an RPC and the rest of the loop, late as they are, fit into a period.
TicksFit == \A a, b, c \in Delays, p \in Periods : a + b + c < p

\* Each deadline is kept but for the wake-up's delay.
OnTimeInv ==
  /\ step = "sleeping" => clock <= deadline
  /\ step # "sleeping" => \E d \in Delays : started = deadline + d
  /\ step \notin {"sleeping", "pacing"} => clock = started
  /\ step = "pacing" => \E d \in Delays \cup {0} : clock = started + d

\* Where the next deadline is counted from.
Base == IF pace = period THEN deadline ELSE started

\* The targets of the plan follow each other by a period, as the deadlines do.
LagInv ==
  LET sent == IF step = "pacing" THEN 1 ELSE 0
  IN  /\ enabled \/ plan = <<>>
      /\ \A i \in 1..Len(plan) : plan[i] > Base + (i + sent - 2) * period

\* k targets outlast any prediction and a late wake-up: the stream asks while it has
\* as many left, whichever latency it measured last, and what is fresh of a chunk is
\* as many.  The period stays what it is, as a new one drops the plan.
Outlasts(k) ==
  /\ \A p, q \in Periods : p = q
  /\ k \in Nat \ {0} /\ k <= Horizon
  /\ \A p \in Periods, d \in Delays, l \in Latencies :
       /\ l + d <= k * p /\ k <= CeilDiv(l, p) + 2
       /\ \A n \in ChunkLengths, e \in Nat : e * p <= l + p + d => k + e <= n

Running == plan # <<>> \/ lastTarget \in Nat

\* A request is answered before the plan has been sent, and without one the plan
\* is long enough to wait for the next.
SupplyInv(k) ==
  LET sent == IF step = "pacing" THEN 1 ELSE 0
      late == IF step \in {"sleeping", "woken", "receiving"} THEN period ELSE 0
  IN  /\ pace = period /\ retryAt = 0
      /\ step = "requesting" => enabled
      /\ ~enabled => ~Running
      /\ pending # NoRequest /\ pending.current =>
           /\ enabled /\ pending.took \in Latencies /\ pending.length \in ChunkLengths
           /\ deadline <= pending.at + pending.took + late
           /\ step = "requesting" => started < pending.at + pending.took
           /\ Running => pending.at + pending.took <= deadline + (Len(plan) + sent) * period
      /\ Running =>
           /\ latency \in Latencies
           /\ pending = NoRequest => Len(plan) >= k
           /\ pending = NoRequest /\ step = "submitting" => Len(plan) > k
           /\ pending # NoRequest => pending.current
           /\ step = "submitting" => plan # <<>>
============================================================================
