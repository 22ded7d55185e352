-------------------------- MODULE GuiSession_proofs --------------------------
(***************************************************************************)
(* Proofs about GuiSession for any set of clicks, whatever fails: however  *)
(* often and in whatever order the buttons are pressed, one initialization *)
(* and one loop at a time, and a page that tells the truth about both.     *)
(***************************************************************************)
EXTENDS GuiSession, SequenceTheorems, TLAPS

----------------------------------------------------------------------------
(* Types *)

\* Every step keeps the flags Boolean.
LEMMA FlagsStep == FlagsOK /\ [Next]_vars => FlagsOK'
<1> SUFFICES ASSUME FlagsOK, [Next]_vars PROVE FlagsOK'
  OBVIOUS
<1> USE DEF FlagsOK
<1>1. ASSUME NEW r \in Requests, ToggleRefused(r) PROVE FlagsOK'
  BY <1>1, Zenon DEF ToggleRefused, shown, player
<1>2. ASSUME NEW r \in Requests, Toggle(r) PROVE FlagsOK'
  BY <1>2, Zenon DEF Toggle, shown, player
<1>3. ASSUME NEW r \in Requests, StartClick(r) PROVE FlagsOK'
  BY <1>3, Zenon DEF StartClick, shown, player
<1>4. ASSUME NEW r \in Requests, GoHome(r) PROVE FlagsOK'
  BY <1>4, Zenon DEF GoHome, player
<1>5. ASSUME NEW r \in Requests, AwakeClick(r) PROVE FlagsOK'
  BY <1>5, Zenon DEF AwakeClick, FireAwake, player
<1>6. ASSUME NEW r \in Requests, StartAwakes(r) PROVE FlagsOK'
  BY <1>6, Zenon DEF StartAwakes, FireAwake, player
<1>7. ASSUME NEW r \in Requests, StartFire(r) PROVE FlagsOK'
  BY <1>7, Zenon DEF StartFire, player
<1>8. ASSUME NEW r \in Requests, RunnerAwaits(r) PROVE FlagsOK'
  BY <1>8, Zenon DEF RunnerAwaits, StartFails, player
<1>9. ASSUME NEW r \in Requests, RunnerBegins(r) PROVE FlagsOK'
  BY <1>9, Zenon DEF RunnerBegins, StartFails, player
<1>10. ASSUME NEW r \in Requests, RunnerStarts(r) PROVE FlagsOK'
  BY <1>10, Zenon DEF RunnerStarts, StartFails, player
<1>11. ASSUME NEW r \in Requests, Pause(r) PROVE FlagsOK'
  BY <1>11, Zenon DEF Pause, PauseShown
<1>12. ASSUME NEW r \in Requests, Unpause(r) PROVE FlagsOK'
  BY <1>12, Zenon DEF Unpause, UnpauseShown
<1>13. ASSUME NEW r \in Requests, HomePauses(r) PROVE FlagsOK'
  BY <1>13, Zenon DEF HomePauses, PauseShown
<1>14. ASSUME NEW r \in Requests, HomeBegins(r) PROVE FlagsOK'
  BY <1>14, Zenon DEF HomeBegins, shown, player
<1>15. ASSUME NEW r \in Requests, HomeEnds(r) PROVE FlagsOK'
  BY <1>15, Zenon DEF HomeEnds, player
<1>16. ASSUME NEW r \in Requests, HomeResumes(r) PROVE FlagsOK'
  BY <1>16, Zenon DEF HomeResumes, UnpauseShown
<1>17. ASSUME NEW i \in 1..Len(attempts), Initialize(i) PROVE FlagsOK'
  BY <1>17, Zenon DEF Initialize, player
<1>18. CASE PlayerPauses
  BY <1>18, Zenon DEF PlayerPauses, shown
<1>19. CASE PlayerPaused
  BY <1>19, Zenon DEF PlayerPaused, shown
<1>20. CASE PlayerUnpauses
  BY <1>20, Zenon DEF PlayerUnpauses, shown
<1>21. CASE PlayerUnpaused
  BY <1>21, Zenon DEF PlayerUnpaused, shown
<1>22. CASE TickBegin
  BY <1>22, Zenon DEF TickBegin, shown
<1>23. CASE TickSends
  BY <1>23, Zenon DEF TickSends, shown
<1>24. CASE TickFails
  BY <1>24, Zenon DEF TickFails, shown
<1>25. CASE UNCHANGED vars
  BY <1>25, Zenon DEF vars, shown, player
<1>26. ASSUME NEW r \in Requests, LoopReturns(r) PROVE FlagsOK'
  <2>1. predicting' \in BOOLEAN
    BY <1>26 DEF LoopReturns
  <2> QED BY <1>26, <2>1, Zenon DEF LoopReturns, shown
<1>27. ASSUME NEW r \in Requests, LoopRaises(r) PROVE FlagsOK'
  <2>1. predicting' \in BOOLEAN
    BY <1>27 DEF LoopRaises
  <2> QED BY <1>27, <2>1, Zenon DEF LoopRaises, StartFails
<1>28. CASE WorkerEnds
  BY <1>28, Zenon DEF WorkerEnds, shown
<1> QED
  BY <1>1, <1>2, <1>3, <1>4, <1>5, <1>6, <1>7, <1>8, <1>9, <1>10, <1>11, <1>12, <1>13,
    <1>14, <1>15, <1>16, <1>17, <1>18, <1>19, <1>20, <1>21, <1>22, <1>23, <1>24, <1>25,
    <1>26, <1>27, <1>28
  DEF Next, Continues, PlayerThreads, Tick, Finished

\* No attempt is made, or a pending one follows those that were made.
LEMMA FireAwakeAttempts ==
  ASSUME DataOK, FireAwake
  PROVE  /\ attempts' \in Seq(Outcomes)
         /\ \/ attempts' = attempts /\ initializing' = initializing
            \/ /\ MayAwake /\ Len(attempts') = Len(attempts) + 1
               /\ attempts'[Len(attempts) + 1] = "pending"
               /\ \A i \in 1..Len(attempts) : attempts'[i] = attempts[i]
         /\ MayAwake => attempts' # <<>>
<1>1. CASE MayAwake
  <2>1. attempts' = Append(attempts, "pending")
    BY <1>1, Zenon DEF FireAwake
  <2>2. attempts \in Seq(Outcomes) /\ "pending" \in Outcomes
    BY DEF DataOK, Outcomes
  <2> QED BY <1>1, <2>1, <2>2, AppendProperties
<1>2. CASE ~MayAwake
  BY <1>2, Zenon DEF FireAwake, DataOK
<1> QED BY <1>1, <1>2

\* Futures that were captured are still among the attempts.
LEMMA MoreAttempts ==
  ASSUME DataOK, FireAwake
  PROVE  /\ attempts' \in Seq(Outcomes)
         /\ waits \in [Requests -> 0..Len(attempts')]
<1>1. Len(attempts') >= Len(attempts)
  BY FireAwakeAttempts DEF DataOK
<1>2. Len(attempts) \in Nat /\ Len(attempts') \in Nat
  BY FireAwakeAttempts, LenProperties DEF DataOK
<1> QED BY <1>1, <1>2, FireAwakeAttempts DEF DataOK

\* An attempt ends well or badly, and the others are as they were.
LEMMA InitializeAttempts ==
  ASSUME DataOK, NEW i \in 1..Len(attempts), Initialize(i)
  PROVE  /\ attempts' \in Seq(Outcomes) /\ Len(attempts') = Len(attempts)
         /\ attempts[i] = "pending"
         /\ \A j \in 1..Len(attempts) : j # i => attempts'[j] = attempts[j]
         /\ \/ attempts'[i] = "ok" /\ awake' = TRUE
            \/ attempts'[i] = "failed" /\ awake' = awake
<1>1. attempts \in Seq(Outcomes) /\ {"ok", "failed"} \subseteq Outcomes
  BY DEF DataOK, Outcomes
<1>2. \/ attempts' = [attempts EXCEPT ![i] = "ok"] /\ awake' = TRUE
      \/ attempts' = [attempts EXCEPT ![i] = "failed"] /\ awake' = awake
  BY Zenon DEF Initialize
<1>3. attempts[i] = "pending"
  BY DEF Initialize
<1>4. \A e \in Outcomes :
        /\ [attempts EXCEPT ![i] = e] \in Seq(Outcomes)
        /\ Len([attempts EXCEPT ![i] = e]) = Len(attempts)
        /\ \A j \in 1..Len(attempts) :
             [attempts EXCEPT ![i] = e][j] = IF j = i THEN e ELSE attempts[j]
  BY <1>1, ExceptSeq
<1>5. CASE attempts' = [attempts EXCEPT ![i] = "ok"] /\ awake' = TRUE
  BY <1>1, <1>3, <1>4, <1>5
<1>6. CASE attempts' = [attempts EXCEPT ![i] = "failed"] /\ awake' = awake
  BY <1>1, <1>3, <1>4, <1>6
<1> QED BY <1>2, <1>5, <1>6

\* The counts of the player's threads stay counts.
LEMMA MoveType ==
  ASSUME calls \in [Calls -> Nat], NEW call \in Calls, NEW next \in Calls \cup {"done"},
         Move(call, next)
  PROVE  calls' \in [Calls -> Nat]
BY DEF Move

\* So they do when a thread is started, or when the button changes nothing.
LEMMA PauseShownType ==
  ASSUME calls \in [Calls -> Nat], PauseShown
  PROVE  calls' \in [Calls -> Nat]
BY DEF PauseShown, Fire

LEMMA UnpauseShownType ==
  ASSUME calls \in [Calls -> Nat], UnpauseShown
  PROVE  calls' \in [Calls -> Nat]
BY DEF UnpauseShown, Fire

\* Every step keeps the other variables in their types.
LEMMA DataStep == TypeOK /\ [Next]_vars => DataOK'
<1> SUFFICES ASSUME TypeOK, [Next]_vars PROVE DataOK'
  OBVIOUS
<1> USE DEF TypeOK, DataOK
<1>1. ASSUME NEW r \in Requests, ToggleRefused(r) PROVE DataOK'
  BY <1>1 DEF ToggleRefused, player, kept, Places
<1>2. ASSUME NEW r \in Requests, Toggle(r) PROVE DataOK'
  <2>1. at' \in [Requests -> Places]
    BY <1>2 DEF Toggle, Places
  <2> QED BY <1>2, <2>1 DEF Toggle, player, kept
<1>3. ASSUME NEW r \in Requests, StartClick(r) PROVE DataOK'
  BY <1>3 DEF StartClick, player, kept, Places
<1>4. ASSUME NEW r \in Requests, GoHome(r) PROVE DataOK'
  <2>1. at' \in [Requests -> Places]
    BY <1>4 DEF GoHome, Places, Homing
  <2>2. wasPaused' \in [Requests -> BOOLEAN]
    BY <1>4 DEF GoHome, FlagsOK
  <2> QED BY <1>4, <2>1, <2>2 DEF GoHome, player
<1>5. ASSUME NEW r \in Requests, AwakeClick(r) PROVE DataOK'
  BY <1>5, MoreAttempts DEF AwakeClick, player, kept, Places
<1>6. ASSUME NEW r \in Requests, StartAwakes(r) PROVE DataOK'
  BY <1>6, MoreAttempts DEF StartAwakes, Step, player, kept, Places
<1>7. ASSUME NEW r \in Requests, StartFire(r) PROVE DataOK'
  <2>1. at' \in [Requests -> Places]
    BY <1>7 DEF StartFire, Places, Runner, Started
  <2>2. waits' \in [Requests -> 0..Len(attempts)]
    <3>1. Len(attempts) \in 0..Len(attempts)
      OBVIOUS
    <3>2. waits' = waits \/ waits' = [waits EXCEPT ![r] = Len(attempts)]
      BY <1>7, Zenon DEF StartFire
    <3> QED BY <3>1, <3>2
  <2> QED BY <1>7, <2>1, <2>2 DEF StartFire, player
<1>8. ASSUME NEW r \in Requests, RunnerAwaits(r) PROVE DataOK'
  BY <1>8 DEF RunnerAwaits, StartFails, player, kept, Places, Runner, Started
<1>9. ASSUME NEW r \in Requests, RunnerBegins(r) PROVE DataOK'
  BY <1>9 DEF RunnerBegins, StartFails, player, kept, Places, Runner, Started
<1>10. ASSUME NEW r \in Requests, RunnerStarts(r) PROVE DataOK'
  BY <1>10 DEF RunnerStarts, StartFails, player, kept, Places, Runner, Started
<1>11. ASSUME NEW r \in Requests, Pause(r) PROVE DataOK'
  BY <1>11, PauseShownType DEF Pause, Step, kept, Places
<1>12. ASSUME NEW r \in Requests, Unpause(r) PROVE DataOK'
  BY <1>12, UnpauseShownType DEF Unpause, Step, kept, Places
<1>13. ASSUME NEW r \in Requests, HomePauses(r) PROVE DataOK'
  BY <1>13, PauseShownType DEF HomePauses, Step, kept, Places, Homing
<1>14. ASSUME NEW r \in Requests, HomeBegins(r) PROVE DataOK'
  BY <1>14 DEF HomeBegins, Step, player, kept, Places, Homing
<1>15. ASSUME NEW r \in Requests, HomeEnds(r) PROVE DataOK'
  BY <1>15 DEF HomeEnds, Step, player, kept, Places, Homing
<1>16. ASSUME NEW r \in Requests, HomeResumes(r) PROVE DataOK'
  <2>1. calls' \in [Calls -> Nat]
    BY <1>16, UnpauseShownType DEF HomeResumes
  <2> QED BY <1>16, <2>1 DEF HomeResumes, Step, kept, Places
<1>17. ASSUME NEW i \in 1..Len(attempts), Initialize(i) PROVE DataOK'
  <2>1. attempts' \in Seq(Outcomes) /\ Len(attempts') = Len(attempts)
    BY <1>17, InitializeAttempts
  <2> QED BY <1>17, <2>1 DEF Initialize, player, kept
<1>18. CASE PlayerPauses
  BY <1>18, MoveType DEF PlayerPauses, kept, Calls
<1>19. CASE PlayerPaused
  BY <1>19, MoveType DEF PlayerPaused, kept, Calls
<1>20. CASE PlayerUnpauses
  BY <1>20, MoveType DEF PlayerUnpauses, kept, Calls
<1>21. CASE PlayerUnpaused
  BY <1>21, MoveType DEF PlayerUnpaused, kept, Calls
<1>22. CASE TickBegin
  BY <1>22 DEF TickBegin, kept
<1>23. CASE TickSends
  BY <1>23 DEF TickSends, kept
<1>24. CASE TickFails
  BY <1>24 DEF TickFails, kept
<1>25. CASE UNCHANGED vars
  BY <1>25 DEF vars, kept, player
<1>26. ASSUME NEW r \in Requests, LoopReturns(r) PROVE DataOK'
  BY <1>26 DEF LoopReturns, Step, kept, Places, Runner, Started
<1>27. ASSUME NEW r \in Requests, LoopRaises(r) PROVE DataOK'
  BY <1>27 DEF LoopRaises, StartFails, kept, Places
<1>28. CASE WorkerEnds
  BY <1>28 DEF WorkerEnds, kept
<1> QED
  BY <1>1, <1>2, <1>3, <1>4, <1>5, <1>6, <1>7, <1>8, <1>9, <1>10, <1>11, <1>12, <1>13,
    <1>14, <1>15, <1>16, <1>17, <1>18, <1>19, <1>20, <1>21, <1>22, <1>23, <1>24, <1>25,
    <1>26, <1>27, <1>28
  DEF Next, Continues, PlayerThreads, Tick, Finished

\* Types are inductive.
LEMMA TypeStep == TypeOK /\ [Next]_vars => TypeOK'
BY FlagsStep, DataStep DEF TypeOK

\* They hold initially.
LEMMA TypeInit == Init => TypeOK
<1> SUFFICES ASSUME Init PROVE TypeOK
  OBVIOUS
<1>1. FlagsOK
  BY Zenon DEF Init, FlagsOK
<1>2. DataOK
  BY DEF Init, DataOK, Places, Calls
<1> QED BY <1>1, <1>2 DEF TypeOK

\* Every reachable state is well typed.
THEOREM TypeCorrect == Spec => []TypeOK
<1>1. TypeOK /\ [Next]_vars => TypeOK'
  BY TypeStep
<1> QED BY TypeInit, <1>1, PTL DEF Spec

----------------------------------------------------------------------------
(* The start *)

StartInv == OneAwake /\ OneRunner /\ FutureInv /\ AwakeInv /\ ShownIsTrue

\* Steps that leave attempts and start alone, and move only requests that have
\* nothing to do with them.
Kept == UNCHANGED <<attempts, waits, startFired, awake, starting, started>>
Elsewhere ==
  \A r \in Requests :
    \/ at'[r] = at[r]
    \/ at[r] \notin Runner /\ at'[r] \notin Runner \cup {"startFire"}

\* Such a step keeps the properties of the start, if the page shows no false pause.
LEMMA FrameStep ==
  ASSUME IInv, Kept, Elsewhere, paused' => started
  PROVE  StartInv'
<1> USE DEF IInv, Kept, Elsewhere
<1>1. OneAwake'
  BY DEF OneAwake
<1>2. OneRunner'
  BY DEF OneRunner
<1>3. FutureInv'
  BY DEF FutureInv, Runner, Started
<1>4. AwakeInv'
  BY Zenon DEF AwakeInv, Bound
<1>5. /\ Some({"awaiting"})' <=> Some({"awaiting"})
      /\ Some(Started)' <=> Some(Started)
  BY DEF Some, Runner, Started
<1>6. ShownIsTrue'
  BY <1>5, Zenon DEF ShownIsTrue
<1> QED BY <1>1, <1>2, <1>3, <1>4, <1>6 DEF StartInv

\* A request that moves, and nobody else does.
LEMMA MoveElsewhere ==
  ASSUME TypeOK, NEW r \in Requests, at[r] \notin Runner,
         NEW to, to \notin Runner \cup {"startFire"}, at' = [at EXCEPT ![r] = to]
  PROVE  Elsewhere
BY DEF TypeOK, DataOK, Elsewhere

\* Nobody moves.
LEMMA StayElsewhere == at' = at => Elsewhere
BY DEF Elsewhere

\* What pause() and unpause() make the page show.
LEMMA ShownPaused ==
  ASSUME IInv, PauseShown \/ UnpauseShown \/ paused' = paused
  PROVE  paused' => started
BY Zenon DEF IInv, ShownIsTrue, PauseShown, Pauses, UnpauseShown, Unpauses

\* The page's handlers, homing and the player's threads are such steps.
LEMMA HandlersKeep ==
  ASSUME IInv, NEW r \in Requests,
         \/ ToggleRefused(r) \/ Toggle(r) \/ StartClick(r) \/ GoHome(r)
         \/ Pause(r) \/ Unpause(r)
         \/ HomePauses(r) \/ HomeBegins(r) \/ HomeEnds(r) \/ HomeResumes(r)
  PROVE  StartInv'
<1>1. Kept
  BY Zenon DEF Kept, kept, shown, ToggleRefused, Toggle, StartClick, GoHome, Pause,
    Unpause, HomePauses, HomeBegins, HomeEnds, HomeResumes
<1>2. PauseShown \/ UnpauseShown \/ paused' = paused
  BY Zenon DEF shown, ToggleRefused, Toggle, StartClick, GoHome, Pause,
    Unpause, HomePauses, HomeBegins, HomeEnds, HomeResumes
<1>3. \E to \in Places \ (Runner \cup {"startFire"}) : at' = [at EXCEPT ![r] = to]
  BY DEF Places, Homing, Runner, Started, Step, ToggleRefused, Toggle, StartClick, GoHome, Pause,
    Unpause, HomePauses, HomeBegins, HomeEnds, HomeResumes
<1>4. at[r] \notin Runner
  BY DEF Runner, Started, Click, Step, ToggleRefused, Toggle, StartClick, GoHome, Pause,
    Unpause, HomePauses, HomeBegins, HomeEnds, HomeResumes
<1>5. Elsewhere
  BY <1>3, <1>4, MoveElsewhere DEF IInv
<1> QED BY <1>1, <1>2, <1>5, ShownPaused, FrameStep

\* So are the steps of the player's threads, of the stream, and stutters.
LEMMA PlayerKeeps ==
  ASSUME IInv, PlayerThreads \/ Tick \/ WorkerEnds \/ UNCHANGED vars
  PROVE  StartInv'
<1>1. Kept /\ at' = at /\ paused' = paused
  BY Zenon DEF Kept, kept, shown, vars, PlayerThreads, PlayerPauses, PlayerPaused,
    PlayerUnpauses, PlayerUnpaused, Tick, TickBegin, TickSends, TickFails, WorkerEnds
<1> QED BY <1>1, StayElsewhere, ShownPaused, FrameStep

\* A further attempt is made only after all others failed, when no start relies
\* on one that succeeded.
LEMMA FireAwakeStep ==
  ASSUME IInv, FireAwake, UNCHANGED <<waits, startFired, awake, starting, started, paused>>,
         NEW r \in Requests, at[r] \notin Runner, NEW to \in {"startFire", "done"},
         at' = [at EXCEPT ![r] = to]
  PROVE  StartInv'
<1> USE DEF IInv, TypeOK, DataOK
<1>1. /\ at' \in [Requests -> Places] /\ at'[r] = to
      /\ \A s \in Requests \ {r} : at'[s] = at[s]
  BY DEF Places
<1>2. \A s \in Requests : at'[s] \in Runner <=> at[s] \in Runner
  BY <1>1 DEF Runner, Started
<1>3. \A s \in Requests : at'[s] \in Runner => at'[s] = at[s]
  BY <1>1 DEF Runner, Started
<1>4. OneRunner'
  BY <1>2 DEF OneRunner
<1>5. /\ attempts' \in Seq(Outcomes) /\ Len(attempts) \in Nat /\ Len(attempts') \in Nat
      /\ attempts' # <<>>
  <2>1. CASE MayAwake
    BY <2>1, FireAwakeAttempts, LenProperties
  <2>2. CASE ~MayAwake
    BY <2>2, FireAwakeAttempts, LenProperties, Zenon DEF MayAwake
  <2> QED BY <2>1, <2>2
<1>6. \A i \in 1..Len(attempts) : attempts'[i] = attempts[i]
  BY FireAwakeAttempts
<1>7. OneAwake'
  <2>1. CASE attempts' = attempts
    BY <2>1 DEF OneAwake
  <2>2. CASE MayAwake /\ Len(attempts') = Len(attempts) + 1
    <3> SUFFICES ASSUME NEW i \in 1..Len(attempts'), i < Len(attempts')
                 PROVE  attempts'[i] = "failed"
      BY DEF OneAwake
    <3>1. i \in 1..Len(attempts) /\ attempts'[i] = attempts[i] /\ attempts # <<>>
      BY <1>5, <1>6, <2>2
    <3>2. CASE i = Len(attempts)
      BY <2>2, <3>1, <3>2 DEF MayAwake
    <3>3. CASE i < Len(attempts)
      BY <3>1, <3>3 DEF OneAwake
    <3> QED BY <1>5, <3>1, <3>2, <3>3
  <2> QED BY <2>1, <2>2, FireAwakeAttempts
<1>8. FutureInv'
  <2> SUFFICES ASSUME NEW s \in Requests, at'[s] \in Runner
               PROVE  /\ at'[s] = "awaiting" => waits'[s] # 0
                      /\ at'[s] \in Started => waits'[s] # 0 /\ attempts'[waits'[s]] = "ok"
    BY <1>5 DEF FutureInv, Runner
  <2>1. at'[s] = at[s] /\ waits[s] \in 0..Len(attempts)
    BY <1>3
  <2>2. /\ at[s] = "awaiting" => waits[s] # 0
        /\ at[s] \in Started => waits[s] # 0 /\ attempts[waits[s]] = "ok"
    BY Zenon DEF FutureInv
  <2>3. waits[s] # 0 => attempts'[waits[s]] = attempts[waits[s]]
    BY <1>5, <1>6, <2>1
  <2> QED BY <2>1, <2>2, <2>3
<1>9. Bound' <=> Bound
  <2>1. CASE attempts' = attempts
    BY <2>1 DEF Bound
  <2>2. CASE /\ Len(attempts') = Len(attempts) + 1
             /\ attempts'[Len(attempts) + 1] = "pending"
    <3>1. ASSUME NEW i \in 1..Len(attempts), attempts[i] = "ok"
          PROVE  i \in 1..Len(attempts') /\ attempts'[i] = "ok"
      BY <1>5, <1>6, <2>2, <3>1
    <3>2. ASSUME NEW i \in 1..Len(attempts'), attempts'[i] = "ok"
          PROVE  i \in 1..Len(attempts) /\ attempts[i] = "ok"
      <4>1. i # Len(attempts) + 1
        BY <2>2, <3>2
      <4>2. i \in 1..Len(attempts)
        BY <1>5, <2>2, <4>1
      <4> QED BY <1>6, <3>2, <4>2
    <3> QED BY <3>1, <3>2, Zenon DEF Bound
  <2> QED BY <2>1, <2>2, FireAwakeAttempts
<1>10. AwakeInv'
  BY <1>9, Zenon DEF AwakeInv
<1>11. /\ Some({"awaiting"})' <=> Some({"awaiting"})
       /\ Some(Started)' <=> Some(Started)
  BY <1>2, <1>3 DEF Some, Runner, Started
<1>12. ShownIsTrue'
  BY <1>11, Zenon DEF ShownIsTrue
<1> QED BY <1>4, <1>7, <1>8, <1>10, <1>12 DEF StartInv

\* The attempt that ends is the latest one; a start that got past its wait does
\* not depend on it.
LEMMA InitializeStep ==
  ASSUME IInv, NEW i \in 1..Len(attempts), Initialize(i)
  PROVE  StartInv'
<1> USE DEF IInv, TypeOK, DataOK
<1>1. UNCHANGED <<at, waits, startFired, starting, started, paused>>
  BY Zenon DEF Initialize, kept
<1>2. Len(attempts) \in Nat /\ Len(attempts') = Len(attempts)
  BY InitializeAttempts, LenProperties
<1>3. /\ attempts[i] = "pending"
      /\ \A j \in 1..Len(attempts) : j # i => attempts'[j] = attempts[j]
  BY InitializeAttempts
<1>4. OneAwake'
  BY <1>2, <1>3 DEF OneAwake
<1>5. OneRunner'
  BY <1>1 DEF OneRunner
<1>6. FutureInv'
  <2>1. attempts # <<>> => attempts' # <<>>
    BY <1>2, InitializeAttempts
  <2> QED BY <1>1, <1>2, <1>3, <2>1 DEF FutureInv
<1>7. AwakeInv'
  <2>1. CASE attempts'[i] = "ok" /\ awake' = TRUE
    BY <1>2, <2>1 DEF AwakeInv, Bound
  <2>2. CASE attempts'[i] = "failed" /\ awake' = awake
    <3>1. Bound' <=> Bound
      BY <1>2, <1>3, <2>2 DEF Bound
    <3> QED BY <2>2, <3>1, Zenon DEF AwakeInv
  <2> QED BY <2>1, <2>2, InitializeAttempts
<1>8. ShownIsTrue'
  BY <1>1, Zenon DEF ShownIsTrue, Some
<1> QED BY <1>4, <1>5, <1>6, <1>7, <1>8 DEF StartInv

\* Nobody has started unless the page says so.
LEMMA NoRunner ==
  ASSUME IInv, ~startFired
  PROVE  \A r \in Requests : at[r] \notin Runner
<1>1. ~Some({"awaiting"}) /\ ~Some(Started)
  BY Zenon DEF IInv, ShownIsTrue
<1> QED BY <1>1 DEF Some, Runner, Started

\* The first start captures the future of the latest attempt.
LEMMA StartFireStep ==
  ASSUME IInv, NEW r \in Requests, StartFire(r)
  PROVE  StartInv'
<1> USE DEF IInv, TypeOK, DataOK
<1>1. CASE startFired
  <2>1. Kept /\ at' = [at EXCEPT ![r] = "done"] /\ paused' = paused
    BY <1>1, Zenon DEF StartFire, Kept
  <2>2. at[r] \notin Runner
    BY DEF StartFire, Runner, Started
  <2>3. Elsewhere
    BY <2>1, <2>2, MoveElsewhere DEF Runner, Started
  <2> QED BY <2>1, <2>3, ShownPaused, FrameStep
<1>2. CASE ~startFired
  <2>1. /\ at' = [at EXCEPT ![r] = "awaiting"]
        /\ waits' = [waits EXCEPT ![r] = Len(attempts)]
        /\ UNCHANGED <<attempts, awake, started, paused>>
    BY <1>2, Zenon DEF StartFire
  <2>2. startFired' /\ starting'
    BY <1>2, Zenon DEF StartFire
  <2>3. \A s \in Requests : at[s] \notin Runner
    BY <1>2, NoRunner
  <2>4. \A s \in Requests : IF s = r THEN at'[s] = "awaiting" ELSE at'[s] = at[s]
    BY <2>1
  <2>5. OneAwake'
    BY <2>1 DEF OneAwake
  <2>6. OneRunner'
    BY <2>3, <2>4 DEF OneRunner
  <2>7. FutureInv'
    <3>1. attempts # <<>>
      BY DEF FutureInv, StartFire
    <3> QED BY <2>1, <2>3, <2>4, <3>1 DEF FutureInv, Runner, Started
  <2>8. AwakeInv'
    BY <2>1, Zenon DEF AwakeInv, Bound
  <2>9. Some({"awaiting"})' /\ ~Some(Started)'
    BY <2>3, <2>4 DEF Some, Runner, Started
  <2>10. ~started /\ ~paused
    BY <1>2, Zenon DEF ShownIsTrue
  <2>11. ShownIsTrue'
    BY <2>1, <2>2, <2>9, <2>10, Zenon DEF ShownIsTrue
  <2> QED BY <2>5, <2>6, <2>7, <2>8, <2>11 DEF StartInv
<1> QED BY <1>1, <1>2

\* A start that fails leaves no other on its way.
LEMMA StartFailsStep ==
  ASSUME IInv, NEW r \in Requests, at[r] \in Runner, StartFails(r),
         UNCHANGED <<attempts, waits, awake>>
  PROVE  StartInv'
<1> USE DEF IInv, TypeOK, DataOK
<1>1. at' = [at EXCEPT ![r] = "done"]
  BY Zenon DEF StartFails
<1>2. ~startFired' /\ ~starting' /\ ~started' /\ ~paused'
  BY Zenon DEF StartFails
<1>3. \A s \in Requests : IF s = r THEN at'[s] = "done" ELSE at'[s] = at[s]
  BY <1>1
<1>4. \A s \in Requests : at'[s] \notin Runner
  BY <1>3 DEF OneRunner, Runner, Started
<1>5. OneAwake' /\ OneRunner'
  BY <1>4 DEF OneAwake, OneRunner
<1>6. FutureInv'
  BY <1>3, <1>4 DEF FutureInv, Runner, Started
<1>7. AwakeInv'
  BY Zenon DEF AwakeInv, Bound
<1>8. ~Some({"awaiting"})' /\ ~Some(Started)'
  BY <1>4 DEF Some, Runner, Started
<1>9. ShownIsTrue'
  BY <1>2, <1>8, Zenon DEF ShownIsTrue
<1> QED BY <1>5, <1>6, <1>7, <1>9 DEF StartInv

\* The start goes on: past its wait once the attempt succeeded, then as far as the loop.
LEMMA RunnerGoesOn ==
  ASSUME IInv, NEW r \in Requests, at[r] \in Runner,
         NEW to \in Started, at' = [at EXCEPT ![r] = to],
         at[r] = "awaiting" => Awaited(r),
         UNCHANGED <<attempts, waits, awake, startFired, paused>>, ~starting', started'
  PROVE  StartInv'
<1> USE DEF IInv, TypeOK, DataOK
<1>1. \A s \in Requests : IF s = r THEN at'[s] = to ELSE at'[s] = at[s]
  OBVIOUS
<1>2. \A s \in Requests \ {r} : at'[s] \notin Runner
  BY <1>1 DEF OneRunner
<1>3. OneAwake' /\ OneRunner'
  BY <1>2 DEF OneAwake, OneRunner
<1>4. waits[r] # 0 /\ attempts[waits[r]] = "ok"
  BY DEF FutureInv, Awaited, Runner, Started
<1>5. FutureInv'
  BY <1>1, <1>2, <1>4 DEF FutureInv, Runner, Started
<1>6. AwakeInv'
  BY Zenon DEF AwakeInv, Bound
<1>7. ~Some({"awaiting"})' /\ Some(Started)'
  BY <1>1, <1>2 DEF Some, Runner, Started
<1>8. startFired
  <2>1. Some({"awaiting"}) \/ Some(Started)
    BY DEF Some, Runner, Started
  <2> QED BY <2>1, Zenon DEF ShownIsTrue
<1>9. ShownIsTrue'
  BY <1>7, <1>8, Zenon DEF ShownIsTrue
<1> QED BY <1>3, <1>5, <1>6, <1>9 DEF StartInv

\* The wait for the future ends.
LEMMA RunnerAwaitsStep ==
  ASSUME IInv, NEW r \in Requests, RunnerAwaits(r)
  PROVE  StartInv'
<1>1. at[r] = "awaiting" /\ at[r] \in Runner
  BY DEF RunnerAwaits, Runner, Started
<1>2. UNCHANGED <<attempts, waits, awake>>
  BY Zenon DEF RunnerAwaits, kept
<1>3. CASE StartFails(r)
  BY <1>1, <1>2, <1>3, StartFailsStep
<1>4. CASE ~StartFails(r)
  <2>1. /\ Awaited(r) /\ at' = [at EXCEPT ![r] = "beginning"]
        /\ UNCHANGED <<startFired, paused>>
    BY <1>4, Zenon DEF RunnerAwaits
  <2>2. ~starting' /\ started'
    BY <1>4, Zenon DEF RunnerAwaits
  <2> QED BY <1>1, <1>2, <2>1, <2>2, RunnerGoesOn DEF Started
<1> QED BY <1>3, <1>4

\* A step of a thread past its wait that does not fail.
Onward(r) ==
  /\ \E to \in Started : at' = [at EXCEPT ![r] = to]
  /\ UNCHANGED <<startFired, starting, started, paused>>

\* The episode is begun and the loop entered, until it ends; or any of it fails.
LEMMA RunnerStartsStep ==
  ASSUME IInv, NEW r \in Requests,
         RunnerBegins(r) \/ RunnerStarts(r) \/ LoopReturns(r) \/ LoopRaises(r)
  PROVE  StartInv'
<1>1. at[r] \in Started /\ at[r] \in Runner /\ at[r] # "awaiting"
  BY DEF RunnerBegins, RunnerStarts, LoopReturns, LoopRaises, Step, Runner, Started
<1>2. UNCHANGED <<attempts, waits, awake>>
  BY Zenon DEF RunnerBegins, RunnerStarts, LoopReturns, LoopRaises, kept, shown
<1>3. CASE StartFails(r)
  BY <1>1, <1>2, <1>3, StartFailsStep
<1>4. CASE ~StartFails(r)
  <2>1. UNCHANGED <<startFired, starting, started, paused>>
    BY <1>4, Zenon DEF RunnerBegins, RunnerStarts, LoopReturns, LoopRaises, shown
  <2>2. \/ at' = [at EXCEPT ![r] = "starting"]
        \/ at' = [at EXCEPT ![r] = "looping"]
        \/ at' = [at EXCEPT ![r] = "returned"]
    BY <1>4 DEF RunnerBegins, RunnerStarts, LoopReturns, LoopRaises, Step
  <2>3. Onward(r)
    BY <2>1, <2>2, Zenon DEF Onward, Started
  <2>4. Some(Started) /\ ~Some({"awaiting"})
    BY <1>1 DEF Some, IInv, OneRunner, Runner, Started
  <2>5. ~starting' /\ started'
    BY <2>1, <2>4, Zenon DEF IInv, ShownIsTrue
  <2> QED BY <1>1, <1>2, <2>3, <2>5, RunnerGoesOn DEF Onward
<1> QED BY <1>3, <1>4

----------------------------------------------------------------------------
(* The invariant and what follows from it *)

\* The invariant holds initially,
LEMMA IInvInit == Init => IInv
<1> SUFFICES ASSUME Init PROVE IInv
  OBVIOUS
<1>1. at = [r \in Requests |-> "idle"] /\ attempts = <<>>
  BY Zenon DEF Init
<1>2. \A r \in Requests : at[r] = "idle"
  BY <1>1
<1>3. OneAwake /\ OneRunner /\ FutureInv
  BY <1>1, <1>2 DEF OneAwake, OneRunner, FutureInv, Runner, Started
<1>4. ~Bound
  BY <1>1 DEF Bound
<1>5. AwakeInv
  BY <1>4, Zenon DEF AwakeInv, Init
<1>6. ~Some({"awaiting"}) /\ ~Some(Started)
  BY <1>2 DEF Some, Started
<1>7. ShownIsTrue
  BY <1>6, Zenon DEF ShownIsTrue, Init
<1> QED BY <1>3, <1>5, <1>7, TypeInit DEF IInv

\* and every step preserves it.
LEMMA IInvStep == IInv /\ [Next]_vars => IInv'
<1> SUFFICES ASSUME IInv, [Next]_vars PROVE IInv'
  OBVIOUS
<1>1. TypeOK'
  BY TypeStep DEF IInv
<1>2. ASSUME NEW r \in Requests, AwakeClick(r) PROVE StartInv'
  <2>1. /\ FireAwake /\ at' = [at EXCEPT ![r] = "done"]
        /\ UNCHANGED <<waits, startFired, awake, starting, started, paused>>
    BY <1>2, Zenon DEF AwakeClick, kept
  <2>2. at[r] \notin Runner
    BY <1>2 DEF AwakeClick, Click, Runner, Started
  <2> QED BY <2>1, <2>2, FireAwakeStep
<1>3. ASSUME NEW r \in Requests, StartAwakes(r) PROVE StartInv'
  <2>1. /\ FireAwake /\ at' = [at EXCEPT ![r] = "startFire"]
        /\ UNCHANGED <<waits, startFired, awake, starting, started, paused>>
    BY <1>3, Zenon DEF StartAwakes, Step, kept
  <2>2. at[r] \notin Runner
    BY <1>3 DEF StartAwakes, Step, Runner, Started
  <2> QED BY <2>1, <2>2, FireAwakeStep
<1>4. StartInv'
  BY <1>2, <1>3, HandlersKeep, PlayerKeeps, InitializeStep, StartFireStep,
    RunnerAwaitsStep, RunnerStartsStep
  DEF Next, Continues, Finished
<1> QED BY <1>1, <1>4 DEF IInv, StartInv

\* The inductive invariant holds in every reachable state.
THEOREM Invariance == Spec => []IInv
BY IInvInit, IInvStep, PTL DEF Spec

\* However often and in whatever order the buttons are pressed, one
\* initialization is under way, and none after one has succeeded.
THEOREM OneAwakeHolds == Spec => []OneAwake
<1>1. IInv => OneAwake
  BY DEF IInv
<1> QED BY <1>1, Invariance, PTL

\* One thread at most is on its way into the inference loop or in it.
THEOREM OneRunnerHolds == Spec => []OneRunner
<1>1. IInv => OneRunner
  BY DEF IInv
<1> QED BY <1>1, Invariance, PTL

\* What the page shows is where the start is.
THEOREM PageIsTrue == Spec => []ShownIsTrue
<1>1. IInv => ShownIsTrue
  BY DEF IInv
<1> QED BY <1>1, Invariance, PTL

\* The loop is entered only once the player is awake.
THEOREM StartsAwakeHolds == Spec => []StartsAwake
<1>1. IInv => StartsAwake
  <2> SUFFICES ASSUME IInv, Some(Started) PROVE Bound /\ awake
    BY DEF StartsAwake
  <2>1. PICK r \in Requests : at[r] \in Started
    BY DEF Some
  <2>2. waits[r] \in 1..Len(attempts) /\ attempts[waits[r]] = "ok"
    BY <2>1, LenProperties DEF IInv, TypeOK, DataOK, FutureInv
  <2>3. Bound
    BY <2>2, Zenon DEF Bound
  <2> QED BY <2>3, Zenon DEF IInv, AwakeInv
<1> QED BY <1>1, Invariance, PTL

----------------------------------------------------------------------------
(* The pauses of a user who waits *)

Before == {"pause", "unpause", "homePausing"}

\* A step that neither brings a click under way nor touches the player.
LEMMA PauseFrame ==
  ASSUME PauseInv, UNCHANGED <<calls, tick>>, predicting' => predicting, paused' => paused,
         \A r \in Requests :
           \/ at'[r] = at[r] \/ at'[r] \notin Carried
           \/ at[r] \in Carried /\ at'[r] \notin Before
  PROVE  PauseInv'
<1>1. AloneInv'
  BY DEF PauseInv, AloneInv
<1>2. CleanInv'
  <2>1. Some(Before)' => Some(Before)
    BY DEF Some, Before, Carried, Homing
  <2> QED BY <2>1 DEF PauseInv, CleanInv, Before
<1>3. PausedInv'
  BY Zenon DEF PauseInv, PausedInv
<1> QED BY <1>1, <1>2, <1>3 DEF PauseInv

\* A click of a user who waits finds nothing under way.
LEMMA ClickStep ==
  ASSUME TypeOK, PauseInv, Quiet, UNCHANGED <<calls, tick>>,
         predicting' = predicting, paused' = paused,
         NEW r \in Requests, NEW to, at' = [at EXCEPT ![r] = to]
  PROVE  PauseInv'
<1>1. \A s \in Requests : at[s] \notin Carried
  BY DEF Quiet, Some, Carried
<1>2. \A s \in Requests : s # r => at'[s] = at[s]
  BY DEF TypeOK, DataOK
<1>3. AloneInv'
  BY <1>1, <1>2 DEF AloneInv
<1>4. CleanInv'
  BY DEF CleanInv, Quiet
<1>5. PausedInv'
  BY Zenon DEF PauseInv, PausedInv
<1> QED BY <1>3, <1>4, <1>5 DEF PauseInv

\* What is carried out is alone, so that nothing is once it is done.
LEMMA CarriedOut ==
  ASSUME TypeOK, AloneInv, NEW r \in Requests, at[r] \in Carried,
         NEW to \in {"done", "homeFired"}, at' = [at EXCEPT ![r] = to]
  PROVE  AloneInv' /\ CleanInv'
<1>1. \A s \in Requests : IF s = r THEN at'[s] = to ELSE at'[s] = at[s] /\ at[s] \notin Carried
  BY DEF TypeOK, DataOK, AloneInv
<1>2. AloneInv'
  BY <1>1 DEF AloneInv
<1>3. ~Some(Before)'
  BY <1>1 DEF Some, Before, Carried, Homing
<1> QED BY <1>2, <1>3 DEF CleanInv, Before

\* A pause starts its thread.
LEMMA PauseShownStep ==
  ASSUME TypeOK, PauseInv, NEW r \in Requests, at[r] \in {"pause", "homePausing"},
         NEW to \in {"done", "homeFired"}, at' = [at EXCEPT ![r] = to], PauseShown,
         UNCHANGED <<predicting, tick>>
  PROVE  PauseInv'
<1>1. at[r] \in Carried
  BY DEF Carried, Homing
<1>2. AloneInv' /\ CleanInv'
  BY <1>1, CarriedOut DEF PauseInv
<1>3. \A c \in Calls : calls[c] = 0
  BY DEF PauseInv, CleanInv, Some
<1>4. PausedInv'
  <2>1. CASE Pauses
    <3>1. calls' = [calls EXCEPT !["pause"] = @ + 1]
      BY <2>1, Zenon DEF PauseShown, Fire
    <3>2. /\ calls'["pause"] = 1 /\ calls'["pauseGate"] = 0
          /\ calls'["unpause"] = 0 /\ calls'["unpauseGate"] = 0
      BY <1>3, <3>1 DEF TypeOK, DataOK, Calls
    <3>3. calls'["pause"] > 0 /\ calls'["pause"] + calls'["pauseGate"] > 0
      BY <3>2
    <3> QED BY <3>2, <3>3, Zenon DEF PausedInv
  <2>2. CASE ~Pauses
    BY <2>2, Zenon DEF PauseShown, PauseInv, PausedInv
  <2> QED BY <2>1, <2>2
<1> QED BY <1>2, <1>4 DEF PauseInv

\* A resume takes Paused off the page before it starts its thread.
LEMMA UnpauseShownStep ==
  ASSUME TypeOK, PauseInv, NEW r \in Requests, at[r] \in {"unpause", "homed"},
         at' = [at EXCEPT ![r] = "done"],
         UnpauseShown \/ UNCHANGED <<paused, calls>>, UNCHANGED <<predicting, tick>>
  PROVE  PauseInv'
<1>1. at[r] \in Carried
  BY DEF Carried, Homing
<1>2. AloneInv' /\ CleanInv'
  BY <1>1, CarriedOut DEF PauseInv
<1>3. ~paused' \/ UNCHANGED <<paused, calls>>
  BY Zenon DEF UnpauseShown
<1>4. PausedInv'
  BY <1>3, Zenon DEF PauseInv, PausedInv
<1> QED BY <1>2, <1>4 DEF PauseInv

\* The player's threads: nothing new is carried out while one of them is there.
LEMMA PlayerStep ==
  ASSUME TypeOK, PauseInv, PlayerThreads
  PROVE  PauseInv'
<1> USE DEF TypeOK, DataOK, Calls
<1>1. at' = at /\ paused' = paused
  BY Zenon DEF PlayerThreads, PlayerPauses, PlayerPaused, PlayerUnpauses, PlayerUnpaused,
    shown
<1>2. AloneInv'
  BY <1>1 DEF PauseInv, AloneInv
<1>3. \E c \in Calls : calls[c] > 0
  BY DEF PlayerThreads, PlayerPauses, PlayerPaused, PlayerUnpauses, PlayerUnpaused, Move
<1>4. ~Some(Before)
  BY <1>3 DEF PauseInv, CleanInv, Before
<1>5. CleanInv'
  BY <1>1, <1>4 DEF CleanInv, Some, Before
<1>6. CASE ~paused
  <2>1. PausedInv'
    BY <1>1, <1>6, Zenon DEF PausedInv
  <2> QED BY <1>2, <1>5, <2>1 DEF PauseInv
<1>7. CASE paused
  <2>1. /\ calls["unpause"] = 0 /\ calls["unpauseGate"] = 0
        /\ predicting => calls["pause"] > 0
        /\ tick # "none" => calls["pause"] + calls["pauseGate"] > 0
    BY <1>7, Zenon DEF PauseInv, PausedInv
  <2>2. CASE PlayerPauses
    <3>1. calls' = [calls EXCEPT !["pause"] = @ - 1, !["pauseGate"] = @ + 1] /\ calls["pause"] > 0
      BY <2>2 DEF PlayerPauses, Move
    <3>2. /\ calls'["unpause"] = 0 /\ calls'["unpauseGate"] = 0
          /\ calls'["pause"] + calls'["pauseGate"] > 0
      BY <2>1, <3>1
    <3>3. ~predicting'
      BY <2>2, Zenon DEF PlayerPauses
    <3> QED BY <1>2, <1>5, <3>2, <3>3, Zenon DEF PauseInv, PausedInv
  <2>3. CASE PlayerPaused
    <3>1. calls' = [calls EXCEPT !["pauseGate"] = @ - 1] /\ tick' = "none"
      BY <2>3 DEF PlayerPaused, Move
    <3>2. /\ calls'["unpause"] = 0 /\ calls'["unpauseGate"] = 0
          /\ calls'["pause"] = calls["pause"]
      BY <2>1, <3>1
    <3>3. predicting' = predicting
      BY <2>3, Zenon DEF PlayerPaused
    <3> QED BY <1>2, <1>5, <2>1, <3>1, <3>2, <3>3, Zenon DEF PauseInv, PausedInv
  <2>4. ~PlayerUnpauses /\ ~PlayerUnpaused
    BY <2>1 DEF PlayerUnpauses, PlayerUnpaused, Move
  <2> QED BY <2>2, <2>3, <2>4 DEF PlayerThreads
<1> QED BY <1>6, <1>7

\* A tick begins only where the client's flag lets it.
LEMMA TickStep ==
  ASSUME TypeOK, PauseInv, Tick
  PROVE  PauseInv'
<1>1. /\ at' = at /\ calls' = calls /\ paused' = paused
      /\ tick' = "none" \/ predicting
  BY Zenon DEF Tick, TickBegin, TickSends, TickFails, shown
<1>1a. predicting' => predicting
  BY Zenon DEF Tick, TickBegin, TickSends, TickFails
<1>2. AloneInv' /\ CleanInv'
  BY <1>1 DEF PauseInv, AloneInv, CleanInv, Some
<1>3. paused' =>
        /\ calls'["unpause"] = 0 /\ calls'["unpauseGate"] = 0
        /\ predicting' => calls'["pause"] > 0
  BY <1>1, <1>1a, Zenon DEF PauseInv, PausedInv
<1>4. calls["pause"] > 0 => calls["pause"] + calls["pauseGate"] > 0
  BY DEF TypeOK, DataOK, Calls
<1>5. paused' /\ tick' # "none" => calls'["pause"] + calls'["pauseGate"] > 0
  BY <1>1, <1>4, Zenon DEF PauseInv, PausedInv
<1> QED BY <1>2, <1>3, <1>5, Zenon DEF PauseInv, PausedInv

\* Every step of a user who waits keeps the invariant.
LEMMA PauseStep ==
  ASSUME Patient, TypeOK, PauseInv, [Next]_vars
  PROVE  PauseInv'
<1> USE DEF TypeOK, DataOK
<1>1. ASSUME NEW r \in Requests, Toggle(r) \/ GoHome(r) PROVE PauseInv'
  <2>1. UNCHANGED <<calls, tick>> /\ predicting' = predicting /\ paused' = paused
    BY <1>1, Zenon DEF Toggle, GoHome, shown, player
  <2>2. Quiet /\ \E to : at' = [at EXCEPT ![r] = to]
    BY <1>1, Zenon DEF Toggle, GoHome, Click
  <2> QED BY <2>1, <2>2, ClickStep
<1>2. ASSUME NEW r \in Requests, Pause(r) \/ HomePauses(r) PROVE PauseInv'
  <2>1. PauseShown /\ UNCHANGED <<predicting, tick>>
    BY <1>2, Zenon DEF Pause, HomePauses
  <2>2. /\ at[r] \in {"pause", "homePausing"}
        /\ \E to \in {"done", "homeFired"} : at' = [at EXCEPT ![r] = to]
    BY <1>2 DEF Pause, HomePauses, Step
  <2> QED BY <2>1, <2>2, PauseShownStep
<1>3. ASSUME NEW r \in Requests, Unpause(r) \/ HomeResumes(r) PROVE PauseInv'
  <2>1. (UnpauseShown \/ UNCHANGED <<paused, calls>>) /\ UNCHANGED <<predicting, tick>>
    BY <1>3, Zenon DEF Unpause, HomeResumes
  <2>2. at[r] \in {"unpause", "homed"} /\ at' = [at EXCEPT ![r] = "done"]
    BY <1>3 DEF Unpause, HomeResumes, Step
  <2> QED BY <2>1, <2>2, UnpauseShownStep
<1>4. ASSUME NEW r \in Requests,
             \/ ToggleRefused(r) \/ StartClick(r) \/ AwakeClick(r) \/ StartAwakes(r)
             \/ StartFire(r) \/ RunnerAwaits(r) \/ RunnerBegins(r) \/ RunnerStarts(r)
             \/ HomeBegins(r) \/ HomeEnds(r) \/ LoopReturns(r) \/ LoopRaises(r)
      PROVE  PauseInv'
  <2>1. UNCHANGED <<calls, tick>>
    BY <1>4, Zenon DEF ToggleRefused, StartClick, AwakeClick, StartAwakes, StartFire,
      RunnerAwaits, RunnerBegins, RunnerStarts, HomeBegins, HomeEnds, LoopReturns, LoopRaises, player
  <2>2. predicting' => predicting
    <3>1. CASE LoopReturns(r) \/ LoopRaises(r)
      BY <3>1 DEF LoopReturns, LoopRaises, TypeOK, FlagsOK
    <3>2. CASE ~(LoopReturns(r) \/ LoopRaises(r))
      BY <1>4, <3>2, Zenon DEF ToggleRefused, StartClick, AwakeClick, StartAwakes,
        StartFire, RunnerAwaits, RunnerBegins, RunnerStarts, HomeBegins, HomeEnds, player
    <3> QED BY <3>1, <3>2
  <2>3. paused' => paused
    BY <1>4, Zenon DEF ToggleRefused, StartClick, AwakeClick, StartAwakes, StartFire,
      RunnerAwaits, RunnerBegins, RunnerStarts, StartFails, HomeBegins, HomeEnds,
      LoopReturns, LoopRaises, shown
  <2>4. \/ \E to \in Places \ Carried : at' = [at EXCEPT ![r] = to]
        \/ at[r] \in Carried /\ \E to \in Places \ Before : at' = [at EXCEPT ![r] = to]
    BY <1>4 DEF ToggleRefused, StartClick, AwakeClick, StartAwakes, StartFire,
      RunnerAwaits, RunnerBegins, RunnerStarts, StartFails, HomeBegins, HomeEnds,
      LoopReturns, LoopRaises, Step, Places, Carried, Before, Runner, Started, Homing
  <2>5. \A s \in Requests :
          \/ at'[s] = at[s] \/ at'[s] \notin Carried
          \/ at[s] \in Carried /\ at'[s] \notin Before
    BY <2>4
  <2> QED BY <2>1, <2>2, <2>3, <2>5, PauseFrame
<1>5. ASSUME NEW i \in 1..Len(attempts), Initialize(i) PROVE PauseInv'
  <2>1. UNCHANGED <<calls, tick>> /\ at' = at
    BY <1>5, Zenon DEF Initialize, player
  <2>2. predicting' = predicting /\ paused' = paused
    BY <1>5, Zenon DEF Initialize, player
  <2> QED BY <2>1, <2>2, PauseFrame
<1>6. CASE WorkerEnds \/ UNCHANGED vars
  <2>1. UNCHANGED <<calls, tick>> /\ at' = at
    BY <1>6, Zenon DEF WorkerEnds, vars, player
  <2>2. predicting' = predicting /\ paused' = paused
    BY <1>6, Zenon DEF WorkerEnds, vars, player, shown
  <2> QED BY <2>1, <2>2, PauseFrame
<1> QED
  BY <1>1, <1>2, <1>3, <1>4, <1>5, <1>6, PlayerStep, TickStep
  DEF Next, Continues, Finished

\* A session starts with nothing paused.
LEMMA PauseInit == Init => PauseInv
<1> SUFFICES ASSUME Init PROVE PauseInv
  OBVIOUS
<1>1. \A r \in Requests : at[r] = "idle"
  BY DEF Init
<1>2. \A c \in Calls : calls[c] = 0
  BY DEF Init
<1>3. ~paused
  BY Zenon DEF Init
<1>4. AloneInv /\ CleanInv
  BY <1>1, <1>2 DEF AloneInv, CleanInv, Carried, Homing
<1>5. PausedInv
  BY <1>3, Zenon DEF PausedInv
<1> QED BY <1>4, <1>5 DEF PauseInv

\* PausedMeansPaused: the arm gets no command while the page of a user who waits for
\* every pause, resume and homing says Paused, whatever fails and however the rest of
\* the session, its starts included, is interleaved.
THEOREM PausedMeansPausedHolds == ASSUME Patient PROVE Spec => PausedMeansPaused
<1>1. TypeOK /\ PauseInv /\ [Next]_vars => PauseInv'
  BY PauseStep
<1>2. Spec => []PauseInv
  BY <1>1, PauseInit, TypeCorrect, PTL DEF Spec
<1>3. TypeOK /\ PauseInv => [TickSends => ~(paused /\ Quiet)]_vars
  <2> SUFFICES ASSUME TypeOK, PauseInv, TickSends, paused, Quiet PROVE FALSE
    OBVIOUS
  <2>1. tick # "none"
    BY DEF TickSends
  <2>2. calls["pause"] + calls["pauseGate"] > 0
    BY <2>1, Zenon DEF PauseInv, PausedInv
  <2> QED BY <2>2 DEF Quiet, Calls
<1> QED BY <1>2, <1>3, TypeCorrect, PTL DEF PausedMeansPaused
=============================================================================
