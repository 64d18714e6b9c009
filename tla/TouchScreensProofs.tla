------------------------- MODULE TouchScreensProofs -------------------------
(***************************************************************************)
(* Proofs about TouchScreens, for every depth of the stack, every tour of  *)
(* the screens and any number of conflicts and faults.                     *)
(***************************************************************************)
EXTENDS TouchScreens, TLAPS

----------------------------------------------------------------------------
(* The order of the levelling macros. *)

Level == [state : {"none", "prepared", "moving", "target", "final", "cancelled"},
          step : Nat, cancelled : BOOLEAN, next : BOOLEAN]

\* While the thread runs the workflow stays on its step; until the thread has set done the
\* workflow is moving, and from then until the timer has run; the move is complete only
\* when the macro was answered.
MacroInv ==
  /\ level \in Level /\ macro \in [step : Nat, at : {"none", "sends", "flags", "ends"}]
  /\ done \in BOOLEAN /\ failedRc \in BOOLEAN
  /\ macro.at = "none" => macro = NoMacro
  /\ Sending => macro.step = level.step /\ level.state # "none"
  /\ macro.at \in {"sends", "flags"} => level.state = "moving" /\ ~done
  /\ macro.at = "flags" /\ ~failedRc => reached = level.step
  /\ done => level.state = "moving" /\ (failedRc \/ reached = level.step)
  /\ level.state = "target" => reached = level.step

\* Redrawing the levelling screen changes only whether Next is enabled.
LEMMA LevelUpdated ==
  ASSUME NEW wf \in Level, NEW running
  PROVE  /\ LevelUpdate(wf, running) \in Level
         /\ LevelUpdate(wf, running).state = wf.state
         /\ LevelUpdate(wf, running).step = wf.step
         /\ LevelUpdate(wf, running).cancelled = wf.cancelled
<1> DEFINE b == ManualAllowed /\ ~running /\ wf.state # "moving"
                /\ (wf.state = "target" => wf.step # Finish)
<1>1. b \in BOOLEAN
  OBVIOUS
<1>2. LevelUpdate(wf, running) = [wf EXCEPT !.next = b]
  BY DEF LevelUpdate
<1> HIDE DEF b
<1> QED
  BY <1>1, <1>2 DEF Level

\* Next starts a macro only when none is under way, and it is the first one or the one
\* after the last answered.
LEMMA LevelNextCbInv ==
  ASSUME MacroInv, LevelNextCb
  PROVE  /\ MacroInv'
         /\ macro' # macro => macro = NoMacro /\ macro'.step \in {1, reached + 1}
<1>1. level \in Level /\ reached' = reached
  BY DEF MacroInv, LevelNextCb
<1>2. CASE ManualAllowed /\ ~Sending /\ level.state # "moving"
  <2> DEFINE wf == StartMove(NextStep)
  <2>1. /\ macro' = [step |-> NextStep, at |-> "sends"] /\ done' = FALSE
        /\ failedRc' = FALSE
        /\ level' = LevelUpdate(wf, TRUE)
    BY <1>2 DEF LevelNextCb
  <2>2. NextStep \in Nat
    BY <1>1 DEF NextStep, Level
  <2>3. wf \in Level /\ wf.state = "moving" /\ wf.step = NextStep
    BY <1>1, <2>2 DEF Level, StartMove
  <2> HIDE DEF wf
  <2>4. level' \in Level /\ level'.state = "moving" /\ level'.step = NextStep
    BY <2>1, <2>3, LevelUpdated
  <2>5. /\ macro' \in [step : Nat, at : {"none", "sends", "flags", "ends"}]
        /\ macro'.at = "sends" /\ macro'.step = NextStep
    BY <2>1, <2>2
  <2>6. MacroInv'
    BY <2>1, <2>4, <2>5 DEF MacroInv
  <2>7. NextStep \in {1, reached + 1}
    <3>1. Resting \/ level.state = "prepared" \/ level.state = "target"
      BY <1>1, <1>2 DEF Level, Resting
    <3> QED
      BY <3>1 DEF MacroInv, NextStep
  <2> QED
    BY <1>2, <2>5, <2>6, <2>7 DEF Sending
<1>3. CASE ~(ManualAllowed /\ ~Sending /\ level.state # "moving")
  <2>1. level' = LevelUpdate(level, Sending) /\ UNCHANGED <<macro, done, failedRc>>
    BY <1>3 DEF LevelNextCb
  <2>2. /\ level' \in Level /\ level'.state = level.state /\ level'.step = level.step
    BY <1>1, <2>1, LevelUpdated
  <2> QED
    BY <1>1, <2>1, <2>2 DEF MacroInv, Sending
<1> QED
  BY <1>2, <1>3

\* A thread that cannot be started sends nothing.
LEMMA LevelNextFailsInv ==
  ASSUME MacroInv, LevelNextFails
  PROVE  MacroInv'
<1> DEFINE wf == [StartMove(NextStep) EXCEPT !.state = "cancelled"]
<1>1. level \in Level /\ UNCHANGED <<macro, reached>> /\ done' = FALSE /\ failedRc' = TRUE
  BY DEF MacroInv, LevelNextFails
<1>2. macro = NoMacro /\ level' = LevelUpdate(wf, FALSE)
  BY DEF LevelNextFails, Sending
<1>3. NextStep \in Nat
  BY <1>1 DEF NextStep, Level
<1>4. wf \in Level /\ wf.state = "cancelled"
  BY <1>1, <1>3 DEF Level, StartMove
<1> HIDE DEF wf
<1>5. level' \in Level /\ level'.state = "cancelled"
  BY <1>2, <1>4, LevelUpdated
<1> QED
  BY <1>1, <1>2, <1>5 DEF MacroInv, Sending, NoMacro

\* Cancelling only marks a macro that is under way.
LEMMA LevelCancelCbInv ==
  ASSUME MacroInv, LevelCancelCb
  PROVE  MacroInv'
<1> DEFINE wf == IF level.state = "moving" THEN [level EXCEPT !.cancelled = TRUE]
                 ELSE [level EXCEPT !.state = "cancelled"]
<1>1. level \in Level /\ UNCHANGED <<macro, done, failedRc, reached>>
  BY DEF MacroInv, LevelCancelCb
<1>2. level' = LevelUpdate(wf, Sending)
  BY DEF LevelCancelCb
<1>3. /\ wf \in Level /\ wf.step = level.step
      /\ wf.state = IF level.state = "moving" THEN "moving" ELSE "cancelled"
  BY <1>1 DEF Level
<1> HIDE DEF wf
<1>4. /\ level' \in Level /\ level'.step = level.step
      /\ level'.state = IF level.state = "moving" THEN "moving" ELSE "cancelled"
  BY <1>2, <1>3, LevelUpdated
<1> QED
  BY <1>1, <1>4 DEF MacroInv, Sending

\* The thread moves on to its flags and its end, and sends once.
LEMMA MacroThreadInv ==
  ASSUME MacroInv, MacroStep \/ MacroFails
  PROVE  MacroInv' /\ (macro' # macro => macro'.at # "sends")
<1>0. level' = level
  BY DEF MacroStep, MacroFails, MacroAnswered, MacroFlags, MacroEnds, MacroMoves
<1>1. macro \in [step : Nat, at : {"none", "sends", "flags", "ends"}]
  BY DEF MacroInv
<1>2. CASE MacroAnswered \/ MacroFails
  <2>1. macro.at = "sends" /\ macro' = [macro EXCEPT !.at = "flags"] /\ done' = done
    BY <1>2 DEF MacroAnswered, MacroFails, MacroMoves
  <2>2. /\ macro' \in [step : Nat, at : {"none", "sends", "flags", "ends"}]
        /\ macro'.at = "flags" /\ macro'.step = macro.step
    BY <1>1, <2>1
  <2>3. Sending
    BY <2>1 DEF Sending, NoMacro
  <2>4. failedRc' = TRUE \/ (failedRc' = failedRc /\ reached' = macro.step)
    BY <1>2 DEF MacroAnswered, MacroFails
  <2> QED
    BY <1>0, <2>1, <2>2, <2>3, <2>4 DEF MacroInv, Sending
<1>3. CASE MacroFlags
  <2>1. /\ macro.at = "flags" /\ macro' = [macro EXCEPT !.at = "ends"] /\ done' = TRUE
        /\ UNCHANGED <<failedRc, reached>>
    BY <1>3 DEF MacroFlags, MacroMoves
  <2>2. /\ macro' \in [step : Nat, at : {"none", "sends", "flags", "ends"}]
        /\ macro'.at = "ends" /\ macro'.step = macro.step
    BY <1>1, <2>1
  <2>3. Sending
    BY <2>1 DEF Sending, NoMacro
  <2> QED
    BY <1>0, <2>1, <2>2, <2>3 DEF MacroInv, Sending
<1>4. CASE MacroEnds
  <2>1. macro' = NoMacro /\ UNCHANGED <<done, failedRc, reached>>
    BY <1>4 DEF MacroEnds, MacroMoves
  <2>2. NoMacro \in [step : Nat, at : {"none", "sends", "flags", "ends"}] /\ NoMacro.at = "none"
    BY DEF NoMacro
  <2> QED
    BY <1>0, <2>1, <2>2 DEF MacroInv, Sending
<1> QED
  BY <1>2, <1>3, <1>4 DEF MacroStep

\* The timer takes a step as reached only when the thread said that it succeeded.
LEMMA LevelTimerInv ==
  ASSUME MacroInv, LevelTimer
  PROVE  MacroInv'
<1> DEFINE wf == [CompleteMove EXCEPT !.cancelled = FALSE]
<1>1. level \in Level /\ UNCHANGED <<macro, reached>> /\ done /\ done' = FALSE
  BY DEF MacroInv, LevelTimer
<1>2. failedRc' \in BOOLEAN /\ level' = LevelUpdate(wf, Sending)
  BY DEF LevelTimer
<1>3. /\ wf \in Level /\ wf.step = level.step
      /\ wf.state \in {"cancelled", "final", "target"}
      /\ wf.state = "target" => ~failedRc
  BY <1>1 DEF Level, CompleteMove
<1> HIDE DEF wf
<1>4. /\ level' \in Level /\ level'.step = level.step
      /\ level'.state \in {"cancelled", "final", "target"}
      /\ level'.state = "target" => ~failedRc
  BY <1>2, <1>3, LevelUpdated
<1> QED
  BY <1>1, <1>2, <1>4 DEF MacroInv, Sending

\* Only an idle, unopened levelling is prepared when its screen opens.
LEMMA LevelCreateInv ==
  ASSUME MacroInv, LevelCreate, UNCHANGED <<macro, done, failedRc, reached>>
  PROVE  MacroInv'
<1>1. level \in Level
  BY DEF MacroInv
<1>2. CASE level.state = "none"
  <2>1. level' = LevelUpdate(Prepared(level), Sending)
    BY <1>2 DEF LevelCreate
  <2>2. Prepared(level) \in Level /\ Prepared(level).state = "prepared"
    BY <1>1 DEF Prepared, Level
  <2>3. level' \in Level /\ level'.state = "prepared"
    BY <2>1, <2>2, LevelUpdated
  <2> QED
    BY <1>2, <2>3 DEF MacroInv, Sending
<1>3. CASE level.state # "none"
  <2>1. level' = LevelUpdate(level, Sending)
    BY <1>3 DEF LevelCreate
  <2>2. level' \in Level /\ level'.state = level.state /\ level'.step = level.step
    BY <1>1, <2>1, LevelUpdated
  <2> QED
    BY <2>2 DEF MacroInv, Sending
<1> QED
  BY <1>2, <1>3

\* The state before any levelling.
LEMMA MacroReset ==
  /\ LevelNone \in Level /\ LevelNone.state = "none"
  /\ NoMacro \in [step : Nat, at : {"none", "sends", "flags", "ends"}]
  /\ NoMacro.at = "none"
BY DEF LevelNone, Level, NoMacro

\* Every step keeps the invariant, and only Next makes a macro be sent.
LEMMA MacroInvNext ==
  ASSUME MacroInv, [ScreensNext]_screenVars
  PROVE  /\ MacroInv'
         /\ macro'.at = "sends" /\ macro' # macro =>
              macro = NoMacro /\ macro'.step \in {1, reached + 1}
<1>1. CASE UNCHANGED <<level, macro, done, failedRc, reached>>
  BY <1>1 DEF MacroInv, Sending
<1>2. CASE LevelNextCb
  BY <1>2, LevelNextCbInv
<1>3. CASE LevelNextFails
  BY <1>3, LevelNextFailsInv DEF LevelNextFails
<1>4. CASE LevelCancelCb
  BY <1>4, LevelCancelCbInv DEF LevelCancelCb
<1>5. CASE MacroStep \/ MacroFails
  BY <1>5, MacroThreadInv
<1>6. CASE LevelTimer
  BY <1>6, LevelTimerInv DEF LevelTimer
<1>7. CASE OpenScreen
  BY <1>1, <1>7, LevelCreateInv DEF OpenScreen, levelVars
<1>8. CASE Back
  BY <1>1, <1>8 DEF Back, LevelDestroy, levelVars
<1>9. CASE UiRestarts
  <2>1. /\ level' = LevelNone /\ macro' = NoMacro /\ done' = FALSE /\ failedRc' = FALSE
    BY <1>9 DEF UiRestarts
  <2> QED
    BY <2>1, MacroReset DEF MacroInv, Sending
<1>10. CASE SliderCb \/ SetTempCb \/ MoveCb \/ MoveOver \/ StopCb
  BY <1>1, <1>10 DEF SliderCb, SetTempCb, MoveCb, MoveOver, StopCb, levelVars
<1>11. CASE ConflictPoll \/ ContinueCb \/ CancelCb
  BY <1>1, <1>11 DEF ConflictPoll, ContinueCb, CancelCb, Decide, levelVars
<1>12. CASE StatusArrives \/ ConflictChanges \/ RebuildStack \/ UNCHANGED screenVars
  BY <1>1, <1>12 DEF StatusArrives, ConflictChanges, RebuildStack, screenVars, levelVars
<1> QED
  BY <1>2, <1>3, <1>4, <1>5, <1>6, <1>7, <1>8, <1>9, <1>10, <1>11, <1>12 DEF ScreensNext

\* MacrosInOrder for every stack, tour and number of faults: a levelling step is only sent
\* after the step before it was answered, and never while another one is under way.
THEOREM MacrosAlwaysInOrder == ScreensSpec => MacrosInOrder
<1>1. ScreensInit => MacroInv
  BY MacroReset DEF ScreensInit, MacroInv, Sending
<1>2. ASSUME MacroInv, [ScreensNext]_screenVars
      PROVE  [macro'.at = "sends" /\ macro' # macro =>
                macro = NoMacro /\ macro'.step \in {1, reached + 1}]_screenVars
  BY <1>2, MacroInvNext
<1>3. MacroInv /\ [ScreensNext]_screenVars => MacroInv'
  BY MacroInvNext
<1> QED
  BY <1>1, <1>2, <1>3, PTL DEF ScreensSpec, MacrosInOrder
----------------------------------------------------------------------------
(* The nozzle after a material change. *)

Screen == {"home", "status", "print", "material", "maintenance", "settings", "change",
           "level", "conflict", "language", "leaf"}

\* The prompt has nothing on top of it, and it is the only screen ever opened from the
\* material change, which is therefore open at most once.
Nesting ==
  /\ stack \in Seq(Screen) /\ Len(stack) > 0 /\ stack[1] = "home"
  /\ \A i \in 1 .. (Len(stack) - 1) :
       /\ stack[i] # "conflict"
       /\ stack[i] = "change" => stack[i + 1] = "conflict"

Mat == [state : {"prepared", "busy", "finalizing"}, moving : BOOLEAN, target : Temp,
        accepted : Temp, sent : BOOLEAN]

\* A nozzle heated by the material change is remembered as sent by its open screen.
Remembered == heater = "change" /\ ~unsure => Open("change") /\ mat.sent

HeaterInv == Nesting /\ mat \in Mat /\ unsure \in BOOLEAN /\ Remembered

\* Nothing but the conflict prompt covers the change screen.
LEMMA OpenIsOnTop ==
  ASSUME Nesting, Open("change"), Last(stack) # "conflict"
  PROVE  Last(stack) = "change"
<1>1. PICK i \in 1 .. Len(stack) : stack[i] = "change"
  BY DEF Open, Nesting
<1>2. Len(stack) \in Nat
  BY DEF Nesting
<1>3. CASE i = Len(stack)
  BY <1>1, <1>3 DEF Last
<1>4. CASE i # Len(stack)
  <2>1. i \in 1 .. (Len(stack) - 1) /\ i + 1 \in 1 .. Len(stack)
    BY <1>2, <1>4
  <2>2. stack[i + 1] = "conflict"
    BY <1>1, <2>1 DEF Nesting
  <2>3. i + 1 = Len(stack)
    BY <1>2, <2>1, <2>2 DEF Nesting
  <2> QED
    BY <2>2, <2>3 DEF Last
<1> QED
  BY <1>3, <1>4

\* Only the prompt is opened on top of the change screen, which stays open under it.
LEMMA PushNests ==
  ASSUME Nesting, NEW s \in Screen, stack' = Pushed(s), Last(stack) # "conflict",
         Last(stack) = "change" => s = "conflict"
  PROVE  Nesting' /\ (Open("change") => Open("change")')
<1>1. Len(stack) \in Nat /\ stack \in Seq(Screen) /\ Len(stack) > 0
  BY DEF Nesting
<1>2. CASE stack' = stack
  BY <1>2 DEF Nesting, Open
<1>3. CASE stack' = Append(stack, s)
  <2>1. stack' \in Seq(Screen) /\ Len(stack') = Len(stack) + 1
    BY <1>1, <1>3
  <2>2. \A i \in 1 .. Len(stack) : stack'[i] = stack[i]
    BY <1>1, <1>3
  <2>3. stack'[Len(stack) + 1] = s
    BY <1>1, <1>3
  <2>4. ASSUME NEW i \in 1 .. (Len(stack') - 1)
        PROVE  stack'[i] # "conflict" /\ (stack'[i] = "change" => stack'[i + 1] = "conflict")
    <3>1. CASE i = Len(stack)
      BY <1>1, <2>2, <2>3, <3>1 DEF Last
    <3>2. CASE i # Len(stack)
      <4>1. i \in 1 .. (Len(stack) - 1) /\ i \in 1 .. Len(stack) /\ i + 1 \in 1 .. Len(stack)
        BY <1>1, <2>1, <3>2
      <4> QED
        BY <2>2, <4>1 DEF Nesting
    <3> QED
      BY <3>1, <3>2
  <2>5. Nesting'
    <3>1. 1 \in 1 .. Len(stack) /\ stack[1] = "home"
      BY <1>1 DEF Nesting
    <3>2. stack'[1] = "home"
      BY <2>2, <3>1
    <3> QED
      BY <1>1, <2>1, <2>4, <3>2 DEF Nesting
  <2>6. ASSUME Open("change") PROVE Open("change")'
    <3>1. PICK i \in 1 .. Len(stack) : stack[i] = "change"
      BY <1>1, <2>6 DEF Open
    <3>2. i \in DOMAIN stack' /\ stack'[i] = "change"
      BY <1>1, <2>1, <2>2, <3>1
    <3> QED
      BY <3>2 DEF Open
  <2> QED
    BY <2>5, <2>6
<1> QED
  BY <1>2, <1>3 DEF Pushed

\* Going back closes the visible screen and keeps the nesting of the others.
LEMMA PopNests ==
  ASSUME Nesting, stack' = Front(stack), Len(stack) > 1
  PROVE  /\ Nesting'
         /\ Open("change") /\ Last(stack) # "change" => Open("change")'
<1>1. Len(stack) \in Nat /\ stack \in Seq(Screen)
  BY DEF Nesting
<1>2. stack' = [i \in 1 .. (Len(stack) - 1) |-> stack[i]]
  BY DEF Front
<1>3. stack' \in Seq(Screen) /\ Len(stack') = Len(stack) - 1
  BY <1>1, <1>2
<1>4. \A i \in 1 .. (Len(stack) - 1) : stack'[i] = stack[i]
  BY <1>2
<1>5. ASSUME NEW i \in 1 .. (Len(stack') - 1)
      PROVE  stack'[i] # "conflict" /\ (stack'[i] = "change" => stack'[i + 1] = "conflict")
  <2>1. i \in 1 .. (Len(stack) - 1) /\ i + 1 \in 1 .. (Len(stack) - 1)
    BY <1>1, <1>3
  <2> QED
    BY <1>4, <2>1 DEF Nesting
<1>6. Nesting'
  <2>1. 1 \in 1 .. (Len(stack) - 1) /\ stack[1] = "home"
    BY <1>1 DEF Nesting
  <2>2. stack'[1] = "home"
    BY <1>4, <2>1
  <2> QED
    BY <1>1, <1>3, <1>5, <2>2 DEF Nesting
<1>7. ASSUME Open("change"), Last(stack) # "change" PROVE Open("change")'
  <2>1. PICK i \in 1 .. Len(stack) : stack[i] = "change"
    BY <1>1, <1>7 DEF Open
  <2>2. i \in 1 .. (Len(stack) - 1)
    BY <1>1, <1>7, <2>1 DEF Last
  <2>3. i \in DOMAIN stack' /\ stack'[i] = "change"
    BY <1>2, <1>4, <2>1, <2>2
  <2> QED
    BY <2>3 DEF Open
<1> QED
  BY <1>6, <1>7

\* What the steps of a material change write is of the type of mat.
LEMMA MatSteps ==
  ASSUME mat \in Mat
  PROVE  /\ MatPrepared \in Mat /\ ~MatPrepared.sent
         /\ [MatPrepared EXCEPT !.target = 0] \in Mat
         /\ SetTarget(mat, 0, FALSE) \in Mat
         /\ SetTarget(mat, mat.target, TRUE) \in Mat
         /\ mat.target # 0 => SetTarget(mat, mat.target, TRUE).sent
         /\ BeginMove(mat) \in Mat /\ BeginMove(mat).sent = mat.sent
<1>0. 0 \in Temp /\ Warm \in Temp
  BY DEF Temp, Warm
<1>1. MatPrepared \in Mat /\ ~MatPrepared.sent /\ [MatPrepared EXCEPT !.target = 0] \in Mat
  BY <1>0 DEF MatPrepared, Mat
<1>2. BeginMove(mat) \in Mat /\ BeginMove(mat).sent = mat.sent
  BY DEF BeginMove, Mat
<1>3. SetTarget(mat, 0, FALSE) \in Mat
  <2> DEFINE z == IF 0 = 0 /\ ~mat.moving THEN "prepared"
                  ELSE IF FALSE /\ 0 > 0 /\ mat.state = "prepared" THEN "busy" ELSE mat.state
  <2>1. z \in {"prepared", "busy", "finalizing"}
    BY DEF Mat
  <2>2. SetTarget(mat, 0, FALSE)
          = [mat EXCEPT !.target = 0, !.accepted = 0, !.sent = FALSE, !.state = z]
    BY DEF SetTarget, Mat
  <2> HIDE DEF z
  <2> QED
    BY <1>0, <2>1, <2>2 DEF Mat
<1>4. /\ SetTarget(mat, mat.target, TRUE) \in Mat
      /\ mat.target # 0 => SetTarget(mat, mat.target, TRUE).sent
  <2> DEFINE t == mat.target
             b == TRUE /\ t > 0
             z == IF t = 0 /\ ~mat.moving THEN "prepared"
                  ELSE IF TRUE /\ t > 0 /\ mat.state = "prepared" THEN "busy" ELSE mat.state
  <2>1. t \in Temp /\ b \in BOOLEAN /\ (t # 0 => b)
    BY DEF Mat, Temp
  <2>2. z \in {"prepared", "busy", "finalizing"}
    BY DEF Mat
  <2>3. SetTarget(mat, t, TRUE)
          = [mat EXCEPT !.target = t, !.accepted = t, !.sent = b, !.state = z]
    BY DEF SetTarget, Mat
  <2> HIDE DEF b, z, t
  <2>4. /\ SetTarget(mat, t, TRUE) \in Mat /\ SetTarget(mat, t, TRUE).sent = b
    BY <2>1, <2>2, <2>3 DEF Mat
  <2> QED
    BY <2>1, <2>4 DEF t
<1> QED
  BY <1>1, <1>2, <1>3, <1>4

\* Both ways to switch the nozzle off do so or leave it in doubt.
LEMMA SwitchingOff ==
  ASSUME HeaterInv, StopMaterial \/ CooldownNozzle
  PROVE  mat' \in Mat /\ unsure' \in BOOLEAN /\ (heater' = "off" \/ unsure')
BY MatSteps DEF HeaterInv, StopMaterial, CooldownNozzle, NozzleAnswered, NozzleFails

\* The buttons of the change screen heat only what the screen remembers having heated.
LEMMA ChangeScreenInv ==
  ASSUME HeaterInv, SliderCb \/ SetTempCb \/ MoveCb \/ MoveOver \/ StopCb
  PROVE  HeaterInv'
<1>1. stack' = stack /\ mat \in Mat
  BY DEF HeaterInv, SliderCb, SetTempCb, MoveCb, MoveOver, StopCb
<1>2. Nesting' /\ (Open("change") => Open("change")')
  BY <1>1 DEF HeaterInv, Nesting, Open
<1>3. On("change") => Open("change")
  <2>1. Len(stack) \in DOMAIN stack
    BY DEF HeaterInv, Nesting
  <2> QED
    BY <2>1 DEF On, Open, Last
<1>4. CASE SliderCb
  <2>1. PICK t \in Temp :
          mat' = [mat EXCEPT !.target = t,
                             !.state = IF ~mat.sent /\ t = 0 /\ ~mat.moving THEN "prepared"
                                       ELSE @]
    BY <1>4 DEF SliderCb
  <2>2. mat' \in Mat /\ mat'.sent = mat.sent
    BY <1>1, <2>1 DEF Mat
  <2>3. UNCHANGED <<heater, unsure>>
    BY <1>4 DEF SliderCb
  <2> QED
    BY <1>2, <2>2, <2>3 DEF HeaterInv, Remembered
<1>5. CASE MoveCb
  <2>1. UNCHANGED <<heater, unsure>> /\ (mat' = mat \/ mat' = BeginMove(mat))
    BY <1>5 DEF MoveCb
  <2>2. mat' \in Mat /\ mat'.sent = mat.sent
    BY <1>1, <2>1, MatSteps
  <2> QED
    BY <1>2, <2>1, <2>2 DEF HeaterInv, Remembered
<1>6. CASE MoveOver
  <2>1. mat' = [mat EXCEPT !.moving = FALSE,
                           !.state = IF Wanted > 0 THEN "busy" ELSE "prepared"]
    BY <1>6 DEF MoveOver
  <2>2. mat' \in Mat /\ mat'.sent = mat.sent
    BY <1>1, <2>1 DEF Mat
  <2>3. UNCHANGED <<heater, unsure>>
    BY <1>6 DEF MoveOver
  <2> QED
    BY <1>2, <2>2, <2>3 DEF HeaterInv, Remembered
<1>7. CASE StopCb
  BY <1>2, <1>7, SwitchingOff DEF StopCb, HeaterInv, Remembered
<1>8. CASE SetTempCb
  <2> DEFINE h == IF mat.target = 0 THEN "off" ELSE "change"
  <2>1. CASE NozzleAnswered(h) /\ mat' = SetTarget(mat, mat.target, TRUE)
    <3>1. mat' \in Mat /\ (mat.target # 0 => mat'.sent)
      BY <1>1, <2>1, MatSteps
    <3>2. CASE unsure' = unsure /\ heater' = h
      BY <1>2, <1>3, <1>8, <3>1, <3>2 DEF HeaterInv, Remembered, SetTempCb
    <3>3. CASE unsure' = TRUE
      BY <1>2, <3>1, <3>3 DEF HeaterInv, Remembered
    <3> QED
      BY <2>1, <3>2, <3>3 DEF NozzleAnswered
  <2>2. CASE NozzleFails(h) /\ UNCHANGED mat
    BY <1>1, <1>2, <2>2 DEF HeaterInv, Remembered, NozzleFails
  <2> QED
    BY <1>8, <2>1, <2>2 DEF SetTempCb
<1> QED
  BY <1>4, <1>5, <1>6, <1>7, <1>8

\* A change screen that opens has heated nothing, and none is open already.
LEMMA OpenScreenInv ==
  ASSUME HeaterInv, OpenScreen
  PROVE  HeaterInv'
<1>1. PICK s \in Opens(Last(stack)) :
        /\ stack' = Pushed(s)
        /\ IF s = "change" THEN mat' = MatPrepared /\ UNCHANGED <<heater, unsure>>
           ELSE UNCHANGED <<mat, heater, unsure>>
  BY DEF OpenScreen, matVars
<1>2. /\ s \in Screen /\ Last(stack) # "conflict" /\ Last(stack) # "change"
      /\ s = "change" => Last(stack) = "material"
  BY DEF Opens, HomeOpens, MaintenanceOpens, MaterialOpens, SettingsOpens, Screen
<1>3. Nesting' /\ (Open("change") => Open("change")')
  BY <1>1, <1>2, PushNests DEF HeaterInv
<1>4. ~Open("change")
  BY <1>2, OpenIsOnTop DEF HeaterInv
<1>5. CASE s = "change"
  BY <1>1, <1>3, <1>4, <1>5, MatSteps DEF HeaterInv, Remembered
<1>6. CASE s # "change"
  BY <1>1, <1>3, <1>4, <1>6 DEF HeaterInv, Remembered
<1> QED
  BY <1>5, <1>6

\* Leaving the change screen switches off what it heated, or records that this failed.
LEMMA BackInv ==
  ASSUME HeaterInv, Back
  PROVE  HeaterInv'
<1>1. Nesting' /\ (Open("change") /\ Last(stack) # "change" => Open("change")')
  BY PopNests DEF HeaterInv, Back
<1>2. CASE Last(stack) = "change"
  <2>1. MaterialDestroy
    BY <1>2 DEF Back
  <2>2. CASE StopMaterial \/ CooldownNozzle
    BY <1>1, <2>2, SwitchingOff DEF HeaterInv, Remembered
  <2>3. CASE ~mat.sent /\ UNCHANGED <<matVars, budget>>
    BY <1>1, <2>3 DEF HeaterInv, Remembered, matVars
  <2> QED
    BY <2>1, <2>2, <2>3 DEF MaterialDestroy
<1>3. CASE Last(stack) # "change"
  <2>1. UNCHANGED <<mat, heater, unsure>>
    BY <1>3 DEF Back, matVars
  <2> QED
    BY <1>1, <1>3, <2>1 DEF HeaterInv, Remembered
<1> QED
  BY <1>2, <1>3

\* The prompt covers the change screen and uncovers it again.
LEMMA PromptInv ==
  ASSUME HeaterInv, ConflictPoll \/ ContinueCb \/ CancelCb
  PROVE  HeaterInv'
<1>1. CASE ConflictPoll
  <2>1. Nesting' /\ (Open("change") => Open("change")')
    BY <1>1, PushNests DEF HeaterInv, ConflictPoll, Screen
  <2> QED
    BY <1>1, <2>1 DEF HeaterInv, Remembered, ConflictPoll, matVars
<1>2. CASE Decide /\ (heater' = heater \/ heater' # "change")
  <2>1. stack' = Front(stack) /\ Last(stack) = "conflict" /\ UNCHANGED <<mat, unsure>>
    BY <1>2 DEF Decide, On
  <2>2. CASE Len(stack) > 1
    <3>1. Nesting' /\ (Open("change") => Open("change")')
      BY <2>1, <2>2, PopNests DEF HeaterInv
    <3> QED
      BY <1>2, <2>1, <3>1 DEF HeaterInv, Remembered
  <2>3. Len(stack) > 1
    BY <2>1 DEF HeaterInv, Nesting, Last
  <2> QED
    BY <2>2, <2>3
<1> QED
  BY <1>1, <1>2 DEF ContinueCb, CancelCb

\* Every step keeps the invariant.
LEMMA HeaterInvNext ==
  ASSUME HeaterInv, [ScreensNext]_screenVars
  PROVE  HeaterInv'
<1>1. CASE /\ UNCHANGED <<stack, mat, unsure>> /\ (heater' = heater \/ heater' # "change")
  BY <1>1 DEF HeaterInv, Nesting, Remembered, Open
<1>2. CASE LevelNextCb \/ LevelNextFails \/ LevelCancelCb \/ MacroStep \/ MacroFails \/ LevelTimer
  BY <1>1, <1>2 DEF LevelNextCb, LevelNextFails, LevelCancelCb, MacroStep, MacroFails,
     MacroAnswered, MacroFlags, MacroEnds, MacroMoves, LevelTimer, matVars
<1>3. CASE SliderCb \/ SetTempCb \/ MoveCb \/ MoveOver \/ StopCb
  BY <1>3, ChangeScreenInv
<1>4. CASE OpenScreen
  BY <1>4, OpenScreenInv
<1>5. CASE Back
  BY <1>5, BackInv
<1>6. CASE ConflictPoll \/ ContinueCb \/ CancelCb
  BY <1>6, PromptInv
<1>7. CASE StatusArrives
  BY <1>1, <1>7 DEF StatusArrives
<1>8. CASE UiRestarts
  <2>1. stack' = <<"home", "status">> /\ mat' = MatPrepared /\ heater' = heater
    BY <1>8 DEF UiRestarts
  <2>2. Nesting'
    BY <2>1 DEF Nesting, Screen
  <2>3. unsure' = (unsure \/ heater = "change")
    BY <1>8 DEF UiRestarts
  <2> QED
    BY <2>1, <2>2, <2>3, MatSteps DEF HeaterInv, Remembered
<1>9. CASE ConflictChanges \/ RebuildStack \/ UNCHANGED screenVars
  BY <1>1, <1>9 DEF ConflictChanges, RebuildStack, screenVars, matVars
<1> QED
  BY <1>2, <1>3, <1>4, <1>5, <1>6, <1>7, <1>8, <1>9 DEF ScreensNext

\* HeaterIsLeftOff for every stack, tour and number of faults: a nozzle that the material
\* change heated is switched off by whatever closes its screen, unless a command failed or
\* was answered with an error, or the process stopped.
THEOREM HeaterIsAlwaysLeftOff == ScreensSpec => []HeaterIsLeftOff
<1>1. ScreensInit => HeaterInv
  <2> SUFFICES ASSUME ScreensInit PROVE HeaterInv
    OBVIOUS
  <2>1. Nesting
    BY DEF ScreensInit, Nesting, Screen
  <2>2. mat = MatPrepared /\ unsure = FALSE /\ heater = "off"
    BY DEF ScreensInit
  <2>3. MatPrepared \in Mat
    <3>1. 0 \in Temp /\ Warm \in Temp
      BY DEF Temp, Warm
    <3> QED
      BY <3>1 DEF MatPrepared, Mat
  <2> QED
    BY <2>1, <2>2, <2>3 DEF HeaterInv, Remembered
<1>2. HeaterInv /\ [ScreensNext]_screenVars => HeaterInv'
  BY HeaterInvNext
<1>3. HeaterInv => HeaterIsLeftOff
  BY DEF HeaterInv, Remembered, HeaterIsLeftOff
<1> QED
  BY <1>1, <1>2, <1>3, PTL DEF ScreensSpec
=============================================================================
