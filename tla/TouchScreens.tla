---------------------------- MODULE TouchScreens ----------------------------
(***************************************************************************)
(* The touch screen's process: the stack of screens (screen_mgr.c), the    *)
(* loop that asks for a decision about a print that conflicts with what is *)
(* loaded (main.c), and the two workflows that move and heat the printer   *)
(* by hand, build plate levelling (screen_level.c, buildplate_level.c) and *)
(* material change (screen_material.c, material_workflow.c).               *)
(*                                                                         *)
(* The screens share one thread; the macros of the levelling are sent by a *)
(* thread of their own, watched by a 100 ms timer.  What the printer does  *)
(* is known from its last status message.  A command can fail, and one     *)
(* that is answered too late fails for the screen and is still carried     *)
(* out.                                                                    *)
(***************************************************************************)
EXTENDS Naturals, SequencesExt

CONSTANTS
  StackMax,   \* SCREEN_STACK_MAX
  MaxTour,    \* bound on the workflow screens that one behaviour visits
  MaxJobs,    \* bound on the times a job comes to need a decision, or was decided on elsewhere
  MaxFaults   \* bound on failing commands and restarts of the process

ASSUME ScreensAssumption ==
  StackMax \in Nat \ {0} /\ MaxTour \in Nat /\ MaxJobs \in Nat /\ MaxFaults \in Nat

VARIABLES
  stack,     \* names of the open screens, the visible one last
  level,     \* level_workflow, level_macro_cancelled, and whether Next is enabled
  macro,     \* level_macro_thread: the macro it sends, and where it is
  done,      \* level_macro_done
  failedRc,  \* level_macro_rc # 0
  watch,     \* level_macro_timer exists
  mat,       \* workflow_state of the material change
  due,       \* workflow_move_done_at is set
  seen,      \* the status message: the printer is down (or in error), idle or printing, and
             \* the nozzle's temperature
  heater,    \* who last set the nozzle's target: "off", "change" or "print"
  conflict,  \* an uploaded job waits for a decision
  reached,   \* history variable: the last macro that was answered in this levelling
  dropped,   \* history variable: a levelling screen left between a macro's end and the timer
  unsure,    \* history variable: a command to the nozzle failed or was refused, or a stop
             \* of the process forgot that it was heated
  tour,      \* the workflow screens this behaviour visits
  budget

levelVars  == <<level, macro, done, failedRc, watch, reached, dropped>>
matVars    == <<mat, due, heater, unsure>>
screenVars == <<stack, levelVars, matVars, seen, conflict, tour, budget>>
Workflow   == {"level", "change"}

Step    == 1..5   \* DENEB_BUILDPLATE_LEVEL_STEP_1 .. STEP_FINISH
Finish  == 5
Temp    == 0..2   \* degrees: off, below DENEB_PRINT_MATERIAL_MIN_MOVE_TEMP_C, and above
Warm    == 2
NoMacro == [step |-> 0, at |-> "none"]

\* Buttons that open another screen.  "leaf" stands for the screens that open none and keep
\* nothing that is modelled: jog, temperature, update, diagnostics, set material, nozzle
\* size, network, digital factory, frame lighting, factory reset and about.
HomeOpens        == {"status", "print", "material", "maintenance", "settings", "leaf"}
MaintenanceOpens == {"level", "leaf"}
MaterialOpens    == {"change", "leaf"}
SettingsOpens    == {"language", "leaf"}

Opens(s) ==
  CASE s = "home"        -> HomeOpens
    [] s = "print"       -> {"material"}      \* change_material_cb
    [] s = "material"    -> MaterialOpens
    [] s = "maintenance" -> MaintenanceOpens
    [] s = "settings"    -> SettingsOpens
    [] OTHER             -> {}

LevelNone == [state |-> "none", step |-> 1, cancelled |-> FALSE, next |-> FALSE]

\* deneb_material_workflow_init, deneb_material_workflow_prepare
MatPrepared ==
  [state |-> "prepared", moving |-> FALSE, target |-> Warm, accepted |-> 0, sent |-> FALSE]

ScreensInit ==
  /\ stack = <<"home", "status">>
  /\ level = LevelNone /\ macro = NoMacro /\ done = FALSE /\ failedRc = FALSE
  /\ watch = FALSE
  /\ mat = MatPrepared /\ due = FALSE
  /\ seen = [printer |-> "idle", temp |-> 0]
  /\ heater = "off" /\ conflict = FALSE
  /\ reached = 0 /\ dropped = FALSE /\ unsure = FALSE
  /\ tour \in {w \in SUBSET Workflow : Cardinality(w) <= MaxTour}
  /\ budget = [job |-> MaxJobs, fault |-> MaxFaults]

Pay(k)  == budget[k] > 0 /\ budget' = [budget EXCEPT ![k] = @ - 1]
On(s)   == Last(stack) = s
Open(s) == \E i \in DOMAIN stack : stack[i] = s

----------------------------------------------------------------------------
(* Build plate levelling. *)

\* backend_is_ready, backend_manual_action_allowed
BackendReady  == seen.printer # "down"
ManualAllowed == seen.printer = "idle"

Resting == level.state \in {"none", "final", "cancelled"}
Sending == macro # NoMacro                    \* level_macro_running

\* level_update: whether Next is enabled.
LevelUpdate(wf, running) ==
  [wf EXCEPT !.next = ManualAllowed /\ ~running /\ wf.state # "moving"
                      /\ (wf.state = "target" => wf.step # Finish)]

Prepared(wf) == [wf EXCEPT !.state = "prepared", !.step = 1]

\* level_create: the workflow outlives its screen.
LevelCreate ==
  level' = LevelUpdate(IF level.state = "none" THEN Prepared(level) ELSE level, Sending)

\* Mutant: the timer goes with the screen.
LevelDestroyAlways ==
  /\ watch' = FALSE
  /\ dropped' = (dropped \/ (watch /\ ~Sending /\ done))
  /\ UNCHANGED <<level, macro, done, failedRc, reached>>

\* level_destroy: the timer stays while the thread runs.
LevelDestroy ==
  /\ watch' = (watch /\ Sending)
  /\ dropped' = (dropped \/ (watch /\ ~Sending /\ done))
  /\ UNCHANGED <<level, macro, done, failedRc, reached>>

\* deneb_buildplate_level_workflow_next_step
NextStep == IF Resting \/ level.state = "prepared" THEN 1 ELSE level.step + 1

\* Mutant: the result of the macro is not looked at.
CompleteMoveAnyway ==
  [level EXCEPT !.state = IF level.step = Finish THEN "final" ELSE "target"]

\* deneb_buildplate_level_workflow_complete_move, or workflow_cancel.
CompleteMove ==
  [level EXCEPT !.state = IF level.cancelled \/ failedRc THEN "cancelled"
                          ELSE IF level.step = Finish THEN "final" ELSE "target"]

\* deneb_buildplate_level_workflow_start, _advance.
StartMove(step) == [level EXCEPT !.state = "moving", !.step = step, !.cancelled = FALSE]

\* level_next_cb: the workflow is started or advanced, then the thread is created.
LevelNextCb ==
  /\ On("level") /\ level.next
  /\ IF ManualAllowed /\ ~Sending /\ level.state # "moving"
     THEN /\ macro' = [step |-> NextStep, at |-> "sends"]
          /\ level' = LevelUpdate(StartMove(NextStep), TRUE)
          /\ done' = FALSE /\ failedRc' = FALSE /\ watch' = TRUE
     ELSE level' = LevelUpdate(level, Sending) /\ UNCHANGED <<macro, done, failedRc, watch>>
  /\ UNCHANGED <<stack, matVars, seen, conflict, tour, reached, dropped, budget>>

\* pthread_create fails.
LevelNextFails ==
  /\ On("level") /\ level.next /\ ManualAllowed /\ ~Sending /\ level.state # "moving"
  /\ Pay("fault")
  /\ level' = LevelUpdate([StartMove(NextStep) EXCEPT !.state = "cancelled"], FALSE)
  /\ done' = FALSE /\ failedRc' = TRUE
  /\ UNCHANGED <<stack, macro, watch, matVars, seen, conflict, tour, reached, dropped>>

\* level_cancel_cb: a macro that is under way is only marked.
LevelCancelCb ==
  /\ On("level") /\ ~Resting /\ ~level.cancelled
  /\ level' = LevelUpdate(IF level.state = "moving" THEN [level EXCEPT !.cancelled = TRUE]
                          ELSE [level EXCEPT !.state = "cancelled"], Sending)
  /\ UNCHANGED <<stack, macro, done, failedRc, watch, matVars, seen, conflict, tour, reached,
                 dropped, budget>>

MacroMoves(from, to) ==
  /\ macro.at = from
  /\ macro' = IF to = "none" THEN NoMacro ELSE [macro EXCEPT !.at = to]
  /\ UNCHANGED <<stack, level, watch, matVars, seen, conflict, tour, dropped>>

\* level_macro_thread: backend_send_macro is answered, or it fails.  Any answer will do: the
\* reply is received and thrown away, "macro failed" as much as "macro done".
MacroAnswered ==
  /\ MacroMoves("sends", "flags") /\ reached' = macro.step
  /\ UNCHANGED <<done, failedRc, budget>>

MacroFails ==
  /\ MacroMoves("sends", "flags") /\ Pay("fault")
  /\ failedRc' = TRUE /\ reached' = 0
  /\ UNCHANGED done

MacroFlags ==
  MacroMoves("flags", "ends") /\ done' = TRUE /\ UNCHANGED <<failedRc, reached, budget>>

MacroEnds ==
  MacroMoves("ends", "none") /\ UNCHANGED <<done, failedRc, reached, budget>>

MacroStep == MacroAnswered \/ MacroFlags \/ MacroEnds

\* level_macro_timer_cb
LevelTimer ==
  /\ watch /\ done
  /\ done' = FALSE /\ watch' = FALSE
  /\ failedRc' = (failedRc /\ ~level.cancelled)
  /\ level' = LevelUpdate([CompleteMove EXCEPT !.cancelled = FALSE], Sending)
  /\ UNCHANGED <<stack, macro, matVars, seen, conflict, tour, reached, dropped, budget>>

----------------------------------------------------------------------------
(* Material change. *)

\* A command that sets the nozzle's target: it is carried out and answered; it is answered
\* with an error ("gcode already active", "gcode queue full", "gcode failed"), which counts
\* as sent because the reply is thrown away; or it fails for the screen, that is, it is lost
\* or answered after the 1 s timeout of send_rpc.
NozzleAnswered(h) ==
  \/ heater' = h /\ UNCHANGED <<unsure, budget>>
  \/ heater' = heater /\ unsure' = TRUE /\ Pay("fault")
NozzleFails(h) == heater' \in {heater, h} /\ unsure' = TRUE /\ Pay("fault")

\* deneb_material_workflow_set_target
SetTarget(wf, t, sent) ==
  [wf EXCEPT !.target = t, !.accepted = IF sent THEN t ELSE 0, !.sent = sent /\ t > 0,
             !.state = IF t = 0 /\ ~wf.moving THEN "prepared"
                       ELSE IF sent /\ t > 0 /\ wf.state = "prepared" THEN "busy" ELSE @]

Wanted   == IF mat.sent THEN mat.accepted ELSE mat.target
MatReady == Wanted >= Warm /\ seen.temp = Wanted     \* deneb_print_material_move_ready

\* workflow_slider_cb, deneb_material_workflow_edit_target
SliderCb ==
  /\ On("change")
  /\ \E t \in Temp \ {mat.target} :
       mat' = [mat EXCEPT !.target = t,
                          !.state = IF ~mat.sent /\ t = 0 /\ ~mat.moving THEN "prepared" ELSE @]
  /\ UNCHANGED <<stack, levelVars, due, heater, unsure, seen, conflict, tour, budget>>

\* workflow_set_temp_cb, send_material_target: also during a print.
SetTempCb ==
  /\ On("change") /\ BackendReady
  /\ LET h == IF mat.target = 0 THEN "off" ELSE "change" IN
     \/ NozzleAnswered(h) /\ mat' = SetTarget(mat, mat.target, TRUE)
     \/ NozzleFails(h) /\ UNCHANGED mat
  /\ UNCHANGED <<stack, levelVars, due, seen, conflict, tour>>

\* Mutant: the move forgets that the target was sent.
BeginMoveForgets(wf) == [wf EXCEPT !.state = "finalizing", !.moving = TRUE, !.sent = FALSE]

\* deneb_material_workflow_begin_move
BeginMove(wf) == [wf EXCEPT !.state = "finalizing", !.moving = TRUE]

\* workflow_load_cb, workflow_unload_cb: the move is sent and its end is a matter of time; a
\* move that could not be sent, or was answered too late, is forgotten.
MoveCb ==
  /\ On("change") /\ ~mat.moving /\ ManualAllowed /\ MatReady
  /\ \/ mat' = BeginMove(mat) /\ due' = TRUE /\ UNCHANGED budget
     \/ Pay("fault") /\ UNCHANGED <<mat, due>>
  /\ UNCHANGED <<stack, levelVars, heater, unsure, seen, conflict, tour>>

\* workflow_timer_cb, deneb_material_workflow_complete_move: the timer outlives a prompt
\* on top of the screen.
MoveOver ==
  /\ Open("change") /\ mat.moving /\ due
  /\ mat' = [mat EXCEPT !.moving = FALSE, !.state = IF Wanted > 0 THEN "busy" ELSE "prepared"]
  /\ due' = FALSE
  /\ UNCHANGED <<stack, levelVars, heater, unsure, seen, conflict, tour, budget>>

\* workflow_stop_material: stop the feeder, switch the nozzle off, and prepare again.
StopMaterial ==
  \/ NozzleAnswered("off") /\ mat' = [MatPrepared EXCEPT !.target = 0] /\ due' = FALSE
  \/ NozzleFails("off") /\ UNCHANGED <<mat, due>>

\* workflow_cooldown_nozzle
CooldownNozzle ==
  \/ NozzleAnswered("off") /\ mat' = SetTarget(mat, 0, FALSE) /\ UNCHANGED due
  \/ NozzleFails("off") /\ UNCHANGED <<mat, due>>

\* workflow_stop_cb: whether its button is enabled is as old as the last run of the timer,
\* so the printer may be down by now.
StopCb ==
  /\ On("change") /\ (mat.moving \/ mat.sent) /\ StopMaterial
  /\ UNCHANGED <<stack, levelVars, seen, conflict, tour>>

\* material_workflow_destroy
MaterialDestroy ==
  IF mat.moving THEN StopMaterial ELSE IF mat.sent THEN CooldownNozzle
  ELSE UNCHANGED <<matVars, budget>>

----------------------------------------------------------------------------
(* The stack of screens. *)

\* screen_mgr_push: a full stack ignores it.
Pushed(s) == IF Len(stack) >= StackMax THEN stack ELSE Append(stack, s)

\* A button that opens a screen, and what its create function does.
OpenScreen ==
  /\ \E s \in Opens(Last(stack)) :
       /\ Len(stack) < StackMax /\ (s \in Workflow => s \in tour)
       /\ stack' = Pushed(s)
       /\ IF s = "level"
          THEN LevelCreate /\ UNCHANGED <<macro, done, failedRc, watch, reached, dropped>>
          ELSE UNCHANGED levelVars
       /\ IF s = "change" THEN mat' = MatPrepared /\ due' = FALSE /\ UNCHANGED <<heater, unsure>>
          ELSE UNCHANGED matVars
  /\ UNCHANGED <<seen, conflict, tour, budget>>

\* The back button: screen_mgr_pop, with the destroy function of the screen.
Back ==
  /\ Len(stack) > 1 /\ Last(stack) # "conflict"
  /\ stack' = Front(stack)
  /\ IF Last(stack) = "level" THEN LevelDestroy ELSE UNCHANGED levelVars
  /\ IF Last(stack) = "change" THEN MaterialDestroy ELSE UNCHANGED <<matVars, budget>>
  /\ UNCHANGED <<seen, conflict, tour>>

\* lang_btn_cb, screen_mgr_rebuild_stack: every open screen is destroyed and created again.
\* They are home, settings and language, none of which keeps anything that is modelled.
RebuildStack == On("language") /\ UNCHANGED screenVars

\* The loop of main.c, once a second: a job that waits for a decision is asked about.
ConflictPoll ==
  /\ Last(stack) # "conflict" /\ conflict
  /\ stack' = Pushed("conflict")
  /\ UNCHANGED <<levelVars, matVars, seen, conflict, tour, budget>>

\* finish_prompt: a decision that was taken closes the prompt.
Decide ==
  /\ On("conflict") /\ conflict /\ BackendReady
  /\ stack' = Front(stack) /\ conflict' = FALSE
  /\ UNCHANGED <<levelVars, mat, due, unsure, seen, tour, budget>>

\* continue_btn_cb: needs an idle printer.  cancel_btn_cb aborts whatever is printed.  Both
\* need the record of the job: when it was dealt with elsewhere they fail and the prompt,
\* which has no back button, stays.
ContinueCb == Decide /\ ManualAllowed /\ heater' = "print"
CancelCb   == Decide /\ heater' = IF seen.printer = "printing" THEN "off" ELSE heater

----------------------------------------------------------------------------
(* Around the screens. *)

\* backend_poll: a print that starts takes the nozzle over, one that ends switches it off.
StatusArrives ==
  /\ seen' \in [printer : {"down", "idle", "printing"}, temp : {0, Warm}]
  /\ heater' = CASE seen'.printer = "printing" /\ seen.printer = "idle" -> "print"
                 [] seen'.printer = "idle" /\ heater = "print"            -> "off"
                 [] OTHER                                                 -> heater
  /\ UNCHANGED <<stack, levelVars, mat, due, unsure, conflict, tour, budget>>

\* A job that needs a decision is uploaded, or decided on by another client.
ConflictChanges ==
  /\ Pay("job") /\ conflict' = ~conflict
  /\ UNCHANGED <<stack, levelVars, matVars, seen, tour>>

\* The process stops and is started again.
UiRestarts ==
  /\ Pay("fault")
  /\ stack' = <<"home", "status">>
  /\ level' = LevelNone /\ macro' = NoMacro /\ done' = FALSE /\ failedRc' = FALSE
  /\ watch' = FALSE
  /\ reached' = 0 /\ mat' = MatPrepared /\ due' = FALSE
  /\ unsure' = (unsure \/ heater = "change")
  /\ UNCHANGED <<dropped, heater, seen, conflict, tour>>

ScreensNext ==
  \/ LevelNextCb \/ LevelNextFails \/ LevelCancelCb \/ MacroStep \/ MacroFails \/ LevelTimer
  \/ SliderCb \/ SetTempCb \/ MoveCb \/ MoveOver \/ StopCb
  \/ OpenScreen \/ Back \/ RebuildStack \/ ConflictPoll \/ ContinueCb \/ CancelCb
  \/ StatusArrives \/ ConflictChanges \/ UiRestarts

\* The loop turns, so that its timers run, and threads run to their end.
ScreensSpec ==
  /\ ScreensInit /\ [][ScreensNext]_screenVars
  /\ WF_screenVars(MacroStep) /\ WF_screenVars(LevelTimer)

----------------------------------------------------------------------------
(* Properties. *)

\* The levelling macros are sent one at a time and in order, through cancelling, leaving the
\* screen and failing threads: a step is only sent when the one before it was the last one
\* sent and was answered, and a first step begins anew.  Answered does not mean carried out,
\* for the reply is not looked at (level_next_cb, level_macro_timer_cb,
\* deneb_buildplate_level_workflow_advance, send_rpc_timeout).
MacrosInOrder ==
  [][macro'.at = "sends" /\ macro' # macro =>
       macro = NoMacro /\ macro'.step \in {1, reached + 1}]_screenVars

\* A levelling move ends, although its screen may be left and opened again while the macro
\* runs, except when the screen is left in the moment between the end of the thread and
\* the next run of the timer (level_macro_thread, level_macro_timer_cb, level_destroy).
LevelMoveEnds == (level.state = "moving") ~> (level.state # "moving" \/ dropped)

\* The nozzle is not left heated by a material change screen that is no longer open, by
\* whatever path it was left and whatever the state of the move, unless a command to the
\* nozzle failed, was answered with an error, which the screen does not see, or the process
\* stopped (material_workflow_destroy, workflow_stop_material).
HeaterIsLeftOff == ~Open("change") /\ ~unsure => heater # "change"
=============================================================================
