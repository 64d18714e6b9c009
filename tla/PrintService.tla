---------------------------- MODULE PrintService ----------------------------
(***************************************************************************)
(* The control state of deneb-printsvc: the single-threaded main loop of   *)
(* ipc_zmq.c, the JOB, ABORT, PAUSE, RESUME, GCODE and MACRO commands, and *)
(* what each turn of the loop polls: the serial line, automatic abort, the *)
(* pause/resume policies, the abort and finish cleanups, the status probe, *)
(* the G-code queue and the job streamer.                                  *)
(*                                                                         *)
(* pc is where in a turn the loop is.  Commands arrive only at the top of  *)
(* a turn, lines are read only at "read"; in between the loop runs alone.  *)
(* A loop of the code that sends commands is one action per command.  A    *)
(* macro polls the serial line from inside its command, so a turn can be   *)
(* nested in another: it comes back to "macro" and not to "job".           *)
(*                                                                         *)
(* The serial line is a queue here that loses nothing it was given:        *)
(* SerialLink is about the packets on it.  A packet whose write failed is  *)
(* not given to it; it only keeps its slot.  Planner space, and so         *)
(* deneb_flow_can_send, is left to SerialLink too.                         *)
(***************************************************************************)
EXTENDS MotionPolicy, Integers

CONSTANTS
  StreamWindow,  \* DENEB_PRINTSVC_STREAM_WINDOW (4)
  PollTicks,     \* DENEB_PRINTSVC_TEMP_POLL_TICKS (4)
  JobTargets,    \* the heater sets a JOB command may name
  BodyText,      \* lines of a job file
  ManualGcode,   \* the line lists a GCODE command may carry, rewritten
  MacroFile,     \* the lines of the macro files, rewritten too
  MaxLines,      \* longest job file
  MaxCommands,   \* bound on the commands clients send
  FaultLine,     \* what fault lines of the controller say: sets of words
  MaxFaults,     \* bound on fault lines
  MaxGarbled,    \* bound on responses with a bad check sum
  MaxResyncs,    \* bound on ProtoError lines
  MaxUnsent      \* bound on failing serial writes

\* A command to be sent, with the heaters the host then waits for.
Line == [cmd : MotionCommand, wait : SUBSET Heater]

\* A line of G-code: waits for a temperature above 0, the prime command, a message for
\* the display, a comment, or a command that is sent as it is.
Text == {"M190", "M109", "G280", "M117", "comment"} \cup MotionCommand

\* deneb_gcode_rewrite_line: the wait becomes the host's, priming a run of moves, and a
\* message or a comment nothing.
Rewrite(text) ==
  CASE text = "M190" -> {[cmd |-> "bedOn", wait |-> {"bed"}]}
    [] text = "M109" -> {[cmd |-> "headOn", wait |-> {"head"}]}
    [] text = "G280" -> {[cmd |-> "move", wait |-> {}]}
    [] text \in {"M117", "comment"} -> {}
    [] OTHER -> {[cmd |-> text, wait |-> {}]}

\* What deneb_gcode_stream_next returns, line by line; those that come to nothing are
\* skipped.
BodyLine == {l \in Line : \E text \in BodyText : l \in Rewrite(text)}

\* The words deneb_error_from_marlin_line looks for, in groups.
Word == {"thermal", "endstop", "serial", "recoverable", "command"}

\* deneb_error_from_marlin_line: the first group that is found counts, and a line with
\* none of them is a fault of the firmware.
ErrorFromMarlinLine(words) ==
  IF words \cap {"thermal", "endstop"} # {} THEN "fatal"
  ELSE IF "serial" \in words THEN "serial"
  ELSE IF "command" \in words THEN "command" ELSE "fatal"

\* A line of deneb_error_line_is_recoverable_serial is no fault.
FaultCode == {ErrorFromMarlinLine(w) : w \in {x \in FaultLine : "recoverable" \notin x}}

ASSUME ServiceAssumption ==
  /\ StreamWindow \in Nat \ {0} /\ PollTicks \in Nat \ {0}
  /\ JobTargets \subseteq SUBSET Heater
  /\ BodyText \subseteq Text /\ FaultLine \subseteq SUBSET Word
  /\ ManualGcode \subseteq Seq(Line) \ {<<>>} /\ MacroFile \subseteq Seq(Line)
  /\ MaxLines \in Nat /\ MaxCommands \in Nat /\ MaxFaults \in Nat
  /\ MaxGarbled \in Nat /\ MaxResyncs \in Nat /\ MaxUnsent \in Nat

VARIABLES
  pc,              \* the next thing the loop does
  \* deneb_status_t
  state,           \* status.state
  fault,           \* status.fault
  error,           \* status.error.code; "fatal" is thermal, endstop or firmware
  targets,         \* heaters with bed_t_set or head_t_set above 0
  warm,            \* heaters whose last reported temperature is at its target
  heaterWait,      \* heaters heater_wait waits for; {} when it is not active
  \* the job
  jobActive,       \* job_active
  prepare,         \* job_prepare_stage
  prepIndex,       \* job_prepare_index or job_startup_index
  streamOpen,      \* job_stream.fd >= 0
  linesLeft,       \* lines the file may still hold
  \* policies: 0 when not pending, k when pending with k - 1 commands sent
  abortAt,         \* abort_cleanup_pending, abort_cleanup_index
  finishAt,        \* finish_cleanup_pending, finish_cleanup_index
  pauseAt,         \* pause_policy_pending, pause_policy_index
  resumeAt,        \* resume_policy_pending, resume_policy_index
  \* pausing
  probe,           \* pause_position_probe_pending and _sent
  reportSince,     \* position_report_count > pause_position_report_start
  positionKnown,   \* position_report_count > 0
  pausedValid,     \* paused_position_valid
  pausedNozzle,    \* paused_nozzle_setpoint > 0
  resumeSetpoint,  \* job_nozzle_resume_setpoint > 0
  \* the GCODE queue
  queueActive,     \* gcode_queue_active
  queue,           \* the queued lines not sent yet
  macro,           \* the running macro: the lines left, where it is, and whether
                   \* the poll it made failed
  ticks,           \* temperature_poll_ticks
  \* the line and the controller
  wire,            \* commands in flight, oldest first
  stale,           \* commands still on the line that clear_inflight forgot
  unsent,          \* the places in stale \o wire of packets whose write failed
  handlingResend,  \* handling_resend: a reject was acted on, no answer came since
  heating,         \* heaters the controller has a target for
  \* history and bounds
  positionIsFresh, \* no move was executed since the last position report
  fatalSeen,       \* a fatal line was read this turn, and was a heater awaited?
  budget           \* what clients and the environment may still do

statusVars == <<state, fault, error, targets, warm, heaterWait>>
jobVars    == <<jobActive, prepare, prepIndex, streamOpen, linesLeft>>
policyVars == <<abortAt, finishAt, pauseAt, resumeAt>>
pauseVars  == <<probe, reportSince, positionKnown, pausedValid, pausedNozzle,
                resumeSetpoint>>
queueVars  == <<queueActive, queue, macro>>
linkVars   == <<wire, stale, unsent, handlingResend, heating, positionIsFresh>>
vars == <<pc, statusVars, jobVars, policyVars, pauseVars, queueVars, linkVars,
          ticks, fatalSeen, budget>>

ActiveState == {"preparing", "printing", "pausing", "paused", "aborting"}
PrintState  == ActiveState \cup {"idle", "complete", "error"}

NoMacro == [lines |-> <<>>, at |-> "none", failed |-> "no"]

ServiceInit ==
  /\ pc = "command"
  /\ state = "idle" /\ fault = FALSE /\ error = "none"
  /\ targets = {} /\ warm = {} /\ heaterWait = {}
  /\ jobActive = FALSE /\ prepare = "done" /\ prepIndex = 0
  /\ streamOpen = FALSE /\ linesLeft = 0
  /\ abortAt = 0 /\ finishAt = 0 /\ pauseAt = 0 /\ resumeAt = 0
  /\ probe = "none" /\ reportSince = FALSE /\ positionKnown = FALSE
  /\ pausedValid = FALSE /\ pausedNozzle = FALSE /\ resumeSetpoint = FALSE
  /\ queueActive = FALSE /\ queue = <<>> /\ macro = NoMacro
  /\ ticks = 0
  /\ wire = <<>> /\ stale = <<>> /\ heating = {}
  /\ unsent = {} /\ handlingResend = FALSE
  /\ positionIsFresh = TRUE
  /\ fatalSeen = "no"
  /\ budget = [command |-> MaxCommands, fault |-> MaxFaults, garble |-> MaxGarbled,
               resync |-> MaxResyncs, unsent |-> MaxUnsent]

----------------------------------------------------------------------------
(* Shared pieces. *)

Goto(next) == pc' = next

Spend(what) ==
  /\ budget[what] > 0
  /\ budget' = [budget EXCEPT ![what] = @ - 1]

\* Mutant: the window is one too small.
GateOpenLate(n) == Len(wire) + 1 < n /\ \A k \in DOMAIN wire : ~IsBarrier(wire[k])

\* The gate every sender checks: no pending barrier and a window of n.
GateOpen(n) == Len(wire) < n /\ \A k \in DOMAIN wire : ~IsBarrier(wire[k])

\* deneb_flow_prepare_packet, the first half of deneb_motion_sender_send_gcode: the
\* packet has a number and a slot, whether it is written or not.
Send(c) ==
  wire' = Append(wire, c) /\ UNCHANGED <<stale, handlingResend, heating, positionIsFresh>>

\* Where the next packet will be in stale \o wire.
NextPlace == Len(stale) + Len(wire) + 1

\* Its second half, deneb_serial_write_all: the packet is on the line or, when the
\* write fails, only in its slot.
SendOk(c)    == Send(c) /\ UNCHANGED <<unsent, budget>>
SendFails(c) == Send(c) /\ unsent' = unsent \cup {NextPlace} /\ Spend("unsent")

\* deneb_flow_clear_inflight: the commands are still on the line, and the numbers
\* of those that never were are forgotten.
ClearInflight ==
  /\ stale' = stale \o wire
  /\ wire' = <<>>
  /\ UNCHANGED <<unsent, handlingResend, heating, positionIsFresh>>

Busy == probe # "none" \/ pauseAt # 0 \/ resumeAt # 0

\* Mutant: the reported temperatures are not looked at.
HeaterAssumedReady == TRUE

\* deneb_heater_wait_ready and deneb_heater_wait_apply_status.
HeaterReady == heaterWait \subseteq warm

ApplyHeaterWait(wait) ==
  /\ state' = IF wait = {} THEN state ELSE "preparing"
  /\ targets' = targets \cup wait

\* deneb_gcode_control_refresh_manual_status with targets t.
RefreshedState(t, queued) ==
  IF \/ jobActive \/ abortAt # 0 \/ finishAt # 0 \/ queued
     \/ heaterWait # {} \/ state \in {"error", "complete"}
  THEN state
  ELSE IF t # {} THEN "preparing" ELSE "idle"

\* deneb_job_lifecycle_error.
LifecycleError(code) == state' = "error" /\ fault' = TRUE /\ error' = code

----------------------------------------------------------------------------
(* Commands: at most one per turn, taken at the top of the loop.            *)

\* No command, or one that deneb_command_parse or its handler refuses, which changes
\* nothing.
NoCommand ==
  /\ pc = "command" /\ Goto("read")
  /\ UNCHANGED <<statusVars, jobVars, policyVars, pauseVars, queueVars, linkVars,
                 ticks, fatalSeen, budget>>

\* deneb_job_control_accept with deneb_job_lifecycle_start.
AcceptJob(t) ==
  /\ pc = "command" /\ Spend("command") /\ Goto("read")
  /\ ~jobActive /\ finishAt = 0 /\ abortAt = 0 /\ ~queueActive /\ ~Busy
  /\ ClearInflight
  /\ pausedValid' = FALSE /\ pausedNozzle' = FALSE
  /\ resumeSetpoint' = ("head" \in t)
  /\ jobActive' = TRUE /\ streamOpen' = TRUE /\ linesLeft' = MaxLines
  /\ prepare' = "home" /\ prepIndex' = 0
  /\ state' = "preparing" /\ fault' = FALSE /\ error' = "none"
  /\ targets' = targets \cup t
  /\ heaterWait' = targets \cup t
  /\ UNCHANGED <<warm, policyVars, probe, reportSince, positionKnown, queueVars,
                 ticks, fatalSeen>>

\* The same with a file that cannot be opened.
RejectJobFile ==
  /\ pc = "command" /\ Spend("command") /\ Goto("read")
  /\ ~jobActive /\ finishAt = 0 /\ abortAt = 0 /\ ~queueActive /\ ~Busy
  /\ error' = "storage"
  /\ UNCHANGED <<state, fault, targets, warm, heaterWait, jobVars, policyVars,
                 pauseVars, queueVars, linkVars, ticks, fatalSeen>>

\* job_control_abortable, and what deneb_job_control_abort does on an open port.
Abortable ==
  \/ jobActive \/ queueActive \/ targets # {}
  \/ state \in {"preparing", "printing", "paused", "aborting"}

\* Mutant: the finish cleanup survives the abort.
StartAbortKeepsFinish ==
  /\ jobActive' = FALSE /\ streamOpen' = FALSE /\ linesLeft' = 0
  /\ prepare' = "done" /\ prepIndex' = 0
  /\ abortAt' = 1 /\ pauseAt' = 0 /\ resumeAt' = 0
  /\ probe' = "none" /\ reportSince' = FALSE
  /\ pausedValid' = FALSE /\ pausedNozzle' = FALSE /\ resumeSetpoint' = FALSE
  /\ queueActive' = FALSE /\ queue' = <<>>
  /\ heaterWait' = {} /\ targets' = {} /\ state' = "aborting"
  /\ UNCHANGED <<finishAt, fault, error, warm, positionKnown, macro, linkVars>>

StartAbort ==
  /\ jobActive' = FALSE /\ streamOpen' = FALSE /\ linesLeft' = 0
  /\ prepare' = "done" /\ prepIndex' = 0
  /\ abortAt' = 1 /\ finishAt' = 0 /\ pauseAt' = 0 /\ resumeAt' = 0
  /\ probe' = "none" /\ reportSince' = FALSE
  /\ pausedValid' = FALSE /\ pausedNozzle' = FALSE /\ resumeSetpoint' = FALSE
  /\ queueActive' = FALSE /\ queue' = <<>>
  /\ heaterWait' = {} /\ targets' = {} /\ state' = "aborting"
  /\ UNCHANGED <<fault, error, warm, positionKnown, macro, linkVars>>

Abort ==
  /\ pc = "command" /\ Spend("command") /\ Goto("read")
  /\ Abortable /\ StartAbort
  /\ UNCHANGED <<ticks, fatalSeen>>

\* deneb_pause_resume_control_pause.  A running job is probed for its position
\* first; anything else that can be paused is saved as it stands.
SavePauseState ==
  LET nozzle == "head" \in targets \/ resumeSetpoint IN
  /\ pausedValid' = positionKnown
  /\ pausedNozzle' = nozzle /\ resumeSetpoint' = nozzle

Pause ==
  /\ pc = "command" /\ Spend("command") /\ Goto("read")
  /\ ~Busy
  /\ state \in {"preparing", "printing", "pausing", "paused"}
  /\ state' = IF jobActive /\ state \in {"preparing", "printing"}
              THEN "pausing" ELSE "paused"
  /\ \/ /\ jobActive
        /\ probe' = "wanted" /\ reportSince' = FALSE
        /\ pausedValid' = FALSE
        /\ resumeSetpoint' = ("head" \in targets \/ resumeSetpoint)
        /\ UNCHANGED pausedNozzle
     \/ /\ ~jobActive
        /\ SavePauseState
        /\ UNCHANGED <<probe, reportSince>>
  /\ UNCHANGED <<fault, error, targets, warm, heaterWait, jobVars, policyVars,
                 positionKnown, queueVars, linkVars, ticks, fatalSeen>>

\* deneb_pause_resume_control_resume.
Resume ==
  /\ pc = "command" /\ Spend("command") /\ Goto("read")
  /\ ~Busy /\ state = "paused"
  /\ \/ /\ ~pausedValid
        /\ state' = IF heaterWait # {} THEN "preparing" ELSE "printing"
        /\ UNCHANGED <<resumeAt, targets>>
     \/ /\ pausedValid
        /\ resumeAt' = 1
        /\ targets' = HeatAfter(targets, IF pausedNozzle THEN "headOn" ELSE "headOff")
        /\ state' = IF pausedNozzle THEN "preparing" ELSE "printing"
  /\ UNCHANGED <<fault, error, warm, heaterWait, jobVars, abortAt, finishAt, pauseAt,
                 pauseVars, queueVars, linkVars, ticks, fatalSeen>>

\* The targets after all lines of q: apply_queued_heater_targets.
TargetsAfterAll(q) ==
  {x \in Heater :
     \/ x \in targets /\ \A k \in DOMAIN q : q[k].cmd # TurnsOff[x]
     \/ \E k \in DOMAIN q :
          /\ q[k].cmd = TurnsOn[x]
          /\ \A j \in DOMAIN q : j > k => q[j].cmd # TurnsOff[x]}

\* deneb_gcode_control_run up to its call of deneb_gcode_control_poll.
RunGcode(q) ==
  /\ pc = "command" /\ Spend("command") /\ Goto("gcode")
  /\ ~queueActive
  /\ queueActive' = TRUE /\ queue' = q
  /\ targets' = TargetsAfterAll(q)
  /\ state' = RefreshedState(TargetsAfterAll(q), FALSE)
  /\ UNCHANGED <<fault, error, warm, heaterWait, jobVars, policyVars, pauseVars,
                 macro, linkVars, ticks, fatalSeen>>

\* deneb_macro_control_run opens the macro, or does not find it.
RunMacro(lines) ==
  /\ pc = "command" /\ Spend("command") /\ Goto("macro")
  /\ macro' = [lines |-> lines, at |-> "line", failed |-> "no"]
  /\ UNCHANGED <<statusVars, jobVars, policyVars, pauseVars, queueActive, queue,
                 linkVars, ticks, fatalSeen>>

RejectMacro ==
  /\ pc = "command" /\ Spend("command") /\ Goto("read")
  /\ error' = "command"
  /\ UNCHANGED <<state, fault, targets, warm, heaterWait, jobVars, policyVars,
                 pauseVars, queueVars, linkVars, ticks, fatalSeen>>

ClientCommand ==
  \/ \E t \in JobTargets : AcceptJob(t)
  \/ RejectJobFile
  \/ Abort \/ Pause \/ Resume
  \/ \E q \in ManualGcode : RunGcode(q)
  \/ \E lines \in MacroFile : RunMacro(lines)
  \/ RejectMacro

----------------------------------------------------------------------------
(* Reading the serial line: deneb_motion_runtime_poll, a line at a time.    *)

\* deneb_motion_observer_handle_line once the parser has set s, t and w: an
\* unfinished heater wait overrules the state the parser chose.
Observe(s, t, w) ==
  /\ warm' = w
  /\ \/ /\ heaterWait \subseteq w
        /\ heaterWait' = {} /\ state' = s /\ targets' = t
     \/ /\ ~(heaterWait \subseteq w)
        /\ state' = "preparing" /\ targets' = t \cup heaterWait
        /\ UNCHANGED heaterWait

\* The controller executed c and its report and acknowledgement are read.
Executed(c) ==
  /\ heating' = HeatAfter(heating, c)
  /\ positionIsFresh' = (c = "position" \/ (positionIsFresh /\ ~IsMove(c)))
  /\ positionKnown' = (positionKnown \/ c = "position")
  /\ reportSince' = (reportSince \/ (c = "position" /\ probe # "none"))
  /\ \/ c = "temperature" /\ \E w \in SUBSET Heater : Observe(state, heating, w)
     \/ c # "temperature" /\ Observe(state, targets, warm)
  /\ UNCHANGED <<pc, fault, error, jobVars, policyVars, probe, pausedValid,
                 pausedNozzle, resumeSetpoint, queueVars, ticks, fatalSeen, budget>>

\* The controller takes packets in the order of their numbers: it executes none
\* beyond one that is missing.
ReadResponse ==
  /\ pc = "read" /\ 1 \notin unsent
  /\ unsent' = {k - 1 : k \in unsent} /\ handlingResend' = FALSE
  /\ \/ /\ stale # <<>> /\ Executed(Head(stale))
        /\ stale' = Tail(stale) /\ UNCHANGED wire
     \/ /\ stale = <<>> /\ wire # <<>> /\ Executed(Head(wire))
        /\ wire' = Tail(wire) /\ UNCHANGED stale

\* deneb_print_service_poll_motion returns its first error, a bad response or a
\* failed write; only a macro looks at it.
PollFails(how) ==
  macro' = IF macro = NoMacro \/ macro.failed # "no" THEN macro
           ELSE [macro EXCEPT !.failed = how]

\* motion_runtime's answer to a bad line during an active print; status.fault is
\* not set.
SerialError ==
  state' = "error" /\ error' = "serial" /\ Goto("faults") /\ PollFails("response")

\* A line with "Error:", "!!" or "Fault".  handle_response takes one with "Error"
\* for a protocol error, which matters when a heater wait made the state active.
ReadFault(code, saysError) ==
  /\ pc = "read" /\ Spend("fault")
  /\ fault' = TRUE
  /\ fatalSeen' = IF code = "fatal" /\ jobActive
                  THEN IF HeaterReady THEN "settled" ELSE "heating"
                  ELSE fatalSeen
  /\ \/ /\ HeaterReady
        /\ Observe("error", targets, warm) /\ error' = code /\ UNCHANGED <<pc, macro>>
     \/ /\ ~HeaterReady /\ ~saysError
        /\ Observe("error", targets, warm) /\ error' = code /\ UNCHANGED <<pc, macro>>
     \/ /\ ~HeaterReady /\ saysError
        /\ SerialError
        /\ targets' = targets \cup heaterWait
        /\ UNCHANGED <<warm, heaterWait>>
  /\ UNCHANGED <<jobVars, policyVars, pauseVars, queueActive, queue, linkVars, ticks>>

\* Mutant: an error that is already reported is overwritten.
SerialErrorAlways ==
  /\ heaterWait' = IF HeaterReady THEN {} ELSE heaterWait
  /\ targets' = IF HeaterReady THEN targets ELSE targets \cup heaterWait
  /\ SerialError

\* A line the parser ignores and the flow control objects to.  An unfinished
\* heater wait has just made the state active.
SerialErrorIfActive ==
  /\ heaterWait' = IF HeaterReady THEN {} ELSE heaterWait
  /\ targets' = IF HeaterReady THEN targets ELSE targets \cup heaterWait
  /\ IF ~HeaterReady \/ state \in ActiveState
     THEN SerialError
     ELSE UNCHANGED <<pc, state, error, macro>>

\* A response with a wrong check sum, or a reject beyond the resend limit:
\* deneb_flow_handle_response answers -1.
ReadGarbled ==
  /\ pc = "read" /\ Spend("garble")
  /\ SerialErrorIfActive
  /\ UNCHANGED <<fault, warm, jobVars, policyVars, pauseVars, queueActive, queue,
                 linkVars, ticks, fatalSeen>>

\* A ProtoError line: the flow is resynchronised and what was in flight is lost.
\* A job, cleanup or queue goes on (allow_sequence_resync), any other active
\* state ends in an error.
ReadProtoError ==
  /\ pc = "read" /\ Spend("resync")
  /\ wire' = <<>> /\ stale' = <<>> /\ unsent' = {} /\ handlingResend' = FALSE
  /\ \/ /\ jobActive \/ queueActive \/ abortAt # 0 \/ finishAt # 0
        /\ Observe(state, targets, warm)
        /\ UNCHANGED <<pc, error, macro>>
     \/ /\ ~(jobActive \/ queueActive \/ abortAt # 0 \/ finishAt # 0)
        /\ SerialErrorIfActive /\ UNCHANGED warm
  /\ UNCHANGED <<fault, jobVars, policyVars, pauseVars, queueActive, queue, heating,
                 positionIsFresh, ticks, fatalSeen>>

\* The controller got a packet behind a missing one and rejects it with the number
\* it misses.  deneb_motion_sender_resend_pending then writes all that is in flight
\* again, unless one of its writes fails too.  Nothing happens when the missing
\* packet's slot was cleared (deneb_flow_handle_response finds none), when a reject
\* is being handled already, or when nothing was sent after it: there is no timer.
ReadReject ==
  /\ pc = "read" /\ stale = <<>> /\ ~handlingResend
  /\ 1 \in unsent /\ \E k \in DOMAIN wire : k \notin unsent
  /\ handlingResend' = TRUE
  /\ \/ /\ unsent' = {}
        /\ Observe(state, targets, warm) /\ UNCHANGED <<pc, error, macro, budget>>
     \/ /\ \E k \in DOMAIN wire : unsent' = k .. Len(wire)
        /\ Spend("unsent") /\ SerialErrorIfActive /\ UNCHANGED warm
  /\ UNCHANGED <<fault, jobVars, policyVars, pauseVars, queueActive, queue, wire, stale,
                 heating, positionIsFresh, ticks, fatalSeen>>

\* No further line is waiting.
ReadDone ==
  /\ pc = "read" /\ Goto("faults")
  /\ UNCHANGED <<statusVars, jobVars, policyVars, pauseVars, queueVars, linkVars,
                 ticks, fatalSeen, budget>>

\* deneb_print_service_poll_motion: a fatal fault aborts the job.
CheckFaults ==
  /\ pc = "faults" /\ Goto("pause")
  /\ LET autoAbort == /\ jobActive /\ state = "error" /\ fault
                      /\ error \in {"fatal", "storage"}
     IN \/ autoAbort /\ StartAbort
        \/ /\ ~autoAbort
           /\ UNCHANGED <<statusVars, jobVars, policyVars, pauseVars, queueVars,
                          linkVars>>
  /\ UNCHANGED <<ticks, fatalSeen, budget>>

----------------------------------------------------------------------------
(* Command lists.  A list is sent through the gate and is over when its     *)
(* last command is sent and nothing is in flight.                           *)

\* Mutant: the flow is not drained; the last index is off by one.
DrainedOnceSent(policy, at) == at > Len(policy)
DrainedLate(policy, at)     == at > Len(policy) + 1 /\ wire = <<>>

MoreToSend(policy, at) == at <= Len(policy) /\ GateOpen(StreamWindow)
Drained(policy, at)    == at > Len(policy) /\ wire = <<>>
Blocked(policy, at)    == ~MoreToSend(policy, at) /\ ~Drained(policy, at)

\* Mutant: a report is an answer although commands are in flight.
AnyReportAnswers == reportSince

\* The probe is answered when a report came in after the pause and the flow is
\* drained.
ProbeAnswered == wire = <<>> /\ reportSince

\* poll_pause_position_probe.
PollProbe ==
  /\ pc = "pause" /\ probe # "none" /\ Goto("abort")
  /\ \/ /\ probe = "wanted" /\ ~GateOpen(StreamWindow)
        /\ UNCHANGED <<statusVars, pauseVars, pauseAt, linkVars, budget>>
     \/ /\ probe = "wanted" /\ GateOpen(StreamWindow)
        /\ SendOk("position") /\ probe' = "sent"
        /\ UNCHANGED <<statusVars, reportSince, positionKnown, pausedValid,
                       pausedNozzle, resumeSetpoint, pauseAt>>
     \/ /\ probe = "wanted" /\ GateOpen(StreamWindow)
        /\ SendFails("position") /\ probe' = "none" /\ LifecycleError("serial")
        /\ UNCHANGED <<targets, warm, heaterWait, reportSince, positionKnown,
                       pausedValid, pausedNozzle, resumeSetpoint, pauseAt>>
     \/ /\ probe = "sent" /\ ~ProbeAnswered
        /\ UNCHANGED <<statusVars, pauseVars, pauseAt, linkVars, budget>>
     \/ /\ probe = "sent" /\ ProbeAnswered
        /\ probe' = "none" /\ reportSince' = FALSE
        /\ SavePauseState
        /\ pauseAt' = 1
        /\ UNCHANGED <<statusVars, positionKnown, linkVars, budget>>
  /\ UNCHANGED <<jobVars, abortAt, finishAt, resumeAt, queueVars, ticks, fatalSeen>>

\* poll_policy on the pause policy.
PollPausePolicy ==
  /\ pc = "pause" /\ probe = "none" /\ pauseAt # 0
  /\ \/ /\ Blocked(PausePolicy, pauseAt) /\ Goto("abort")
        /\ UNCHANGED <<state, fault, error, pauseAt, linkVars, budget>>
     \/ /\ MoreToSend(PausePolicy, pauseAt)
        /\ SendOk(PausePolicy[pauseAt]) /\ pauseAt' = pauseAt + 1
        /\ UNCHANGED <<pc, state, fault, error>>
     \/ /\ MoreToSend(PausePolicy, pauseAt)
        /\ SendFails(PausePolicy[pauseAt]) /\ pauseAt' = 0
        /\ LifecycleError("serial") /\ Goto("abort")
     \/ /\ Drained(PausePolicy, pauseAt) /\ Goto("abort")
        /\ pauseAt' = 0
        /\ state' = IF state \in {"preparing", "printing", "pausing"}
                    THEN "paused" ELSE state
        /\ UNCHANGED <<fault, error, linkVars, budget>>
  /\ UNCHANGED <<targets, warm, heaterWait, jobVars, abortAt, finishAt, resumeAt,
                 pauseVars, queueVars, ticks, fatalSeen>>

\* send_resume_heat_command: the nozzle's M104, then a host-side wait.
PollResumeHeat ==
  /\ pc = "pause" /\ probe = "none" /\ pauseAt = 0
  /\ resumeAt = 1 /\ heaterWait = {} /\ pausedNozzle
  /\ \/ /\ ~GateOpen(StreamWindow) /\ Goto("abort")
        /\ UNCHANGED <<statusVars, resumeAt, linkVars, budget>>
     \/ /\ GateOpen(StreamWindow)
        /\ SendOk("headOn") /\ resumeAt' = 2
        /\ heaterWait' = {"head"} /\ ApplyHeaterWait({"head"})
        /\ UNCHANGED <<pc, fault, error, warm>>
     \/ /\ GateOpen(StreamWindow)
        /\ SendFails("headOn") /\ resumeAt' = 0
        /\ LifecycleError("serial") /\ Goto("abort")
        /\ UNCHANGED <<targets, warm, heaterWait>>
  /\ UNCHANGED <<jobVars, abortAt, finishAt, pauseAt, pauseVars, queueVars, ticks,
                 fatalSeen>>

\* The rest of deneb_pause_resume_control_poll before the resume policy.
PollResumeWait ==
  /\ pc = "pause" /\ probe = "none" /\ pauseAt = 0
  /\ \/ /\ resumeAt = 0 /\ Goto("abort") /\ UNCHANGED statusVars
     \/ /\ resumeAt # 0 /\ heaterWait # {} /\ ~HeaterReady
        /\ ApplyHeaterWait(heaterWait) /\ Goto("abort")
        /\ UNCHANGED <<fault, error, warm, heaterWait>>
     \/ /\ resumeAt # 0 /\ HeaterReady
        /\ heaterWait # {} \/ resumeAt # 1 \/ ~pausedNozzle
        /\ heaterWait' = {} /\ Goto("resume")
        /\ UNCHANGED <<state, fault, error, targets, warm>>
  /\ UNCHANGED <<jobVars, policyVars, pauseVars, queueVars, linkVars, ticks,
                 fatalSeen, budget>>

\* poll_policy on the resume policy; at its end the job streams again.
PollResumePolicy ==
  LET policy == ResumePolicy(pausedNozzle) IN
  /\ pc = "resume"
  /\ \/ /\ Blocked(policy, resumeAt) /\ Goto("abort")
        /\ UNCHANGED <<state, fault, error, resumeAt, pausedValid, linkVars, budget>>
     \/ /\ MoreToSend(policy, resumeAt)
        /\ SendOk(policy[resumeAt]) /\ resumeAt' = resumeAt + 1
        /\ UNCHANGED <<pc, state, fault, error, pausedValid>>
     \/ /\ MoreToSend(policy, resumeAt)
        /\ SendFails(policy[resumeAt]) /\ resumeAt' = 0
        /\ LifecycleError("serial") /\ Goto("abort")
        /\ UNCHANGED pausedValid
     \/ /\ Drained(policy, resumeAt) /\ Goto("abort")
        /\ resumeAt' = 0 /\ pausedValid' = FALSE /\ state' = "printing"
        /\ UNCHANGED <<fault, error, linkVars, budget>>
  /\ UNCHANGED <<targets, warm, heaterWait, jobVars, abortAt, finishAt, pauseAt,
                 probe, reportSince, positionKnown, pausedNozzle, resumeSetpoint,
                 queueVars, ticks, fatalSeen>>

\* deneb_job_control_poll_abort_cleanup, with deneb_job_lifecycle_abort.
PollAbortCleanup ==
  /\ pc = "abort"
  /\ \/ /\ abortAt = 0 \/ Blocked(AbortPolicy, abortAt)
        /\ Goto("finish")
        /\ UNCHANGED <<statusVars, abortAt, resumeSetpoint, linkVars, budget>>
     \/ /\ abortAt # 0 /\ MoreToSend(AbortPolicy, abortAt)
        /\ SendOk(AbortPolicy[abortAt]) /\ abortAt' = abortAt + 1
        /\ UNCHANGED <<pc, statusVars, resumeSetpoint>>
     \/ /\ abortAt # 0 /\ MoreToSend(AbortPolicy, abortAt)
        /\ SendFails(AbortPolicy[abortAt]) /\ abortAt' = 0 /\ heaterWait' = {}
        /\ LifecycleError("serial") /\ Goto("finish")
        /\ UNCHANGED <<targets, warm, resumeSetpoint>>
     \/ /\ abortAt # 0 /\ Drained(AbortPolicy, abortAt) /\ Goto("finish")
        /\ abortAt' = 0 /\ heaterWait' = {} /\ ClearInflight
        /\ state' = "idle" /\ fault' = FALSE /\ error' = "none" /\ targets' = {}
        /\ resumeSetpoint' = FALSE
        /\ UNCHANGED <<warm, budget>>
  /\ UNCHANGED <<jobVars, finishAt, pauseAt, resumeAt, probe, reportSince,
                 positionKnown, pausedValid, pausedNozzle, queueVars, ticks, fatalSeen>>

\* deneb_job_control_poll_finish_cleanup, with deneb_job_lifecycle_complete.
PollFinishCleanup ==
  /\ pc = "finish"
  /\ \/ /\ finishAt = 0 \/ Blocked(FinishPolicy, finishAt)
        /\ Goto("refresh")
        /\ UNCHANGED <<statusVars, jobActive, finishAt, resumeSetpoint, linkVars,
                       budget>>
     \/ /\ finishAt # 0 /\ MoreToSend(FinishPolicy, finishAt)
        /\ SendOk(FinishPolicy[finishAt]) /\ finishAt' = finishAt + 1
        /\ UNCHANGED <<pc, statusVars, jobActive, resumeSetpoint>>
     \/ /\ finishAt # 0 /\ MoreToSend(FinishPolicy, finishAt)
        /\ SendFails(FinishPolicy[finishAt]) /\ finishAt' = 0 /\ heaterWait' = {}
        /\ LifecycleError("serial") /\ Goto("refresh")
        /\ UNCHANGED <<targets, warm, jobActive, resumeSetpoint>>
     \/ /\ finishAt # 0 /\ Drained(FinishPolicy, finishAt) /\ Goto("refresh")
        /\ finishAt' = 0 /\ heaterWait' = {} /\ ClearInflight
        /\ state' = "complete" /\ targets' = {}
        /\ jobActive' = FALSE /\ resumeSetpoint' = FALSE
        /\ UNCHANGED <<fault, error, warm, budget>>
  /\ UNCHANGED <<prepare, prepIndex, streamOpen, linesLeft, abortAt,
                 pauseAt, resumeAt, probe, reportSince, positionKnown, pausedValid,
                 pausedNozzle, queueVars, ticks, fatalSeen>>

RefreshStatus ==
  /\ pc = "refresh" /\ Goto("status")
  /\ state' = RefreshedState(targets, queueActive)
  /\ fatalSeen' = "no"
  /\ UNCHANGED <<fault, error, targets, warm, heaterWait, jobVars, policyVars,
                 pauseVars, queueVars, linkVars, ticks, budget>>

\* Mutant: the position is not asked for.
PollTemperatureOnly == <<"temperature">>

\* What the recurring poll asks for: M105 and M114.
StatusPoll == <<"temperature", "position">>

\* send_status_probe, with an empty window.  A failing write ends it with the packet
\* in its slot; it fails the poll when no line was read in this one.
SendStatusProbe ==
  /\ \/ wire' = StatusPoll /\ UNCHANGED <<unsent, macro, budget>>
     \/ \E sent \in {<<Head(StatusPoll)>>, StatusPoll} :
          /\ wire' = sent
          /\ unsent' = unsent \cup {Len(stale) + Len(sent)} /\ Spend("unsent")
          /\ PollFails("write") \/ UNCHANGED macro
  /\ UNCHANGED <<stale, handlingResend, heating, positionIsFresh>>

\* Where the poll returns to: the macro that made it, or the loop.
AfterPoll == IF macro = NoMacro THEN "job" ELSE "macro"

\* Mutant: the counter is not reset.
PollStatusNoReset ==
  /\ pc = "status" /\ Goto(AfterPoll)
  /\ ticks' = IF wire = <<>> THEN ticks + 1 ELSE ticks
  /\ IF wire = <<>> /\ ticks + 1 >= PollTicks
     THEN SendStatusProbe ELSE UNCHANGED <<macro, linkVars, budget>>
  /\ UNCHANGED <<statusVars, jobVars, policyVars, pauseVars, queueActive, queue,
                 fatalSeen>>

\* The recurring M105 and M114.  (The M115 probes of the first turns have the
\* same shape and no effect on this state.)
PollStatus ==
  /\ pc = "status" /\ Goto(AfterPoll)
  /\ \/ /\ wire # <<>>
        /\ UNCHANGED <<ticks, macro, linkVars, budget>>
     \/ /\ wire = <<>> /\ ticks + 1 < PollTicks
        /\ ticks' = ticks + 1 /\ UNCHANGED <<macro, linkVars, budget>>
     \/ /\ wire = <<>> /\ ticks + 1 >= PollTicks
        /\ ticks' = 0 /\ SendStatusProbe
  /\ UNCHANGED <<statusVars, jobVars, policyVars, pauseVars, queueActive, queue,
                 fatalSeen>>

----------------------------------------------------------------------------
(* The macro runner.  Every line waits for the window, is sent, waits for   *)
(* the heater it names, and is followed by a poll.  abort_requested, which  *)
(* it looks at too, is never set.                                           *)

\* macro_control_wait_for_stream_window does not look for barriers.
WindowOpen == Len(wire) < StreamWindow

MacroTurn(at) == pc = "macro" /\ macro.at \in at /\ macro.failed = "no"

\* It waits and polls.
MacroWaits ==
  /\ Goto("read")
  /\ \/ /\ MacroTurn({"line", "window"}) /\ ~WindowOpen
        /\ macro' = [macro EXCEPT !.at = "window"]
        /\ UNCHANGED <<state, targets>>
     \/ /\ MacroTurn({"heat", "heating"}) /\ ~HeaterReady
        /\ macro' = [macro EXCEPT !.at = "heating"]
        /\ ApplyHeaterWait(heaterWait)
  /\ UNCHANGED <<fault, error, warm, heaterWait, jobVars, policyVars, pauseVars,
                 queueActive, queue, linkVars, ticks, fatalSeen, budget>>

MacroSends ==
  /\ MacroTurn({"line", "window"}) /\ WindowOpen /\ macro.lines # <<>>
  /\ LET l == Head(macro.lines) IN
     \/ /\ SendOk(l.cmd) /\ UNCHANGED error
        /\ \/ /\ l.wait = {} /\ Goto("read")
              /\ macro' = [macro EXCEPT !.lines = Tail(@), !.at = "line"]
              /\ UNCHANGED <<targets, heaterWait>>
           \/ /\ l.wait # {} /\ UNCHANGED pc
              /\ macro' = [macro EXCEPT !.lines = Tail(@), !.at = "heat"]
              /\ targets' = targets \cup l.wait /\ heaterWait' = l.wait
     \/ /\ SendFails(l.cmd) /\ Goto("read")
        /\ macro' = NoMacro /\ error' = "serial"
        /\ UNCHANGED <<targets, heaterWait>>
  /\ UNCHANGED <<state, fault, warm, jobVars, policyVars, pauseVars, queueActive,
                 queue, ticks, fatalSeen>>

\* The heater of the last line is warm.
MacroHeated ==
  /\ MacroTurn({"heat", "heating"}) /\ HeaterReady /\ Goto("read")
  /\ heaterWait' = {} /\ macro' = [macro EXCEPT !.at = "line"]
  /\ UNCHANGED <<state, fault, error, targets, warm, jobVars, policyVars, pauseVars,
                 queueActive, queue, linkVars, ticks, fatalSeen, budget>>

\* After the last line there must be room in the window, which need not be empty.
MacroEnds ==
  /\ MacroTurn({"line", "window"}) /\ WindowOpen /\ macro.lines = <<>> /\ Goto("read")
  /\ macro' = NoMacro
  /\ UNCHANGED <<statusVars, jobVars, policyVars, pauseVars, queueActive, queue,
                 linkVars, ticks, fatalSeen, budget>>

\* A poll failed, or a wait that has polled has taken too long; a heater wait
\* goes on.
MacroGivesUp ==
  /\ pc = "macro" /\ Goto("read") /\ macro' = NoMacro
  /\ \/ /\ macro.failed # "no"
        /\ error' = IF error = "serial" \/ (macro.failed = "write" /\ macro.at # "window")
                    THEN "serial" ELSE "command"
     \/ MacroTurn({"window", "heating"}) /\ error' = "command"
  /\ UNCHANGED <<state, fault, targets, warm, heaterWait, jobVars, policyVars, pauseVars,
                 queueActive, queue, linkVars, ticks, fatalSeen, budget>>

----------------------------------------------------------------------------
(* deneb_print_service_poll_job: repeated while it makes progress.          *)

JobBusy ==
  /\ pc = "job" /\ Busy /\ Goto("command")
  /\ UNCHANGED <<statusVars, jobVars, policyVars, pauseVars, queueVars, linkVars,
                 ticks, fatalSeen, budget>>

\* deneb_gcode_control_poll, called by the GCODE command and by poll_job.
GcodeTurn == pc = "gcode" \/ (pc = "job" /\ ~Busy /\ queueActive)
GcodeReturn == Goto(IF pc = "gcode" THEN "read" ELSE "command")

PollGcodeWait ==
  /\ GcodeTurn /\ heaterWait # {}
  /\ \/ /\ ~HeaterReady /\ ApplyHeaterWait(heaterWait) /\ GcodeReturn
        /\ UNCHANGED heaterWait
     \/ /\ HeaterReady /\ heaterWait' = {} /\ UNCHANGED <<pc, state, targets>>
  /\ UNCHANGED <<fault, error, warm, jobVars, policyVars, pauseVars, queueVars,
                 linkVars, ticks, fatalSeen, budget>>

PollGcodeSend ==
  /\ GcodeTurn /\ heaterWait = {} /\ queue # <<>>
  /\ \/ /\ ~GateOpen(StreamWindow) /\ GcodeReturn
        /\ UNCHANGED <<statusVars, queueVars, linkVars, budget>>
     \/ /\ GateOpen(StreamWindow)
        /\ SendOk(Head(queue).cmd)
        /\ queue' = Tail(queue)
        /\ heaterWait' = Head(queue).wait
        /\ targets' = HeatAfter(targets, Head(queue).cmd) \cup Head(queue).wait
        /\ state' = IF Head(queue).wait = {} THEN state ELSE "preparing"
        /\ IF Head(queue).wait = {} THEN UNCHANGED pc ELSE GcodeReturn
        /\ UNCHANGED <<fault, error, warm, queueActive>>
     \/ /\ GateOpen(StreamWindow)
        /\ SendFails(Head(queue).cmd) /\ GcodeReturn
        /\ queueActive' = FALSE /\ queue' = <<>>
        /\ error' = "serial"
        /\ UNCHANGED <<state, fault, targets, warm, heaterWait>>
  /\ UNCHANGED <<jobVars, policyVars, pauseVars, macro, ticks, fatalSeen>>

PollGcodeDone ==
  /\ GcodeTurn /\ heaterWait = {} /\ queue = <<>>
  /\ Goto(IF pc = "gcode" THEN "read" ELSE "job")
  /\ queueActive' = FALSE
  /\ state' = RefreshedState(targets, FALSE)
  /\ UNCHANGED <<fault, error, targets, warm, heaterWait, jobVars, policyVars,
                 pauseVars, queue, macro, linkVars, ticks, fatalSeen, budget>>

\* deneb_job_streamer_poll.
StreamerTurn == pc = "job" /\ ~Busy /\ ~queueActive

\* Without a job only the heater wait is switched off.
StreamNothing ==
  /\ StreamerTurn /\ ~jobActive /\ Goto("command")
  /\ heaterWait' = {}
  /\ UNCHANGED <<state, fault, error, targets, warm, jobVars, policyVars, pauseVars,
                 queueVars, linkVars, ticks, fatalSeen, budget>>

\* The job is dropped where it stands: the stream is closed, the flow forgets
\* what is in flight and no cleanup is sent.
DropJob ==
  /\ jobActive' = FALSE /\ streamOpen' = FALSE /\ linesLeft' = 0
  /\ finishAt' = 0 /\ heaterWait' = {}

\* The error state ends the job.
StreamAfterError ==
  /\ StreamerTurn /\ jobActive /\ state = "error" /\ Goto("command")
  /\ DropJob /\ ClearInflight /\ prepare' = "done" /\ prepIndex' = 0
  /\ UNCHANGED <<state, fault, error, targets, warm, abortAt, pauseAt, resumeAt,
                 pauseVars, queueVars, ticks, fatalSeen, budget>>

\* A paused job waits, and so does one whose finish cleanup is under way.
StreamHeld ==
  /\ StreamerTurn /\ jobActive /\ state # "error" /\ Goto("command")
  /\ \/ state \in {"paused", "pausing"} /\ UNCHANGED state
     \/ /\ state \notin {"paused", "pausing"} /\ finishAt # 0
        /\ state' = "printing"
  /\ UNCHANGED <<fault, error, targets, warm, heaterWait, jobVars, policyVars,
                 pauseVars, queueVars, linkVars, ticks, fatalSeen, budget>>

\* Mutant: a paused job is not held.
StreamingThroughPause ==
  /\ StreamerTurn /\ jobActive
  /\ state \notin {"error", "pausing"} /\ finishAt = 0

Streaming ==
  /\ StreamerTurn /\ jobActive
  /\ state \notin {"error", "paused", "pausing"} /\ finishAt = 0

\* poll_job_prepare's command lists: send_command_list with the stage that
\* follows.  It is called again when it sent anything.
PrepareSend ==
  /\ Streaming
  /\ \E list \in {[at |-> "home", cmds |-> HomeCommands, next |-> "homeDrain"],
                  [at |-> "startup", cmds |-> StartupCommands, next |-> "startupDrain"]} :
       /\ prepare = list.at
       /\ \/ /\ prepIndex = Len(list.cmds)
             /\ prepare' = list.next /\ prepIndex' = 0
             /\ UNCHANGED <<pc, state, fault, error, linkVars, budget>>
          \/ /\ prepIndex < Len(list.cmds) /\ ~GateOpen(StreamWindow)
             /\ Goto("command")
             /\ UNCHANGED <<state, fault, error, prepare, prepIndex, linkVars, budget>>
          \/ /\ prepIndex < Len(list.cmds) /\ GateOpen(StreamWindow)
             /\ SendOk(list.cmds[prepIndex + 1]) /\ prepIndex' = prepIndex + 1
             /\ UNCHANGED <<pc, state, fault, error, prepare>>
          \/ /\ prepIndex < Len(list.cmds) /\ GateOpen(StreamWindow)
             /\ SendFails(list.cmds[prepIndex + 1]) /\ LifecycleError("serial")
             /\ Goto("command") /\ UNCHANGED <<prepare, prepIndex>>
  /\ UNCHANGED <<targets, warm, heaterWait, jobActive, streamOpen, linesLeft,
                 policyVars, pauseVars, queueVars, ticks, fatalSeen>>

\* Its waits: for the list to drain, and for the heaters.
PrepareWait ==
  /\ Streaming /\ Goto("command")
  /\ \/ /\ prepare \in {"homeDrain", "startupDrain"}
        /\ prepare' = IF wire # <<>> THEN prepare
                      ELSE IF prepare = "homeDrain" THEN "heat" ELSE "done"
        /\ UNCHANGED <<state, targets, heaterWait>>
     \/ /\ prepare = "heat" /\ HeaterReady
        /\ heaterWait' = {} /\ prepare' = "startup"
        /\ UNCHANGED <<state, targets>>
     \/ /\ prepare = "heat" /\ ~HeaterReady
        /\ ApplyHeaterWait(heaterWait)
        /\ UNCHANGED <<prepare, heaterWait>>
  /\ UNCHANGED <<fault, error, warm, jobActive, prepIndex, streamOpen, linesLeft,
                 policyVars, pauseVars, queueVars, linkVars, ticks, fatalSeen, budget>>

\* The body waits for a heater or for the window of one.
BodyWait ==
  /\ Streaming /\ prepare = "done" /\ Goto("command")
  /\ \/ /\ ~HeaterReady /\ ApplyHeaterWait(heaterWait) /\ UNCHANGED heaterWait
     \/ /\ HeaterReady /\ ~GateOpen(1)
        /\ heaterWait' = {} /\ UNCHANGED <<state, targets>>
  /\ UNCHANGED <<fault, error, warm, jobVars, policyVars, pauseVars, queueVars,
                 linkVars, ticks, fatalSeen, budget>>

ReadyForLine == Streaming /\ prepare = "done" /\ HeaterReady /\ GateOpen(1)

\* A line of the file; M109 and M190 start a host-side wait.
BodyLineSent(l) ==
  /\ ReadyForLine /\ streamOpen /\ linesLeft > 0
  /\ SendOk(l.cmd)
  /\ linesLeft' = linesLeft - 1
  /\ heaterWait' = l.wait
  /\ state' = IF l.wait = {} THEN "printing" ELSE "preparing"
  /\ targets' = targets \cup l.wait
  /\ resumeSetpoint' = (resumeSetpoint \/ "head" \in l.wait)
  /\ UNCHANGED <<pc, fault, error, warm, jobActive, prepare, prepIndex, streamOpen,
                 policyVars, probe, reportSince, positionKnown, pausedValid,
                 pausedNozzle, queueVars, ticks, fatalSeen>>

\* The write of a line fails: the job is dropped and clear_inflight forgets the
\* number of the packet, which the controller goes on asking for.
BodyLineFails(l) ==
  /\ ReadyForLine /\ streamOpen /\ linesLeft > 0 /\ Goto("command")
  /\ Spend("unsent") /\ unsent' = unsent \cup {NextPlace}
  /\ stale' = stale \o Append(wire, l.cmd) /\ wire' = <<>>
  /\ DropJob /\ LifecycleError("serial")
  /\ UNCHANGED <<targets, warm, prepare, prepIndex, abortAt, pauseAt, resumeAt,
                 pauseVars, queueVars, handlingResend, heating, positionIsFresh, ticks,
                 fatalSeen>>

\* The end of the file, which may come after any line, or a read error:
\* stream_read_line's -1 ends the loop of deneb_gcode_stream_next as its 0 does.
EndOfFile ==
  /\ ReadyForLine /\ streamOpen
  /\ streamOpen' = FALSE /\ linesLeft' = 0 /\ heaterWait' = {}
  /\ finishAt' = 1 /\ state' = "printing"
  /\ UNCHANGED <<pc, fault, error, targets, warm, jobActive, prepare, prepIndex,
                 abortAt, pauseAt, resumeAt, pauseVars, queueVars, linkVars, ticks,
                 fatalSeen, budget>>

\* A stream closed by an earlier finish cannot be read.
ReadClosedStream ==
  /\ ReadyForLine /\ ~streamOpen /\ Goto("command")
  /\ DropJob /\ ClearInflight /\ LifecycleError("storage")
  /\ UNCHANGED <<targets, warm, prepare, prepIndex, abortAt, pauseAt, resumeAt,
                 pauseVars, queueVars, ticks, fatalSeen, budget>>

----------------------------------------------------------------------------
ReadLine ==
  \/ ReadResponse
  \/ \E code \in FaultCode, saysError \in BOOLEAN : ReadFault(code, saysError)
  \/ ReadGarbled \/ ReadProtoError \/ ReadReject \/ ReadDone

PollMotion ==
  \/ CheckFaults \/ PollProbe \/ PollPausePolicy
  \/ PollResumeHeat \/ PollResumeWait \/ PollResumePolicy
  \/ PollAbortCleanup \/ PollFinishCleanup \/ RefreshStatus \/ PollStatus

PollJob ==
  \/ JobBusy \/ PollGcodeWait \/ PollGcodeSend \/ PollGcodeDone
  \/ StreamNothing \/ StreamAfterError \/ StreamHeld
  \/ PrepareSend \/ PrepareWait \/ BodyWait
  \/ \E l \in BodyLine : BodyLineSent(l) \/ BodyLineFails(l)
  \/ EndOfFile \/ ReadClosedStream

RunsMacro == MacroWaits \/ MacroSends \/ MacroHeated \/ MacroEnds \/ MacroGivesUp

ServiceNext ==
  NoCommand \/ ClientCommand \/ ReadLine \/ PollMotion \/ PollJob \/ RunsMacro

ServiceSpec == ServiceInit /\ [][ServiceNext]_vars

\* The loop runs for ever, and the controller answers what it was sent, with an
\* acknowledgement or a reject, although it may take any number of turns.  Nothing is
\* assumed of a packet that was not written.
Answers == ReadResponse \/ ReadReject

FairServiceSpec ==
  /\ ServiceSpec
  /\ WF_vars(NoCommand \/ ReadDone \/ PollMotion \/ PollJob \/ RunsMacro \/ Answers)
  /\ SF_vars(Answers)

----------------------------------------------------------------------------
\* The Boolean members of the service context, and the histories.
FlagTypeOK ==
  /\ fault \in BOOLEAN /\ jobActive \in BOOLEAN /\ streamOpen \in BOOLEAN
  /\ reportSince \in BOOLEAN /\ positionKnown \in BOOLEAN
  /\ pausedValid \in BOOLEAN /\ pausedNozzle \in BOOLEAN /\ resumeSetpoint \in BOOLEAN
  /\ queueActive \in BOOLEAN /\ positionIsFresh \in BOOLEAN
  /\ handlingResend \in BOOLEAN

\* The members of deneb_status_t, and the heater wait.
StatusTypeOK ==
  /\ state \in PrintState
  /\ error \in {"none", "fatal", "command", "serial", "storage"}
  /\ targets \subseteq Heater /\ warm \subseteq Heater /\ heaterWait \subseteq Heater

\* The preparation stages and the reading of the file.
JobTypeOK ==
  /\ prepare \in {"done", "home", "homeDrain", "heat", "startup", "startupDrain"}
  /\ prepIndex \in 0 .. 2 /\ linesLeft \in 0 .. MaxLines

\* A policy index never runs past the end of its list.
PolicyTypeOK ==
  /\ abortAt \in 0 .. Len(AbortPolicy) + 1
  /\ finishAt \in 0 .. Len(FinishPolicy) + 1
  /\ pauseAt \in 0 .. Len(PausePolicy) + 1
  /\ resumeAt \in 0 .. Len(ResumePolicy(pausedNozzle)) + 1
  /\ probe \in {"none", "wanted", "sent"}

\* What is queued and in flight is commands of the service.
LineTypeOK ==
  /\ wire \in Seq(MotionCommand) /\ stale \in Seq(MotionCommand)
  /\ unsent \subseteq 1 .. Len(stale) + Len(wire)
  /\ heating \subseteq Heater /\ queue \in Seq(Line)

\* Where the loop is, and the poll counter, which stays below its limit.
TurnTypeOK ==
  /\ pc \in {"command", "gcode", "macro", "read", "faults", "pause", "resume", "abort",
             "finish", "refresh", "status", "job"}
  /\ ticks \in 0 .. PollTicks - 1
  /\ fatalSeen \in {"no", "settled", "heating"}

\* The running macro.
MacroTypeOK ==
  macro \in [lines : Seq(Line), failed : {"no", "response", "write"},
             at : {"none", "line", "window", "heat", "heating"}]

LoopTypeOK ==
  /\ FlagTypeOK /\ StatusTypeOK /\ JobTypeOK /\ PolicyTypeOK
  /\ LineTypeOK /\ TurnTypeOK

\* The state of the service is well formed.
ServiceTypeOK == LoopTypeOK /\ MacroTypeOK

\* The loop never works for two lifecycles at once: an abort has ended the job
\* and its finish, a finish belongs to the job, and of the position probe, the
\* pause policy and the resume policy one at most is pending.
OneLifecycle ==
  /\ abortAt # 0 => ~jobActive /\ finishAt = 0
  /\ finishAt # 0 => jobActive
  /\ jobActive /\ prepare # "done" => streamOpen
  /\ probe # "none" => pauseAt = 0 /\ resumeAt = 0
  /\ pauseAt # 0 => resumeAt = 0

\* The inductive strengthening: the resume policy is only polled while pending.
ServiceIInv ==
  LoopTypeOK /\ OneLifecycle /\ (pc = "resume" => resumeAt # 0)

\* When the abort cleanup is over the machine is cold and has nothing left to do.
AbortEndsCold ==
  [][abortAt # 0 /\ abortAt' = 0 /\ state' = "idle"
       => heating = {} /\ wire = <<>> /\ stale = <<>>]_vars

\* The position a pause saves for a job that has not failed was reported after the
\* last move was executed.
PausePositionFresh ==
  [][pauseAt = 0 /\ pauseAt' = 1 /\ finishAt = 0 /\ state # "error"
       => positionIsFresh]_vars

\* When a job is published as paused and its parking is over, nothing on the
\* line moves the head: software never says paused while the machine moves.
PausedIsStill ==
  state = "paused" /\ jobActive /\ finishAt = 0 /\ ~Busy /\ ~queueActive
    => \A k \in DOMAIN wire : ~IsMove(wire[k])

\* A fatal line read while a job is active and no heater is awaited ends the job
\* in the same turn of the loop, before anything else is sent for it.
FatalFaultAborts ==
  pc = "pause" /\ fatalSeen = "settled" => abortAt = 1 /\ ~jobActive

\* ... and whatever the host is waiting for.
AnyFatalFaultAborts ==
  pc = "pause" /\ fatalSeen # "no" => abortAt = 1 /\ ~jobActive

\* The wait for the nozzle that a resume starts is ended only by a report that shows
\* the nozzle at its target, whatever clients, macros and faults do meanwhile.
ResumeWaitsForHeat ==
  [][resumeAt > 1 /\ resumeAt' # 0 /\ pausedNozzle /\ finishAt = 0 /\ abortAt = 0
       /\ heaterWait # {} /\ heaterWait' = {}
       => "head" \in warm']_vars

\* The head is never moved back to a print whose nozzle has no target to reheat to.
ResumeFailsClosed ==
  [][pc = "resume" /\ jobActive /\ wire' = Append(wire, "move") => pausedNozzle]_vars

\* Every packet the controller waits for was written.  Nothing in the code notices
\* one that was not, unless a later packet is rejected while its slot is still there.
LineIntact == unsent = {}

\* An abort cleanup ends, unless a packet stays missing: job_control.c waits for an
\* empty window, and an abort behind a cleared packet is never answered.
AbortCompletes == []<>(abortAt = 0 \/ ~LineIntact)

\* A pause reaches its parked position or is given up, unless a packet stays
\* missing, which the probe and its policy wait for.
PauseSettles == []<>((probe = "none" /\ pauseAt = 0) \/ ~LineIntact)

\* A job ends unless it is paused, waits for a heater or a packet stays missing, be
\* it only a status probe.
JobProgresses ==
  []<>(~jobActive \/ state = "paused" \/ heaterWait # {} \/ ~LineIntact)

\* What the clients are promised: the service moves through the lifecycle of
\* PrintLifecycle, whatever the interleaving of commands, answers and faults.
Lifecycle == INSTANCE PrintLifecycle WITH
  life <- (IF abortAt # 0 THEN "aborting" ELSE IF finishAt # 0 THEN "finishing"
           ELSE IF jobActive THEN "printing" ELSE "none"),
  shown <- state

\* Every step of the service is a step of the promised lifecycle or leaves it
\* alone: a job ends with its finish cleanup, with an abort cleanup that ran to
\* its end or in the error state, and the shown state follows.
ImplementsLifecycle == Lifecycle!LifecycleSpec
=============================================================================
