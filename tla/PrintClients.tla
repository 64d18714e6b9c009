---------------------------- MODULE PrintClients ----------------------------
(***************************************************************************)
(* The two clients of deneb-printsvc, deneb-api (web) and the touch screen *)
(* (ui), around the service PrintLifecycle specifies.  They share the      *)
(* record of the uploaded job, /tmp/deneb-cluster-print-job.json, and the  *)
(* spool directory; each keeps its own copy of the last status message.    *)
(*                                                                         *)
(* Messages are conflated: a client sees the newest one or none.  The web  *)
(* service's may be older than its last command, so it has a slot of its   *)
(* own; the screen's is read from the service.  A command is answered in   *)
(* time, or after the client's 1 s timeout, when it is still carried out.  *)
(* Clients never look at what the answer says.  Each process can stop and  *)
(* be started again by procd between any two steps.                        *)
(***************************************************************************)
EXTENDS ClientRules, PrintLifecycle, Integers, Sequences

CONSTANTS
  Conflicting,  \* uploads whose material or nozzle is not the one loaded
  UsbJob,       \* files the touch screen can start from a USB stick
  MaxActions,   \* bound on what users do
  MaxFaults     \* bound on stops of a process and commands answered too late

ASSUME ClientsAssumption ==
  /\ NoJob \notin Job
  /\ Conflicting \subseteq Job /\ UsbJob \subseteq Job
  /\ MaxActions \in Nat /\ MaxFaults \in Nat

VARIABLES
  job,        \* status.file: the job of the service
  times,      \* "none", "running" or "over": status.time_total and time_left
  hot,        \* a heater target is set
  faulted,    \* the message carries an error
  late,       \* commands still to be carried out
  slot,       \* the message on the web service's status socket, or <<>>
  st,         \* st[c]: printer_state_t of client c
  known,      \* known[c]: had_previous_status
  retained,   \* retained[c]: retained_print_filename
  guard,      \* guard[c]: stop_guard
  record,     \* the pending-job file: NoRecord, Torn or [job, conflict]
  spool,      \* uploaded files on disk
  pc,         \* pc[c]: Ready, or a step of an upload or of mark_handled and its job
  prompt,     \* the job the conflict screen shows, or NoJob
  idleReads,  \* history variable, idleReads[c]: idle messages client c read in a row
              \* since it last sent a job, up to 2
  unrecorded, \* history variable: times the service became active and the web
              \* service has not yet written to the print history
  budget

serviceVars == <<lifecycleVars, job, times, hot, faulted>>
clientVars  == <<st, known, retained, guard, idleReads>>
fileVars    == <<record, spool>>
clientsVars == <<serviceVars, late, slot, clientVars, fileVars, pc, prompt,
                 unrecorded, budget>>

Client   == {"web", "ui"}
NoRecord == [job |-> NoJob, conflict |-> FALSE]
Torn     == [job |-> NoJob, conflict |-> TRUE]  \* truncated: readers find nothing
Ready    == <<"ready">>

Message == [req |-> shown, file |-> job, total |-> times # "none",
            left |-> times = "running", hot |-> hot, error |-> faulted]

ClientsInit ==
  /\ LifecycleInit
  /\ job = NoJob /\ times = "none" /\ hot = FALSE /\ faulted = FALSE
  /\ late = <<>> /\ slot = <<>>
  /\ st = [c \in Client |-> BlankState(c = "web")]
  /\ known = [c \in Client |-> FALSE]
  /\ retained = [c \in Client |-> NoJob]
  /\ guard = [c \in Client |-> "clear"]
  /\ idleReads = [c \in Client |-> 0]
  /\ record = NoRecord /\ spool = {}
  /\ pc = [c \in Client |-> Ready] /\ prompt = NoJob
  /\ unrecorded = 0
  /\ budget = [act |-> MaxActions, fault |-> MaxFaults]

Pay(kinds) ==
  /\ \A k \in kinds : budget[k] > 0
  /\ budget' = [k \in DOMAIN budget |-> IF k \in kinds THEN budget[k] - 1 ELSE budget[k]]

Goto(c, step) == pc' = [pc EXCEPT ![c] = step]

CountEpisode ==
  unrecorded' = IF shown \notin ActiveShown /\ shown' \in ActiveShown
                THEN unrecorded + 1 ELSE unrecorded

----------------------------------------------------------------------------
(* The service carries out a command.  What it refuses changes nothing.     *)

\* job_control_accept opens the file: one that is gone is a storage error.
CarryOutJob(j) ==
  \/ /\ j \in spool \cup UsbJob /\ StartJob
     /\ job' = j /\ times' = "running" /\ hot' = TRUE /\ faulted' = FALSE
  \/ /\ life = "none" /\ j \notin spool \cup UsbJob
     /\ faulted' = TRUE /\ UNCHANGED <<lifecycleVars, job, times, hot>>
  \/ life # "none" /\ UNCHANGED serviceVars

CarryOutAbort ==
  \/ /\ life # "none" \/ hot \/ shown \in {"preparing", "printing", "paused", "aborting"}
     /\ BeginAbort /\ hot' = FALSE /\ UNCHANGED <<job, times, faulted>>
  \/ /\ life = "none" /\ ~hot /\ shown \in {"idle", "complete", "error", "pausing"}
     /\ UNCHANGED serviceVars

CarryOutPause ==
  \/ /\ life \in {"printing", "finishing"} /\ shown \in {"preparing", "printing"}
     /\ shown' = "pausing" /\ UNCHANGED <<life, job, times, hot, faulted>>
  \/ /\ life \in {"none", "aborting"} /\ shown = "preparing"
     /\ shown' = "paused" /\ UNCHANGED <<life, job, times, hot, faulted>>
  \/ shown \notin {"preparing", "printing"} /\ UNCHANGED serviceVars

CarryOutResume ==
  \/ /\ shown = "paused" /\ shown' = "printing"
     /\ UNCHANGED <<life, job, times, hot, faulted>>
  \/ shown # "paused" /\ UNCHANGED serviceVars

\* deneb_gcode_control_refresh_manual_status: what an idle printer shows.
Refreshed(heated) ==
  IF life # "none" \/ shown \in {"error", "complete"} THEN shown
  ELSE IF heated THEN "preparing" ELSE "idle"

\* A heater command (deneb_gcode_control_run) is carried out whatever is printed.
CarryOutHeat ==
  /\ hot' = ~hot /\ shown' = Refreshed(~hot)
  /\ UNCHANGED <<life, job, times, faulted>>

CarryOut(c) ==
  /\ \/ c[1] = "JOB" /\ CarryOutJob(c[2])
     \/ c[1] = "ABORT" /\ CarryOutAbort
     \/ c[1] = "PAUSE" /\ CarryOutPause
     \/ c[1] = "RESUME" /\ CarryOutResume
     \/ c[1] = "GCODE" /\ CarryOutHeat
  /\ CountEpisode

\* backend_zmq_send_frame and send_rpc_timeout: in time, whatever the answer,
\* or too late, when the command is still on its way.
Answered(c, cost) == CarryOut(c) /\ UNCHANGED late /\ Pay(cost)

TimesOut(c, cost) ==
  /\ late' = Append(late, c) /\ Pay(cost \cup {"fault"})
  /\ UNCHANGED <<serviceVars, unrecorded>>

----------------------------------------------------------------------------
(* The service by itself. *)

\* What the jobs, faults and clean-ups of PrintService do to the message.  A job
\* that fails keeps its file in the message.
ServiceStep ==
  /\ \/ /\ BeginFinish /\ shown \notin {"pausing", "paused"}
        /\ times' = "over" /\ UNCHANGED <<job, hot, faulted>>
     \/ /\ EndFinish /\ job' = NoJob /\ hot' = FALSE /\ UNCHANGED <<times, faulted>>
     \/ EndAbort /\ job' = NoJob /\ hot' = FALSE /\ faulted' = FALSE /\ times' = "none"
     \/ /\ life \in {"printing", "finishing"} /\ BeginAbort
        /\ faulted' = TRUE /\ hot' = FALSE /\ UNCHANGED <<job, times>>
     \/ FailJob /\ faulted' = TRUE /\ UNCHANGED <<job, times, hot>>
     \/ /\ ShowWhilePrinting
        /\ <<shown, shown'>> \in {<<"preparing", "printing">>, <<"printing", "preparing">>,
                                  <<"pausing", "paused">>}
        /\ UNCHANGED <<job, times, hot, faulted>>
     \/ /\ shown' = Refreshed(hot) /\ shown' # shown
        /\ UNCHANGED <<life, job, times, hot, faulted>>
  /\ CountEpisode
  /\ UNCHANGED <<late, slot, clientVars, fileVars, pc, prompt, budget>>

CarryOutLate ==
  /\ late # <<>> /\ CarryOut(Head(late)) /\ late' = Tail(late)
  /\ UNCHANGED <<slot, clientVars, fileVars, pc, prompt, budget>>

\* The status socket conflates: a newer message replaces the waiting one.
Publish ==
  /\ slot # <<Message>> /\ slot' = <<Message>>
  /\ UNCHANGED <<serviceVars, late, clientVars, fileVars, pc, prompt, unrecorded, budget>>

----------------------------------------------------------------------------
(* A client reads its status. *)

PendingName == record.job

\* deneb_status_state_apply_json for client c and message m.
Applied(c, m) ==
  LET now == Parsed(m)
      f   == ResolveFilename(m, now, st[c], retained[c], PendingName)
      new == NormalizedTiming([now EXCEPT !.file = f.name])
  IN  [state |-> new, retained |-> f.retained]

\* Mutant: a transition is seen again with every message.
EndedAgain(c, new) == known[c] /\ ~new.printing

\* log_status_transition sees the print end, which the first message never is.
Ended(c, new) == known[c] /\ PrintEnded(st[c], new)

Read(c, m) ==
  LET a == Applied(c, m) IN
  /\ st' = [st EXCEPT ![c] = a.state]
  /\ known' = [known EXCEPT ![c] = TRUE]
  /\ retained' = [retained EXCEPT ![c] =
                    IF c = "ui" /\ Ended(c, a.state) THEN NoJob ELSE a.retained]
  /\ guard' = [guard EXCEPT ![c] = IF ClearsGuard(a.state) THEN "clear" ELSE @]
  /\ idleReads' = [idleReads EXCEPT ![c] =
                     IF m.req # "idle" \/ m.error THEN 0 ELSE IF @ = 0 THEN 1 ELSE 2]

\* deneb_print_history_append_entry puts the entry after the others, in a copy that is
\* renamed, or fails, and nobody looks.
AppendEntry(missing) == {missing - 1, missing}

\* backend_zmq_poll: the end of a print goes to the history and takes the
\* record with it, whatever job it is about.
WebPoll ==
  /\ pc["web"] = Ready /\ slot # <<>>
  /\ Read("web", slot[1]) /\ slot' = <<>>
  /\ LET a == Applied("web", slot[1]).state IN
       IF Ended("web", a)
       THEN unrecorded' \in AppendEntry(unrecorded) /\ record' = NoRecord
       ELSE UNCHANGED <<unrecorded, record>>
  /\ UNCHANGED <<serviceVars, late, spool, pc, prompt, budget>>

\* backend_poll, from the main loop of the touch screen; the status screen then
\* asks whether a stop is in flight.
UiPoll ==
  /\ pc["ui"] = Ready /\ Read("ui", Message)
  /\ UNCHANGED <<serviceVars, late, slot, fileVars, pc, prompt, unrecorded, budget>>

UiQueriesGuard ==
  /\ pc["ui"] = Ready /\ guard["ui"] = "old"
  /\ guard' = [guard EXCEPT !["ui"] =
       GuardAfterQuery(@, HasActiveContext(st["ui"], st["ui"].printing, st["ui"].paused))]
  /\ guard' # guard
  /\ UNCHANGED <<serviceVars, late, slot, st, known, retained, idleReads, fileVars, pc,
                 prompt, unrecorded, budget>>

\* Three seconds pass after a stop.
GuardAges ==
  \E c \in Client :
    /\ guard[c] = "fresh" /\ guard' = [guard EXCEPT ![c] = "old"]
    /\ UNCHANGED <<serviceVars, late, slot, st, known, retained, idleReads, fileVars, pc,
                   prompt, unrecorded, budget>>

----------------------------------------------------------------------------
(* deneb-api: uploads.  The server is single threaded, so nothing else of   *)
(* it runs between these steps; the other processes do.                     *)

\* api_print_job_post up to deneb_print_job_file_store_upload.  An upload that
\* is a duplicate (200) or blocked (409) leaves nothing behind.
UploadStore(j) ==
  /\ pc["web"] = Ready /\ Pay({"act"})
  /\ UploadCheck(record.job, j) = "clear"
  /\ spool' = spool \cup {j} /\ Goto("web", <<"record", j>>)
  /\ UNCHANGED <<serviceVars, late, slot, clientVars, record, prompt, unrecorded>>

\* Mutant: a job that needs another material or nozzle is started too.
UploadRecordStartsAll(j) ==
  /\ pc["web"] = <<"record", j>>
  /\ record' = [job |-> j, conflict |-> j \in Conflicting]
  /\ Goto("web", <<"send", j>>)
  /\ UNCHANGED <<serviceVars, late, slot, clientVars, spool, prompt, unrecorded, budget>>

\* deneb_pending_job_registration_prepare and _write_default (a rename): a job
\* that needs another material or nozzle waits for the user, and is answered 201.
UploadRecord(j) ==
  /\ pc["web"] = <<"record", j>>
  /\ record' = [job |-> j, conflict |-> j \in Conflicting]
  /\ Goto("web", IF j \in Conflicting THEN Ready ELSE <<"send", j>>)
  /\ UNCHANGED <<serviceVars, late, slot, clientVars, spool, prompt, unrecorded, budget>>

\* retain_backend_filename, before the command is sent.
Retains(c, j) ==
  /\ retained' = [retained EXCEPT ![c] = j]
  /\ st' = [st EXCEPT ![c].file = j]
  /\ idleReads' = [idleReads EXCEPT ![c] = 0]
  /\ UNCHANGED <<known, guard>>

\* deneb_pending_job_registration_dispatch_start.
UploadSend(j) ==
  /\ pc["web"] = <<"send", j>>
  /\ \/ /\ ~StartAllowed(st["web"]) /\ Goto("web", <<"clear", j>>)
        /\ UNCHANGED <<serviceVars, late, clientVars, unrecorded, budget>>
     \/ /\ StartAllowed(st["web"]) /\ Retains("web", j)
        /\ \/ Answered(<<"JOB", j>>, {}) /\ Goto("web", Ready)
           \/ TimesOut(<<"JOB", j>>, {}) /\ Goto("web", <<"clear", j>>)
  /\ UNCHANGED <<slot, fileVars, prompt>>

\* Mutant: the file goes before the record that names it.
UploadUndoFileFirst(j) ==
  /\ \/ /\ pc["web"] = <<"clear", j>> /\ Goto("web", <<"unlink", j>>)
        /\ spool' = spool \ {j} /\ UNCHANGED record
     \/ /\ pc["web"] = <<"unlink", j>> /\ Goto("web", Ready)
        /\ record' = NoRecord /\ UNCHANGED spool
  /\ UNCHANGED <<serviceVars, late, slot, clientVars, prompt, unrecorded, budget>>

\* The registration failed: the record is removed, then the file (503).
UploadUndo(j) ==
  /\ \/ /\ pc["web"] = <<"clear", j>> /\ Goto("web", <<"unlink", j>>)
        /\ record' = NoRecord /\ UNCHANGED spool
     \/ /\ pc["web"] = <<"unlink", j>> /\ Goto("web", Ready)
        /\ spool' = spool \ {j} /\ UNCHANGED record
  /\ UNCHANGED <<serviceVars, late, slot, clientVars, prompt, unrecorded, budget>>

----------------------------------------------------------------------------
(* The record: a user tells the waiting job to go ahead or cancels it, on   *)
(* the screen that prompts for it or through the cluster API.               *)

\* The main loop of the screen puts the prompt over whatever is shown.
UiPrompts ==
  /\ pc["ui"] = Ready /\ prompt = NoJob
  /\ record.conflict /\ record.job # NoJob
  /\ prompt' = record.job
  /\ UNCHANGED <<serviceVars, late, slot, clientVars, fileVars, pc, unrecorded, budget>>

\* deneb_pending_job_dispatch_default with PREPARE.  The command is about the job
\* the file names now.
PendingGo(c) ==
  LET plan == PendingPlan("PREPARE", record.job) IN
  /\ pc[c] = Ready /\ record.job # NoJob /\ StartAllowed(st[c])
  /\ c = "ui" => prompt # NoJob
  /\ Retains(c, record.job)
  /\ \/ /\ Answered(plan.command, {"act"})
        /\ Goto(c, <<"mark", NoJob>>)
        /\ prompt' = IF c = "ui" THEN NoJob ELSE prompt
     \/ TimesOut(plan.command, {"act"}) /\ UNCHANGED <<pc, prompt>>
  /\ UNCHANGED <<slot, fileVars>>

\* The same with ABORT, which goes to the service whatever it is printing.
PendingCancel(c) ==
  LET plan == PendingPlan("ABORT", record.job) IN
  /\ pc[c] = Ready /\ record.job # NoJob
  /\ c = "ui" => prompt # NoJob
  /\ \/ /\ Answered(plan.command, {"act"})
        /\ record' = IF plan.clears THEN NoRecord ELSE record
        /\ prompt' = IF c = "ui" THEN NoJob ELSE prompt
     \/ TimesOut(plan.command, {"act"}) /\ UNCHANGED <<record, prompt>>
  /\ UNCHANGED <<slot, clientVars, spool, pc>>

\* deneb_pending_job_file_finish_action and _mark_handled: the file is read,
\* truncated and written again in place; one that cannot be read is removed.
MarkHandled(c) ==
  /\ \/ /\ pc[c] = <<"mark", NoJob>>
        /\ \/ /\ record.job = NoJob /\ record' = NoRecord /\ Goto(c, Ready)
           \/ record.job # NoJob /\ ~record.conflict /\ Goto(c, Ready) /\ UNCHANGED record
           \/ record.job # NoJob /\ record.conflict /\ Goto(c, <<"open", record.job>>)
              /\ UNCHANGED record
     \/ pc[c][1] = "open" /\ record' = Torn /\ Goto(c, <<"write", pc[c][2]>>)
     \/ /\ pc[c][1] = "write" /\ Goto(c, Ready)
        /\ record' = IF record = Torn THEN [job |-> pc[c][2], conflict |-> FALSE] ELSE record
  /\ UNCHANGED <<serviceVars, late, slot, clientVars, spool, prompt, unrecorded, budget>>

----------------------------------------------------------------------------
(* Commands to the running print. *)

\* deneb_print_action_dispatch: the record goes only when the command was answered.
Dispatched(plan) ==
  \/ /\ Answered(<<plan.command, NoJob>>, {"act"})
     /\ record' = IF plan.clears THEN NoRecord ELSE record
  \/ TimesOut(<<plan.command, NoJob>>, {"act"}) /\ UNCHANGED record

\* PUT print_job/state, which asks nobody whether a job is waiting.
WebAction(a) ==
  /\ pc["web"] = Ready
  /\ ~ActionPlan(a).guarded /\ Dispatched(ActionPlan(a))
  /\ UNCHANGED <<slot, clientVars, spool, pc, prompt>>

\* PUT print_jobs/<id>/action of the cluster API, whatever the id.
ClusterAction(a) ==
  IF RoutesToPending(a, record.job # NoJob)
  THEN (a = "print" /\ PendingGo("web")) \/ (a = "abort" /\ PendingCancel("web"))
  ELSE WebAction(a)

\* api_cluster_print_job_delete
WebDelete ==
  LET s == st["web"]
      plan == DeletePlan(s.error \/ s.paused \/ s.printing) IN
  /\ pc["web"] = Ready
  /\ \/ /\ plan.clears /\ Pay({"act"}) /\ record' = NoRecord
        /\ UNCHANGED <<serviceVars, late, unrecorded>>
     \/ /\ ~plan.clears /\ UNCHANGED record
        /\ Answered(<<"ABORT", NoJob>>, {"act"}) \/ TimesOut(<<"ABORT", NoJob>>, {"act"})
  /\ UNCHANGED <<slot, clientVars, spool, pc, prompt>>

\* Is a stop in flight for client c?  Asking may clear the guard.
Queried(c) ==
  GuardAfterQuery(guard[c], HasActiveContext(st[c], st[c].printing, st[c].paused))

\* backend_zmq_stop_print with deneb_print_action_dispatch, and backend_stop_print
\* behind the stop buttons of the screens, of which the print screen's is never
\* disabled.  A stop that is already in flight is answered as if it had been sent.
Stop(c) ==
  /\ pc[c] = Ready
  /\ \/ /\ ~GuardBegins(Queried(c)) /\ Pay({"act"})
        /\ guard' = [guard EXCEPT ![c] = Queried(c)]
        /\ record' = IF c = "web" THEN NoRecord ELSE record
        /\ UNCHANGED <<serviceVars, late, unrecorded>>
     \/ /\ GuardBegins(Queried(c)) /\ Answered(<<"ABORT", NoJob>>, {"act"})
        /\ guard' = [guard EXCEPT ![c] = "fresh"] /\ record' = NoRecord
     \/ /\ GuardBegins(Queried(c)) /\ TimesOut(<<"ABORT", NoJob>>, {"act"})
        /\ guard' = [guard EXCEPT ![c] = "clear"] /\ UNCHANGED record
  /\ UNCHANGED <<slot, st, known, retained, idleReads, spool, pc, prompt>>

\* The print screen starts a file from the stick.
UiStart(j) ==
  /\ pc["ui"] = Ready /\ StartAllowed(st["ui"])
  /\ Retains("ui", j)
  /\ Answered(<<"JOB", j>>, {"act"}) \/ TimesOut(<<"JOB", j>>, {"act"})
  /\ UNCHANGED <<slot, fileVars, pc, prompt>>

\* Its pause and resume buttons, which look at nothing.
UiPauseResume ==
  /\ pc["ui"] = Ready
  /\ \E c \in {<<"PAUSE", NoJob>>, <<"RESUME", NoJob>>} :
       Answered(c, {"act"}) \/ TimesOut(c, {"act"})
  /\ UNCHANGED <<slot, clientVars, fileVars, pc, prompt>>

\* The one button of the status screen, which looks at the status and for a stop.
StatusPauseResume ==
  LET s == st["ui"] IN
  /\ pc["ui"] = Ready /\ ~ReqIsAbort(s.req) /\ GuardBegins(Queried("ui"))
  /\ \E k \in {"PAUSE", "RESUME"} :
       /\ IF s.paused THEN k = "RESUME" ELSE s.printing /\ k = "PAUSE"
       /\ Answered(<<k, NoJob>>, {"act"}) \/ TimesOut(<<k, NoJob>>, {"act"})
  /\ guard' = [guard EXCEPT !["ui"] = Queried("ui")]
  /\ UNCHANGED <<slot, st, known, retained, idleReads, fileVars, pc, prompt>>

\* The temperatures: the screen's buttons look at the state it has, the web's
\* requests at nothing.
ManualHeat(c) ==
  /\ pc[c] = Ready /\ (c = "ui" => StartAllowed(st["ui"]))
  /\ Answered(<<"GCODE", NoJob>>, {"act"}) \/ TimesOut(<<"GCODE", NoJob>>, {"act"})
  /\ UNCHANGED <<slot, clientVars, fileVars, pc, prompt>>

----------------------------------------------------------------------------
(* Processes stop and are started again by procd. *)

\* backend_zmq_init or backend_init: everything but the files is gone.
Restart(c) ==
  /\ Pay({"fault"})
  /\ st' = [st EXCEPT ![c] = BlankState(c = "web")]
  /\ known' = [known EXCEPT ![c] = FALSE]
  /\ retained' = [retained EXCEPT ![c] = NoJob]
  /\ guard' = [guard EXCEPT ![c] = "clear"]
  /\ idleReads' = [idleReads EXCEPT ![c] = 0]
  /\ Goto(c, Ready)
  /\ prompt' = IF c = "ui" THEN NoJob ELSE prompt
  /\ slot' = IF c = "web" THEN <<>> ELSE slot
  /\ UNCHANGED <<serviceVars, late, fileVars, unrecorded>>

\* deneb-printsvc starts idle and forgets its job and what was queued for it.
ServiceRestart ==
  /\ Pay({"fault"})
  /\ life' = "none" /\ shown' = "idle" /\ job' = NoJob /\ times' = "none"
  /\ hot' = FALSE /\ faulted' = FALSE /\ late' = <<>>
  /\ UNCHANGED <<slot, clientVars, fileVars, pc, prompt, unrecorded>>

----------------------------------------------------------------------------
ClientsNext ==
  \/ ServiceStep \/ CarryOutLate \/ Publish \/ ServiceRestart
  \/ WebPoll \/ UiPoll \/ UiQueriesGuard \/ GuardAges
  \/ \E j \in Job : UploadStore(j) \/ UploadRecord(j) \/ UploadSend(j) \/ UploadUndo(j)
  \/ UiPrompts
  \/ PendingGo("ui") \/ PendingCancel("ui")
  \/ \E c \in Client : MarkHandled(c) \/ Stop(c) \/ ManualHeat(c) \/ Restart(c)
  \/ \E a \in Action : WebAction(a) \/ ClusterAction(a)
  \/ WebDelete \/ UiPauseResume \/ StatusPauseResume
  \/ \E j \in UsbJob : UiStart(j)

ClientsSpec == ClientsInit /\ [][ClientsNext]_clientsVars

----------------------------------------------------------------------------
\* A printer at rest is offered again: after two idle messages in a row without an
\* error, a client allows a start and shows an idle printer and no job, on the screen and
\* through either web API (but for a stop in flight), whatever name it retained or held
\* for one, whatever command was refused or late and whoever was restarted before.
IdleIsNoticed ==
  \A c \in Client :
    idleReads[c] = 2 =>
      /\ StartAllowed(st[c]) /\ st[c].file = NoJob /\ retained[c] = NoJob
      /\ DisplayState(st[c], FALSE) = "idle" /\ StatusLabel(st[c]) = "idle"
      /\ ClusterLabel(StatusLabel(st[c])) = "idle"

\* A readable record names an uploaded file that is on disk, whatever process
\* stops wherever: Continue can always be carried out.
RecordHasFile == record.job # NoJob => record.job \in spool

\* The history never has more prints than the service ran: a restart of the web
\* service or a message read twice does not record an end again.
HistoryIsOfPrints == unrecorded >= 0

=============================================================================
