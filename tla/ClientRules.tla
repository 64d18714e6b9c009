---------------------------- MODULE ClientRules ----------------------------
(***************************************************************************)
(* The rules of src/common/print that the touch screen and the web service *)
(* share: how a status message becomes the state a client acts on, and     *)
(* what a client's action is turned into.                                  *)
(*                                                                         *)
(* A message is abstracted to what the rules tell apart: the shown state   *)
(* (req, which is never empty: deneb_status_serialize_payload writes the   *)
(* state's name), the job file (with its uuid, set and cleared together),  *)
(* whether the times and the heater targets are above 0, and whether it    *)
(* carries an error.                                                       *)
(***************************************************************************)
EXTENDS Naturals

CONSTANT Job          \* print files a client can name

NoJob == "none"       \* DENEB_PRINT_NONE_VALUE

----------------------------------------------------------------------------
(* Classes of request, and the contexts built from them. *)

ReqIsPrint(r)     == r \in {"printing", "pausing", "paused"}
ReqIsPaused(r)    == r = "paused"
ReqIsLifecycle(r) == r = "preparing"
ReqIsAbort(r)     == r = "aborting"

\* deneb_print_control_phase_active, which denebActive carries.
NativeActive(r) == r \in {"preparing", "printing", "pausing", "paused", "aborting"}

HasContext(s) ==
  /\ ~ReqIsAbort(s.req)
  /\ \/ s.total \/ s.left \/ s.file # NoJob
     \/ ReqIsLifecycle(s.req) /\ s.hot
     \/ ReqIsPrint(s.req)

HasActiveContext(s, printing, paused) ==
  ~ReqIsAbort(s.req) /\ (printing \/ paused \/ s.file # NoJob \/ HasContext(s))

HasPreparingContext(s) ==
  /\ ~ReqIsAbort(s.req) /\ s.file # NoJob
  /\ ReqIsLifecycle(s.req) \/ s.hot \/ ReqIsPrint(s.req)

\* deneb_print_start_allowed, and so deneb_print_manual_action_allowed.
StartAllowed(c) == c.connected /\ ~c.error /\ ~c.paused /\ ~c.printing

----------------------------------------------------------------------------
(* What is shown. *)

\* deneb_print_status_label_with_req
StatusLabel(c) ==
  CASE c.error -> "error"
    [] ~c.error /\ c.paused -> "paused"
    [] ~c.error /\ ~c.paused /\ ~c.connected -> "offline"
    [] OTHER ->
         IF c.req = "pausing" /\ c.printing THEN "pausing"
         ELSE IF ReqIsAbort(c.req) /\ c.printing THEN "aborting"
         ELSE IF c.printing THEN "printing" ELSE "idle"

\* deneb_print_cluster_printer_status_label
ClusterLabel(label) ==
  CASE label = "offline" -> "unreachable"
    [] label \in {"paused", "aborting"} -> "printing"
    [] OTHER -> label

\* deneb_print_display_state_with_req
DisplayState(c, stopping) ==
  IF ~c.connected THEN "preparing"
  ELSE IF c.error THEN "error"
  ELSE IF ReqIsAbort(c.req) \/ stopping THEN "cooling"
  ELSE IF c.paused THEN "paused"
  ELSE IF c.req = "pausing" THEN "pausing"
  ELSE IF HasPreparingContext(c) /\ ~c.total THEN "preparing"
  ELSE IF c.printing THEN "printing" ELSE "idle"

----------------------------------------------------------------------------
(* deneb_status_state_apply_json: the client's copy of the status. *)

\* deneb_status_payload_should_hold_filename
HoldFilename(c, p) ==
  /\ ~ReqIsAbort(c.req)
  /\ \/ c.printing \/ c.paused \/ p.printing \/ p.paused
     \/ c.total \/ p.total \/ c.hot
     \/ ReqIsLifecycle(c.req) \/ ReqIsLifecycle(p.req)
     \/ c.uuid # NoJob /\ c.uuid = p.uuid

\* Mutant: an idle message does not end what was retained.
ResolveFilenameKeeps(s, c, p, retained, pendingName) ==
  LET kept  == IF s.file # NoJob THEN s.file ELSE retained
      ended == ReqIsAbort(c.req) \/ ((p.printing \/ p.paused) /\ ~c.printing /\ ~c.paused)
  IN  [name |-> IF ended THEN NoJob ELSE kept, retained |-> IF ended THEN NoJob ELSE kept]

\* deneb_status_payload_resolve_filename_value, for job files (a macro is never
\* in the status file): the name shown, and the name kept for later.
ResolveFilename(s, c, p, retained, pendingName) ==
  LET hold  == HoldFilename(c, p)
      first == IF s.file # NoJob THEN s.file
               ELSE IF hold /\ pendingName # NoJob THEN pendingName
               ELSE IF hold /\ retained # NoJob THEN retained
               ELSE IF hold THEN p.file
               ELSE NoJob
      kept  == IF s.file # NoJob THEN s.file ELSE retained
      ended == ReqIsAbort(c.req) \/ ((p.printing \/ p.paused) /\ ~c.printing /\ ~c.paused)
      name  == IF ended THEN NoJob
               ELSE IF first = NoJob /\ ~hold THEN kept ELSE first
      quiet == ~hold /\ ~c.total /\ ~c.left /\ ~c.hot
  IN  [name |-> name, retained |-> IF ended \/ quiet THEN NoJob ELSE kept]

\* deneb_status_payload_parse: is_printing is the native flag when there is one.
Parsed(s) ==
  [req |-> s.req, file |-> s.file, uuid |-> s.file, total |-> s.total, left |-> s.left,
   hot |-> s.hot, error |-> s.error,
   printing |-> NativeActive(s.req), paused |-> ReqIsPaused(s.req),
   connected |-> TRUE]

\* deneb_print_normalize_timing: times of a print that is over are dropped.
NormalizedTiming(c) ==
  IF c.total /\ ~c.printing /\ ~c.paused
  THEN [c EXCEPT !.total = FALSE, !.left = FALSE] ELSE c

\* The client's state before the first message: connected only on the web side,
\* where backend_zmq_init sets it.
BlankState(connected) ==
  [req |-> "", file |-> NoJob, uuid |-> NoJob, total |-> FALSE, left |-> FALSE,
   hot |-> FALSE, error |-> FALSE, printing |-> FALSE, paused |-> FALSE, connected |-> connected]

\* deneb_status_state_transition_from_pair
PrintEnded(p, c) == p.printing /\ ~c.printing

\* The rule by which a status message would clear a stop guard: an empty request,
\* which no message of deneb-printsvc has.
ClearsGuard(c) ==
  /\ ~c.total /\ ~c.left /\ ~c.hot /\ c.req = "" /\ ~c.printing /\ ~c.paused

----------------------------------------------------------------------------
(* The stop guard: clear, or in flight and younger or older than its        *)
(* cooldown of 3 s.                                                         *)

Guard == {"clear", "fresh", "old"}

\* deneb_print_stop_guard_inflight: the guard it leaves behind.
GuardAfterQuery(g, context) == IF g = "old" /\ ~context THEN "clear" ELSE g

\* deneb_print_stop_guard_begin refuses while anything is in flight.
GuardBegins(g) == g = "clear"

----------------------------------------------------------------------------
(* From an action's text to a plan. *)

Action == {"pause", "print", "abort", "stop"}

\* deneb_print_action_plan: the command, and whether the record is removed
\* once it has been delivered.
ActionPlan(a) ==
  [command |-> CASE a = "pause" -> "PAUSE" [] a = "print" -> "RESUME"
                 [] a \in {"abort", "stop"} -> "ABORT",
   guarded |-> a = "stop",
   clears  |-> a \in {"abort", "stop"}]

\* deneb_print_cluster_action_plan: with a job pending, print and abort are about
\* that job.
RoutesToPending(a, pending) == pending /\ a \in {"print", "abort"}

\* deneb_print_delete_action_plan
DeletePlan(activeJob) ==
  [command |-> IF activeJob THEN "ABORT" ELSE "none", guarded |-> FALSE,
   clears |-> ~activeJob]

\* deneb_pending_job_file_plan_action and _finish_action: PREPARE starts the waiting job
\* and then marks its record handled, ABORT removes it.
PendingPlan(instruction, job) ==
  [command |-> IF instruction = "PREPARE" THEN <<"JOB", job>> ELSE <<"ABORT", NoJob>>,
   clears  |-> instruction = "ABORT"]

\* deneb_pending_job_file_check_upload
UploadCheck(record, job) ==
  IF record = NoJob THEN "clear" ELSE IF record = job THEN "duplicate" ELSE "blocked"
=============================================================================
