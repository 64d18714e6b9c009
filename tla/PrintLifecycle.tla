--------------------------- MODULE PrintLifecycle ---------------------------
(***************************************************************************)
(* What deneb-printsvc promises its clients: the life of one job, and the  *)
(* state the status message shows for it.  PrintService implements this;   *)
(* PrintClients builds the touch screen and the web service on it.         *)
(***************************************************************************)
VARIABLES
  life,   \* "none", "printing", "finishing" or "aborting"
  shown   \* the state of the status message

Life == {"none", "printing", "finishing", "aborting"}

Shown == {"idle", "preparing", "printing", "pausing", "paused", "aborting",
          "complete", "error"}

lifecycleVars == <<life, shown>>

\* deneb_print_control_phase_active: what the message calls an active print.
ActiveShown == {"preparing", "printing", "pausing", "paused", "aborting"}

LifecycleInit == life = "none" /\ shown = "idle"

\* A job is taken only when nothing of an earlier one is left.
StartJob == life = "none" /\ life' = "printing" /\ shown' = "preparing"

\* A client or a fault ends the job; an idle printer can be aborted too.
BeginAbort == life' = "aborting" /\ shown' = "aborting"

\* The abort clean-up ran to its end.
EndAbort == life = "aborting" /\ life' = "none" /\ shown' = "idle"

\* The last line of the file has been sent.
BeginFinish == life = "printing" /\ life' = "finishing" /\ shown' = "printing"

\* Only a job that printed to its end is shown as complete.
EndFinish == life = "finishing" /\ life' = "none" /\ shown' = "complete"

\* A fault or a failing serial write ends the job, or its clean-up, in an error.
FailJob == life # "none" /\ life' = "none" /\ shown' = "error"

\* A failing write in the finish clean-up: the job itself is dropped a turn later.
FailFinish == life = "finishing" /\ life' = "printing" /\ shown' = "error"

\* Preparing, pausing, resuming and errors, while the job lives on; and the
\* heating of an idle printer, which is shown as preparing.
ShowWhilePrinting ==
  /\ life \in {"printing", "finishing"} /\ UNCHANGED life
  /\ shown' \in {"preparing", "printing", "pausing", "paused", "error"}

ShowWhileAborting ==
  /\ life = "aborting" /\ UNCHANGED life
  /\ shown' \in {"aborting", "preparing", "paused", "printing", "error"}

ShowWhileIdle ==
  /\ life = "none" /\ UNCHANGED life
  /\ shown' \in {"idle", "preparing", "paused", "printing", "error"}

LifecycleNext ==
  \/ StartJob \/ BeginAbort \/ EndAbort \/ BeginFinish \/ EndFinish
  \/ FailJob \/ FailFinish
  \/ ShowWhilePrinting \/ ShowWhileAborting \/ ShowWhileIdle

LifecycleSpec == LifecycleInit /\ [][LifecycleNext]_lifecycleVars
=============================================================================
