---------------------------- MODULE MotionPolicy ----------------------------
(***************************************************************************)
(* The commands deneb-printsvc writes on its own account, and the fixed    *)
(* command lists of motion_policy.c and job_streamer.c.                    *)
(*                                                                         *)
(* A command is kept for what it does to the machine and to the gate in    *)
(* front of the serial line: coordinates, feed rates and retract lengths   *)
(* are left out, a run of moves and mode switches is one "move", and the   *)
(* fan command is left out.                                                *)
(***************************************************************************)
EXTENDS Sequences

Heater == {"bed", "head"}

MotionCommand ==
  {"move",                  \* G0, G1, G10 and the G90/G91/G92/M82/M83 around them
   "home",                  \* G28
   "sync",                  \* M400
   "release",               \* M84
   "headOn", "headOff",     \* M104 S<t>, M104 S0
   "bedOn", "bedOff",       \* M140 S<t>, M140 S0
   "headWait",              \* M109 S<t>, which the Connect controller ignores
   "temperature",           \* M105
   "position"}              \* M114

\* command_is_barrier: nothing is sent while one of these is unacknowledged.
IsBarrier(c) == c \in {"home", "sync", "headWait"}

\* Commands after which an earlier position report is out of date.
IsMove(c) == c \in {"move", "home"}

TurnsOn  == [bed |-> "bedOn",  head |-> "headOn"]
TurnsOff == [bed |-> "bedOff", head |-> "headOff"]

\* The heaters with a positive target after c, when those in h had one.  Both
\* the controller and parse_heater_target read the commands so.
HeatAfter(h, c) == {x \in Heater : c = TurnsOn[x] \/ (x \in h /\ c # TurnsOff[x])}

AbortPolicy  == <<"move", "home", "headOff", "bedOff", "sync", "release">>
FinishPolicy == <<"sync", "move", "home", "headOff", "bedOff", "sync", "release">>
PausePolicy  == <<"move", "sync", "headOff">>

\* deneb_motion_policy_resume: without a saved nozzle target the reheating and
\* the extruder moves are left out and the head is moved back cold.
ResumePolicy(heated) ==
  IF heated THEN <<"headOn", "headWait", "move", "temperature">>
            ELSE <<"move", "temperature">>

\* DENEB_JOB_PREPARE_HOME_COMMANDS; the prime and startup lists.
HomeCommands    == <<"home", "move">>
StartupCommands == <<"move">>
=============================================================================
