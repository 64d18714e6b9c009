# Verification of Deneb

Deneb replaces the software of the Ultimaker 2+ Connect. It is a set of
processes: `deneb-printsvc` streams G-code to the motion controller, and the
touch screen, the web service (`deneb-api`), the Digital Factory connector
(`deneb-dfsvc`) and the mDNS advertiser (`deneb-mdns`) stand around it. This
directory holds TLA+ models of these processes and of what they share, TLC runs
that check them on small instances, and TLAPS proofs for all instances.

## Inventory

| Component | State | Operations | What makes it correct |
|---|---|---|---|
| Serial flow control (`printsvc/flow_control.c`) | 32 packet slots, next number (mod 255), planner space, `handling_resend` | send, acknowledge, reject, clear, resynchronise | a number names one waiting packet; a replay has no gap; nothing is executed twice, out of order or acknowledged early |
| Sender and receive loop (`motion_sender.c`, `motion_runtime.c`) | none of its own | send, replay, read a line | a damaged packet is retried; errors reach the status |
| Motion policies (`motion_policy.c`) | none | lists of commands for abort, finish, pause, resume | each list leaves the machine as promised |
| Main loop (`ipc_zmq.c`, `service.c`) | `deneb_print_service_t` | one client command per turn, then serial lines, fault check, policies, cleanups, status poll, job | a turn is done in order; a fatal fault aborts at once |
| Job control (`job_control.c`, `job_lifecycle.c`) | job flag, cleanup flags and indices | accept, abort, abort cleanup, finish cleanup | one lifecycle at a time; an abort ends cold |
| Job streamer (`job_streamer.c`, `gcode_stream.c`, `heater_wait.c`) | stage, index, stream, heater wait | prepare, wait, send a line, end of file, drop | a held job sends nothing; a job does not hang |
| Pause and resume (`pause_resume_control.c`) | probe, policies, saved position and nozzle target | pause, resume, poll | fresh position, still head, warm resume |
| Manual G-code, macros (`gcode_control.c`, `macro_*.c`) | a queue of lines; a macro's position and waits | run, poll | a loop nested in a command leaves the outer one whole |
| Status (`status_parser.c`, `error_map.c`, `motion_observer.c`) | `deneb_status_t` | parse a line | faults are not lost |
| Client rules (`common/print/print_state.c`, `status_state.c`, `print_action.c`) | last message, retained name, stop guard | apply a message, plan an action | what is shown can be acted on |
| Pending job (`common/print/pending_job_file.c`) | a record on the RAM disk, the spool | register, decide, mark, clear | the record names a file; a printer at rest is offered again |
| Job files (`common/print/print_job_file.c`, `material_*.c`, `web/api_multipart.c`) | temporaries, spool, thumbnail, material catalogue | stream, extract, validate, store, undo | a refused upload leaves nothing; what is printed fits |
| Web service (`web/main.c`, `sse.c`, `api_http.c`, `api_auth.c`) | connections, event clients, settings, sessions, nonces | accept, handle, push, set up, log in, pair | events reach listeners only; protection survives; nobody is locked out |
| Digital Factory (`dfsvc/main.c`, `web/df_bridge.c`, `ui/screen_digital_factory.c`) | cluster id, service flag, pair request, status file, link | connect, disconnect, pair, print | nothing is linked without consent; the shown state converges |
| Touch screen (`ui/screen_mgr.c`, `screen_level.c`, `screen_material.c`, `main.c`) | stack of screens, two step machines, a macro thread | push, back, next, heat, move, prompt | macros in order, a move ends, the nozzle is left off |
| Network (`ui/wifi_setup.c`, `eth_setup.c`, `screen_network.c`, `mdns/main.c`) | uci staging area, worker thread, announced address | import, switch, reset, announce | settings are whole and in force; the network learns the address |

The print service is one thread. Clients reach it by request and reply, at most
one command at the top of each turn, and read the status it publishes. The web
service and the touch screen share the pending-job record and the spool; the
connector, the screen's scripts and the bridge share four files and settings;
screens, workers, scripts and the connector share uci. What is hard to test is therefore the
order of things: a command between two steps of a list that takes many turns; an
acknowledgement after its slot was forgotten; a status message older than the
command it is compared with; an answer after its client gave up; a process that
stops between two files; a script between the reading and the handling of a
message. `PROJECT.json` lists these hazards with their lines.

## Modules

| Module | Models |
|---|---|
| `FlowControl` | `flow_control.c` alone; responses are inputs |
| `SerialLink` | `FlowControl` composed with the sender, the receive loop, a line that damages and loses, and a controller |
| `MotionPolicy` | commands by what they do, and the fixed command lists |
| `PrintService` | the main loop with job control, streamer, pause and resume, manual G-code, macros and status |
| `PrintLifecycle` | the abstract print: what the service promises its clients |
| `ClientRules` | the rules of `common/print` that both clients apply to a message |
| `PrintClients` | web service and touch screen around a `PrintLifecycle`, with the record and the spool |
| `JobUploads` | every file of an upload, the build-volume check, archives, materials |
| `WebAuth`, `WebServer` | settings, sessions, pairing and challenges; the event loop, routes and event stream on top |
| `CloudConnector` | connector, bridge, scripts, procd and the cloud |
| `TouchScreens` | the stack of screens, levelling, material change, the conflict prompt |
| `NetworkSetup` | uci plans, their worker and reset, and the advertiser |
| `SerialLinkProofs`, `PrintServiceProofs`, `PrintClientsProofs`, `JobUploadsProofs`, `WebServerProofs`, `CloudConnectorProofs`, `TouchScreensProofs`, `NetworkSetupProofs` | theorems about the module they are named after (`SerialLinkProofs` also has those of `FlowControl`) |
| `MC*` | what the configurations instantiate |

`SerialLink` extends `FlowControl`, `PrintClients` extends `ClientRules` and
`PrintLifecycle`, `WebServer` extends `WebAuth`. `PrintService` instantiates
`PrintLifecycle` with a refinement mapping, so the interface that `PrintClients`
assumes of the service is the one the service is shown to have.

**FlowControl.** A variable per member of `deneb_flow_control_t` that steers
anything; the statistics counters are left out, except `sent_count`, which is
`send_order`'s source. One action per branch of `deneb_flow_handle_response`,
plus `PreparePacket`, `ClearInflight` and `ResyncToExpected`. The only thing
assumed of an acknowledgement is `Answerable`: it names one of the last
`Modulo - Window + 1` packets sent, or a number no slot carries. That the
controller of `SerialLink` satisfies this is `AcksAreAnswerable`, which the link
run checks and the theorem `AcksAlwaysAnswerable` proves for every window.

**SerialLink.** The controller is the Connect build of Marlin, which is not in
the repository. It is modelled from the responses the host parses: it executes
the packet it expects, answers `o`, and answers anything else with `r` or, when
`ProtoErrors` holds TRUE, a ProtoError line for an undamaged packet with a wrong
number. Check sums are a `damaged` flag on packets and the loss of responses.
The error a resend past its limit raises in the print state is the `ReadGarbled`
of `PrintService`.

**PrintService.** `pc` is the position in a turn of the loop. Each `while` of the
code that sends commands is an action that sends one command and stays at its
`pc`; nothing else runs in between, as in the code. `wire` holds the commands in
flight; `stale` those a `clear_inflight` has forgotten but the line has not.
The controller takes them in order, at any time the loop reads
(`ReadResponse`), and a temperature report may say anything about which heaters
are at their target. `warm` and `targets` keep of temperatures only whether a
heater is at its target and whether the target is positive. A macro polls the
motion runtime inside its command; `pc` then walks through a nested turn and
comes back to the macro, which can time out, fail on a response or fail on a
write. Abstracted away: coordinates, timing, names, the M115 probes, the burst
limit of `poll_job_burst` (a body line fills its window of one, and a command
list its window, before the limit is reached or at it), planner space (in
`FlowControl`), and the paths without a serial port. `abort_requested` is read in
several places but nothing ever sets it, so it is left out. A packet whose write
fails keeps its slot and is not on the line: `unsent` holds its place, and the
controller answers nothing behind it. When a later packet arrives it is rejected
(`ReadReject`), and the replay writes the missing packet if its slot is still
there; if `clear_inflight` has forgotten it, or nothing is sent after it, there is
no timer and the service waits. The job file is at most `MaxLines` lines of
`BodyText`, of which `Rewrite` gives what `gcode_rewrite.c` makes of each; its end
may come after any line, and stands for a read error too, which the code does not
tell apart. A fault line is a set of words (`FaultLine`), which
`ErrorFromMarlinLine` maps to a code in the order of `error_map.c`.

**PrintLifecycle.** Two variables: `life`, whether a job prints, finishes or is
aborted, and `shown`, the state of the status message. It says when a job may be
taken, that only a finished job is shown as complete, and which states can be
shown in which part of a life.

**ClientRules, PrintClients.** A message keeps what the rules tell apart: the
requested state, the file, whether times and targets are above zero, an error.
`st`, `known`, `retained` and `guard` are each client's copies of
`printer_state_t`, `had_previous_status`, `retained_print_filename` and
`stop_guard`. `record` and `spool` are the shared files. `pc` splits an upload and
a decision at the points where a process can stop or the other one can act. The
web service's status socket holds one message that may be older than its last
command (`slot`); a command answered after its timeout is carried out later
(`late`). `Restart` and `ServiceRestart` are what procd does. The two web APIs are
not the same: the cluster API's actions go to a waiting job first
(`ClusterAction`), PUT `print_job/state` does not (`WebAction`). The history
variable `idleReads` counts the idle messages a client has read in a row.

**JobUploads.** `at` walks through `stream_upload` and `api_print_job_post`: each
step that creates or removes a file may fail, and each failure takes the undo
the code takes. A header is a pair of bounds per axis, each absent, garbled, not
finite or a number. An archive is a list of members with what the code asks of
each, and a picture of it is drawn when its chunks are there and its format and
lines are known (`Decodes`). unzip's positive status is not taken for a failure
(`api_print_job.c:410`), so an archive without a model goes on to the check, which
refuses it. A start keeps the picture of an archive and removes any other. The
material profile is checked and stored as the code does.

**WebAuth, WebServer.** Tokens, nonces and pairings are increasing numbers.
`auth` and `saved` are the settings in force and in the file; each request that
saves them can be cut off by a stop before, between or inside its saves, and a save
whose file does not open changes nothing, unnoticed. `torn` is what is wrong with
the file and `flaws` what is wrong with the settings in force: "cut" short or not
fully written, "kept" from before a setup, "between" two saves of one, or with a
password that `crypt` did not hash ("unhashed").
Descriptors are reused lowest first. A push to the event clients is a loop with
an index, as in `sse_push_status`, which removes entries while it walks.

**CloudConnector.** `conn` is the process, with the flags of its two loops; each
script line is a step, since scripts and connector only meet in files and
messages. The cloud is what the connector's handlers can be sent; it may or may
not name a cluster (`named`), and `ReadText` says which frames make a message.
`url` is whether the configured address parses (`ParseUrl`); with one that does
not, the loop sleeps and publishes nothing. A call on the link may block for good
(`Blocks`), since the socket has no timeout. A uci or init command may fail, which
nobody notices (`failed`). The header bytes of the two MessagePack writers are
modelled by what they write.

**TouchScreens.** One thread draws and handles buttons; the macro of a levelling
step is sent by a second one (`macro`, `done`, `failedRc`) and watched by a timer
(`watch`). `tour` picks the workflow screens a behaviour visits. `send_rpc_timeout`
throws replies away, so a macro that failed and a heating command that was refused
count as sent: `MacroAnswered` and `NozzleAnswered` stand for every reply.

**NetworkSetup.** uci is three copies of the settings: staged, saved and in force.
A plan is a list of settings with the checked ones marked; the worker runs it
one command at a time, while the reset runs in the thread of the screen. What a plan
is follows from the file (`WifiPlan`, `EthPlan`); a file that is not found or does
not parse ends the worker with nothing staged (`WorkerGivesUp`). The connector's
rename is a second committer (`RenameSets`, `RenameCommits`): it writes the ssid of
the first wireless interface and commits network and wireless, whatever else is
staged. A reboot loses what was staged. Two history variables follow what is
disturbed: `upset`, whether the worker's or the reset's plan missed a command or
overlapped another, and `doubt`, the copies of the Ethernet settings that half a plan
or a disturbed one has reached; an undisturbed plan that passes through ends it.

Definitions whose comment begins with "Mutant" are not part of the model. Each
is a plausible mistake in the code, and replacing the definition named in
`PROJECT.json` by it makes TLC find the property violated.

## Runs that pass

| Run | Shows | Bounds |
|---|---|---|
| `link` | `LookupSound`, `ResendRunUnbroken`, `AcknowledgedWereExecuted`, `ExecutedInOrder`, `AcksAreAnswerable` | 2 slots, 4 numbers, 7 packets, 2 damaged, 1 response lost, 1 clear, a barrier command, both kinds of controller |
| `link_recovers` | `EverySentExecuted` | 6 packets, 1 damaged |
| `service_safe` | `ServiceTypeOK`, `OneLifecycle`, `PausedIsStill`, `FatalFaultAborts`, `AbortEndsCold`, `PausePositionFresh`, `ResumeWaitsForHeat`, `ImplementsLifecycle` | 3 commands with manual G-code and a macro, 1 line, 1 fatal fault, 1 bad response |
| `service_live` | `AbortCompletes`, `PauseSettles`, `JobProgresses` | 2 commands with waiting G-code and a waiting macro, 1 line, 1 resynchronisation, 1 failing write |
| `clients` | `RecordHasFile`, `HistoryIsOfPrints`, `IdleIsNoticed` | 2 jobs, one conflicting, one on USB; 2 user actions, 1 stop or late answer |
| `uploads` | `NothingLeftBehind`, `PrintedFits` | 2 names, 2 axes, 3 requests, 1 stop |
| `web` | `EventsGoToListeners`, `RefusalHasAWayIn`, `ProtectionPersists`, `NewestAreKept`, `ListenerIsClosed` | 3 descriptors, 2 event clients, tables of 2, 3 requests, 2 stops, failing saves or expiries |
| `cloud` | `ConnectedIsSaved`, `NoFilesLeft`, `LinkNeedsConsent`, `PinNeedsRequest`, `StatusConverges` | 2 taps, 1 kill, reboot or failing command, 2 messages the cloud starts |
| `screens` | `HeaterIsLeftOff`, `MacrosInOrder`, `LevelMoveEnds` | the code's stack of 8, 1 workflow screen, 2 changes of the pending job, 1 fault |
| `network` | `EthernetIsWhole`, `ReportedIsInForce`, `AddressConverges` | 4 taps, 1 failing command, rename, reboot or lost announcement |

Why these bounds. Two packets in flight already allow a reject with a later
packet behind it; seven packets wrap four numbers and reuse every slot, and
`2 * Window <= Modulo` is kept, as 32 and 255 keep it. Three commands are job,
pause and resume, or job, pause and abort, and each list of commands is longer
than the stream window. Two client actions are an upload and a decision or a
start by the other client, with the steps of the service, the messages and the
restart in any order between them. Three requests are a setup, a login and a
stream, and fill tables of two; two faults are a save that fails and the restart
that loads what it left. Two taps are connect and disconnect, with a removal by the
cloud, a kill or a reboot between any two steps of their scripts. Four network taps
are two imports, the switch and the reset.

The service never stops and its runs are checked for deadlock. The other runs
switch that off, because their users and their faults have a budget and, when it
is spent, nothing has to happen.

What these runs leave open:

* The text responses of other Marlin builds (`ok N`, bare `ok`, `Resend: N`) are
  outside the link runs: an `ok N` acknowledges one slot and a bare `ok` the first
  pending one by index, so gaps can arise. The Connect controller does not speak
  them; the theorem `FlowTypeCorrect` covers them.
* `AbortEndsCold` and `PausePositionFresh` are checked without resynchronisations.
  With one, they fail: the resynchronisation drops an `M104 S0` of the abort
  cleanup, or the `M114` of the pause, which the recurring poll then stands in for.
* `service_safe` has no failing write. With one, `PausePositionFresh` fails: a finish
  cleanup given up after it can still be moving the head. The other properties of
  the run do not need this; their theorems allow any number of failing writes.
* `ResumeWaitsForHeat` says that a resume's wait for the nozzle is ended by a report
  of a warm nozzle, not that the nozzle is warm when the head moves: a report of
  the time before the pause can still be on its way, and a macro or manual line
  that waits for the bed alone replaces the wait. The run has no such line.
* `FatalFaultAborts` is checked with one fatal line; of two error lines in one turn
  the last one's code is used.
* `PausePositionFresh` and `PausedIsStill` exclude the finish cleanup, and are
  checked with macros and manual G-code that do not move: the service lets both
  through during a pause, and it is the clients that do not offer them.
* `EverySentExecuted` allows one damaged packet; with two it fails (below).
* `AbortCompletes`, `PauseSettles` and `JobProgresses` except the time a packet is
  missing that was never written (`LineIntact`), because the code can then hang; once
  the line is whole again, by a replay or a resynchronisation, they demand an end.
* Other properties have an exception for something the code does let happen. Each is a
  history variable set where it happens, and a behaviour listed below: `LevelMoveEnds`
  has `dropped` (a screen left between the thread's end and the timer),
  `HeaterIsLeftOff` `unsure` (a heating command that failed), `RefusalHasAWayIn` and
  `ProtectionPersists` their `flaws`, `ListenerIsClosed` `long` (a status beyond the
  push's buffer), `NoFilesLeft` `killed`, the cloud's properties `failed` (a uci
  command that failed) and, for what a connector may still finish once it was told
  to stop, `conn.stop`; `ConnectedIsSaved` also a cloud that names no cluster,
  `StatusConverges` an address that does not parse and a call that blocks;
  `EthernetIsWhole` `doubt` and `ReportedIsInForce` `upset`.
* `PinNeedsRequest` is weaker than it looks: `pairing_requested` is never reset, so a
  user who asked once has asked for as long as the consent stands.

### Fairness

`LinkFairSpec`: weak fairness of `HostReceive`, because the loop reads the port on
every turn, and of the controller's three actions. Nothing is assumed of sending
or of faults. `FairServiceSpec`: weak fairness of the loop with its macros, without
clients and faults (the code has no blocking call between turns except a poll with
a timeout), and strong fairness of `Answers`, that is, a controller that has
been sent commands acknowledges or rejects them in the end; it may take any number
of turns, so weak fairness would not make it answer, since reading is only enabled
at one point of the turn. Nothing is assumed of a packet that was not written.

`CloudSpec`: weak fairness of the connector's loops, of the scripts once they run
and of the bridge, each a process of its own; none of users, cloud or faults. A
turn of the online loop publishes only when five seconds have passed, and time
passes: strong fairness of the turns in which it is due, `Turn(TRUE)`. None of this
is assumed of a connector whose call on the link blocks.
`WebSpec`: weak fairness of handling a ready connection and of the push, which the
loop runs at its cadence. `ScreensSpec`: weak fairness of the macro thread and of the
LVGL timer, which the scheduler and the main loop run. `NetSpec`: weak fairness of the worker, its timer, the reset and
the one-second turn of `deneb-mdns`. `ClientsSpec` and `UploadsSpec` state none:
their properties are about safety only.

### The refinement

`ImplementsLifecycle` is the formula `Lifecycle!LifecycleSpec`, where `Lifecycle`
is the instance of `PrintLifecycle` in which `life` is read off the service's job and
cleanup flags and `shown` is its state. TLC checks it in `service_safe`: every
step of the loop, nested turns of macros included, is a lifecycle step or a
stutter. `PrintClients` then uses `PrintLifecycle` as its service.

## Runs that show a disagreement

`thermal_while_heating` checks `AnyFatalFaultAborts` and fails: a thermal error
line that arrives during a heater wait is turned into a serial error and does not
abort the print, where `docs/FAULT_POLICY.md:16` says it does.

`cold_resume` checks `ResumeFailsClosed` and fails: a paused job whose saved nozzle
target is not positive is resumed with the moves and without the reheating
(`motion_policy.c:138`), where `printsvc/README.md:65-66` says that the resume fails
closed. The findings in `PROJECT.json` quote the lines.

## Behaviours a reader of the code may not expect

Met while modelling, each part of the models. None has a run of its own.

Print service:

* A pause during the finish cleanup leaves the nozzle heated at completion
  (`printsvc/README.md:74-77`), and one during a heater wait is shown as preparing
  again (`test_printsvc.c:5375`).
* An unknown-command line ends the job (`docs/FAULT_POLICY.md:21`), and so does one
  response with a wrong check sum (`motion_runtime.c:78`).
* A serial write that fails leaves a packet in flight that nobody sends
  (`motion_sender.c:27-29`). Only a reject of a later packet, while the slot is still
  there, brings it back; a status probe, an `M114` or a body line that is lost this way
  can hang the job, and the abort of a job whose line failed does not drain, since
  `clear_inflight` forgot the number the controller asks for (`job_streamer.c:434`).
* A resynchronisation (`flow_control.c:52`) drops the pending commands for good,
  and a reject during a replay is ignored (`flow_control.c:339`) with no timer to
  ask again.
* A second pause of a parked job overwrites the saved position
  (`pause_resume_control.c:199`), and a read error of the job file is taken for its
  end (`gcode_stream.c:144`).
* No ABORT can interrupt a macro: commands are not read while it runs, and
  `abort_requested` is never set. An automatic abort inside a macro does not stop
  its remaining lines, and a macro that times out leaves its heater wait active.

Clients and uploads:

* The stop guard is never cleared on an idle message (`status_state.c:212-221`, where
  `BACKEND_IPC_PROTOCOL.md:179-180` says so): the web service answers OK to a Stop of
  the next print without sending ABORT.
* An accepted upload that waits on a conflict is deleted when any active episode
  ends, a preheat included (`BACKEND_IPC_PROTOCOL.md:118-120`).
* A JOB the service refuses is answered 201 and its record stays, so later uploads
  get 409; a JOB that times out is answered 503 and its file removed, though the
  service may still start it.
* An aborted print without time left is recorded as completed, and a preheat as a
  stopped print. A print that ends while the web service is down leaves its record.
* "print/resume" of a paused uploaded job is answered 503 (`WEB_UI.md:120`). Cancel on
  the conflict prompt and DELETE send ABORT whatever is printing, and Continue
  starts the record on disk even if the prompt shows another job.
* A waiting archive replaces the running print's thumbnail. A same-named upload is
  copied over the spool file in place. A history file beyond 65,535 bytes is
  rewritten with the new entry alone. A stop of the server leaves temporaries.
  A `.ufp` from USB passes the bounds check unread. Nozzle "0.40" differs from
  "0.4", and an empty `print_core_id` discards `nozzle_size`.

Web service and Digital Factory:

* A connection asking for events beyond `MAX_SSE_CLIENTS` is never closed
  (`docs/WEB_UI.md:71`), and a status longer than the push's buffer (1,056 bytes, the
  cache has 1,536) stops pushes and the closing of lost clients.
* A stop between the saves of a first setup without credentials leaves a printer
  that refuses everyone; a stop inside `save_config` (`O_TRUNC`) opens it. A save that
  cannot open its file, or write it, is answered 200 and shows at the next restart.
* A pairing replaces the only Digest credential, a new password replaces the
  pairing, and a pairing before setup is not saved. An Authorization header beyond
  the first 16 headers is not seen.
* A pairing without a cluster id connects the printer but is not saved: the next dial
  greets the cloud as a new printer, and the next start does not dial. An address that does not parse leaves the last state in
  the status file, and a call on the link that blocks stops the connector for good.
* The connector writes long strings with a header its reader cannot decode, so the
  screen falls back on the status file. `pairing_requested` is never reset. A removal that
  races a connect script leaves a paired service disabled at boot; a disconnect
  during a refresh fails on the port; an upload that times out is reported failed
  although it started.

Screens and network:

* The conflict prompt has no way back: once its record was handled elsewhere both
  buttons fail until another conflict or a restart.
* A levelling screen left between the thread's end and the timer stays MOVING until
  a restart; a timer between `done = 1` and `running = 0` leaves Next disabled until
  the screen is reopened.
* Levelling goes on after a macro that the service refused or that failed, and a
  heating command it refused counts as sent (`backend_comm.c:533`).
* Leaving the change screen during a print sends it `M104 S0`; a set-target
  answered too late, or a restart of the screen's process, leaves the nozzle heated.
* The Ethernet reset runs while an import thread may run, so the committed settings
  can mix both; a failed import leaves staged changes any later commit saves, and a
  rename by the Digital Factory commits whatever half of a plan is staged; an import
  whose unchecked commands fail is reported as done; a cancelled import is not
  observed. The advertiser answers with an address up to a
  second old.

## Proofs

Every invariant and every action property that a passing run checks, and the
refinement, is also proved, for every value of the constants that the `ASSUME`s
of its module allow: windows, tables, stacks, files and budgets of every size.
Each proof module has the same shape. An inductive invariant is stated as a
conjunction of named parts; one lemma per action (or per group of actions that
touch the same part) shows that the action keeps it; one lemma puts these together
for `Next`; and each theorem derives its property from the invariant. The
invariants were checked with TLC on the instances of the runs before they were
proved. Budgets only appear in guards, so no theorem depends on them, apart from the
hypotheses below.

A theorem of the form `H /\ Spec => ...` has a hypothesis `H`. Each names something
that the code does *not* exclude and with which the property fails, or for which the
property is not meant:

| Hypothesis | Says | Why |
|---|---|---|
| `~protoErrors` | the controller rejects with `r` lines | a ProtoError makes the host drop its pending packets (`flow_control.c:52`), and gaps are then normal; the link run covers the rest with both controllers |
| `TimelyClears` | when a job is accepted, aborted or dropped, the unexecuted packets and the answers on the line concern the last `Modulo - 2 * Window` packets, 191 of them | a clear forgets the window and allows the next 32 packets at once; only after about six clears without any answer would an answer's number be ambiguous |
| `OnlyFatal` | at most one fault, or only fatal ones | of two error lines in one turn the later one's code is used |
| `HandsOff` | GCODE commands and macros do not move the head | the service lets them through during a pause |
| `NoHeatByHand` | no resynchronisation, and GCODE commands and macros do not heat | a resynchronisation drops an `M104 S0` of the cleanup |
| `SteadyLine` | no resynchronisation, no failing write, and `HandsOff` | the `M114` of the pause may be dropped, a cleanup given up after a write may still move |
| `NoBedWaits` | GCODE commands and macros do not wait for the bed alone | such a wait replaces the one of the resume |

The configurations of the runs satisfy these hypotheses, except that the link run
goes beyond its theorems in the kind of controller and in its one clear.

### Serial link

`SerialLinkProofs` assumes `FlowAssumption`: a positive window of at most half
the modulus, and nonempty commands.

* `FlowTypeCorrect`: `FlowSpec => []FlowTypeOK`, with the text protocol. The type
  invariant is inductive by itself.
* `LookupAlwaysSound` and `ResendAlwaysUnbroken`: `SyncSpec => []LookupSound` and
  `SyncSpec => []ResendRunUnbroken`. Neither is inductive. `FlowIInv` adds that
  send orders are in the past and distinct (`OrderInv`), that a pending packet is
  one of the last `Window` (`WindowInv`), and that until every slot was used once
  the array fills from the left with the last numbers sent (`FillInv`). The
  argument is about the *age* of a number, how many packets ago it was sent:
  sending makes every number one older (`AgeAfterSend`), and the wrapped
  comparison of `sequence_is_not_newer` is a comparison of ages for packets in the
  window and answerable acknowledgements (`CoverageByAge`), so acknowledging
  removes the old end of an unbroken run. `RoomInWindow` is a counting argument:
  if some slot is not pending, the oldest pending packet is younger than `Window`,
  so the slot a send reuses cannot hold a number that is still needed.
* `ExecutedAlwaysInOrder`, `AcknowledgedAlwaysExecuted`, `AcksAlwaysAnswerable` and
  `LinkKeepsLookup`: the composition with the line and the controller. `Named` turns
  a wrapped number into the send order it stands for. `LinkInv` says that
  what was executed is the packets `0 .. d - 1` and that `expected` names `d`
  (`ControllerInv`); that every packet on the line carries the number of its send
  order, is at most a window older than `d`, and has no much younger one in front
  of it (`WireOK`), so that a packet with the expected number *is* packet `d`; that
  the answers on the line name packets up to `d` in increasing order and none far
  before the oldest waiting packet (`AnswersOK`, `FrontOK`), so that the wrapped
  comparison of an acknowledgement covers only executed packets; and that what is
  marked acknowledged lies before `d` (`AckedInv`). `FlowIInv` is part of it: the
  host's half is used by the replay (`ReplayFits`), and the controller's half
  discharges `Answerable`, on which the host's half rests.

### Print service

`PrintServiceProofs` assumes `ServiceAssumption`.

* `ServiceTypeCorrect`: `ServiceSpec => []ServiceTypeOK`. That policy indices stay
  within their lists is not inductive: the resume list's length depends on
  `pausedNozzle`, which a pause changes, so `ServiceIInv` also says that pause and
  resume exclude each other and that the loop is at the resume policy only while
  it is pending. The macro's own part, `MacroTypeOK`, is preserved beside it
  (`MacroTyped`): the nested turn keeps the macro it will come back to.
* `AlwaysOneLifecycle`: `ServiceSpec => []OneLifecycle`, from the same `ServiceIInv`.
* `ServiceImplementsLifecycle`: `ServiceSpec => ImplementsLifecycle`, the refinement:
  each action maps to a lifecycle step or a stutter in the states of `ServiceIInv`.
* `FatalFaultEndsTheJob` (`OnlyFatal`): `FatalIInv` follows a fatal line from its
  reading to the check of the faults: the job stays active, in the error state and
  without a heater wait until the abort clears the pause.
* `PausedJobIsStill` (`HandsOff`): `StillIInv` adds that the queue and the macro hold
  no move; a job becomes parked only with an empty line.
* `AbortsEndCold` (`NoHeatByHand`): `AbortGoesCold` says for each heater whose off
  command the cleanup has passed that it *goes* cold: the off command is in flight
  with no on command behind it, or the heater is off and nothing in flight changes
  that. Failed writes and replays keep this.
* `PausesSaveFreshPositions` (`SteadyLine`): `FreshSoon` is the same for the position
  report and the moves; `ProbeIInv` ties it to the states of the probe.
* `ResumesWaitForHeat` (`NoBedWaits`): `ResumeIInv` says that the nozzle is among what
  a heated resume waits for.

### Clients and uploads

* `RecordAlwaysHasFile`, `HistoryIsAlwaysOfPrints` and `IdleIsAlwaysNoticed`, from
  `ClientsInv`. `RecordInv` also covers the files that a half-done upload or a
  half-written record still needs. `HistoryInv` compares three moments, when the web
  service last read, when the message in its socket was sent, and now: every change to
  printing between them is a print not yet recorded. `IdleInv` says what each idle
  message ends, the first the retained name and the second the name that is shown; it
  rests on `RestInv`, that an idle service keeps nothing of its last job, and on
  `SlotOK`, that a message waiting in the socket was true when it was sent.
* `NothingIsEverLeftBehind` and `PrintedAlwaysFits`, from `UploadInv`: `TempInv` gives
  for each step of an upload the temporaries that can be there, `SpoolInv` the files
  in the spool that are not yet accepted; the service's pictures, an archive's included,
  belong to uploads that were accepted or to the USB file that prints. `CheckIsSound` proves of the bounds check
  itself that a header that passes fits, for every volume and every combination of
  missing, garbled and infinite bounds.

### Web service

* `NewestAlwaysKept`: `TableOK` says that a table is in order of issue, that its
  expired entries come first, and that an entry that is lost has a full table of live
  younger ones instead of it. Appending, dropping expired entries and
  expiry keep it, for both tables.
* `EventsAlwaysGoToListeners`: `Sockets` adds the type of the push's index and of the
  descriptors; the property is inductive with it.
* `RefusalAlwaysHasAWayIn` and `ProtectionAlwaysPersists`: `SettingsInv` says the same of
  the file as of the settings in force, because a restart loads one into the other,
  with `torn` in the place of `flaws`, and `SavesOfSetup` what each of the saves of a
  setup writes, whichever of them fail.

### Digital Factory

`CloudInv` has five parts: types; which states of the connector go with which states
of the link and of the scripts (`Shape`); the files of a request exist only while it
is handled (`FilesInv`); an open link or a connected state of a connector that is
not being stopped rests on a saved cluster id, if the cloud named one and no uci
command failed (`SavedInv`); and without consent the
service is stopped for good, or the connector has let go of everything
(`ConsentInv`, with `Halted` and `Released`). They give `ConnectedIsAlwaysSaved`,
`FilesAreAlwaysRemoved`, `LinkAlwaysNeedsConsent` and `PinAlwaysNeedsRequest`.

### Screens and network

* `MacrosAlwaysInOrder`: `MacroInv` ties the step shown by the screen, the step the
  thread sends and the last one that was answered to each other in every state of
  the thread's two flags.
* `HeaterIsAlwaysLeftOff`: `Nesting` says that only the prompt covers the change
  screen, so it is open once and its memory of having heated is not overwritten;
  `Remembered` that a nozzle it heated is remembered while it is open.
* `EthernetAlwaysWhole` and `ReportedAlwaysInForce`, from `NetInv`: `EthernetIsWhole` is
  inductive together with how much of its plan an undisturbed worker has staged, saved
  and put in force (`WorkerInv`, with `Progress`), and with `ResetInv`, that a reset and
  an Ethernet import that overlap are both marked as disturbed. A rename commits what is
  staged, with the doubt about it, so it needs no assumption about where the plan is.

### Only model-checked

Liveness (`EverySentExecuted`, `AbortCompletes`, `PauseSettles`, `JobProgresses`,
`ListenerIsClosed`, `StatusConverges`, `LevelMoveEnds`, `AddressConverges`) rests on fairness and is outside this prover's reach. The link
properties with a controller that sends ProtoErrors, and with a clear at any
moment, are checked by the link run only. The two disagreements are TLC's
counterexamples.

## Not modelled

* The motion firmware handshake runs once, alone, before the loop.
* Serial transport, framing and check sums, logging: system calls and bytes; their
  failures are inputs of the models.
* The bytes of JSON, MessagePack, ZIP, PNG, HTTP, TLS, WebSocket and DNS: the models
  keep what the code decides from them.
* Screens that run one command (jogging, language, lights, update, factory reset,
  diagnostics), read-only answers of the web service, drawing, fonts and locale.
* The paths of the print service without a serial port, and its shutdown.
* Installer and release scripts, the Cura plugin and the web site.

Work left: theorems that the controller with ProtoError lines acknowledges only
what it executed; `PausePositionFresh` and `AbortEndsCold` with resynchronisations,
once the code keeps the commands they drop; models of the touch screen's one-command
screens and of the paths of the print service without a port.
