--------------------------- MODULE CloudConnector ---------------------------
(***************************************************************************)
(* The Digital Factory connection: the connector process deneb-dfsvc, the  *)
(* scripts the touch screen starts for Connect and Disconnect, the bridge  *)
(* command they run (deneb-api digital-factory), procd, and the cloud.     *)
(*                                                                         *)
(* They share the saved cluster id, the enabled flag of the service, the   *)
(* pair-request file and the status file, each of which is written by more *)
(* than one of them, and messages the bridge sends to the connector.       *)
(* Each step of a shell script and each turn of the connector's loops is a *)
(* step here; a message that has been read is handled in a later step, so  *)
(* a script can come in between.                                           *)
(***************************************************************************)
EXTENDS Naturals, Sequences, SequencesExt

CONSTANTS
  MaxTaps,     \* bound on what the user does
  MaxFaults,   \* bound on lost links, crashes and reboots
  MaxCloud     \* bound on what the cloud starts by itself

ASSUME CloudAssumption == MaxTaps \in Nat /\ MaxFaults \in Nat /\ MaxCloud \in Nat

VARIABLES
  cluster,    \* ultimaker.option.cluster_id is set
  enabled,    \* the service starts at boot
  instance,   \* procd keeps an instance of it
  pairFile,   \* the pair-request file: "none", "fresh" or "stale"
  statusFile, \* what /tmp/deneb-df-status says
  conn,       \* the connector process
  inbox,      \* requests on its subscription
  script,     \* the script that holds the lock
  refresh,    \* a bridge that only asks for the status runs
  cloud,      \* the cloud's side of the link
  consent,    \* history variable: "none", "bound" or "asked" since a user connected
  temp,       \* temporary files of print requests
  url,        \* ultimaker.option.digitalfactory_url can be parsed
  killed,     \* history variable: a connector was killed since the last boot
  failed,     \* history variable: a uci or init command failed, which nobody notices
  budget

savedVars  == <<cluster, enabled, instance, pairFile>>
scriptVars == <<script, refresh>>
fileVars   == <<temp, killed, url>>
printVars  == <<fileVars, failed>>
cloudVars  == <<savedVars, statusFile, conn, inbox, scriptVars, cloud, consent, printVars,
                budget>>

State == {"disconnected", "enter_pin", "connected", "reconnecting"}
File  == State \cup {"none", "empty", "disconnecting", "timeout", "error"}

Off == [pc |-> "off", want |-> FALSE, pairing |-> FALSE, state |-> "disconnected",
        pin |-> FALSE, stop |-> FALSE, msg |-> "none"]
NoScript == [kind |-> "none", step |-> "none"]
NoLink == "none"

\* An address as parse_url takes it apart: a missing port is the scheme's own.
Url == [scheme : {"wss", "ws", "missing"}, host : {"name", "empty", "long"},
        port : {"missing", "number", "empty", "long"}]
ParseUrl(u) == u.scheme = "wss" /\ u.host = "name" /\ u.port \in {"missing", "number"}

CloudInit ==
  /\ cluster \in BOOLEAN /\ enabled = cluster /\ instance = cluster
  /\ pairFile = "none" /\ statusFile = "none"
  /\ conn = Off /\ inbox = <<>> /\ script = NoScript /\ refresh = FALSE
  /\ cloud = [account |-> IF cluster THEN "bound" ELSE "none", link |-> NoLink,
              named |-> cluster]
  /\ consent = IF cluster THEN "bound" ELSE "none"
  /\ temp = {} /\ killed = FALSE /\ url \in {ParseUrl(u) : u \in Url} /\ failed = FALSE
  /\ budget = [tap |-> MaxTaps, fault |-> MaxFaults, cloud |-> MaxCloud]

Pay(k) == budget[k] > 0 /\ budget' = [budget EXCEPT ![k] = @ - 1]

\* uci_set_option, digital_factory_disable_service and the same commands of the scripts
\* are to leave cluster = c and enabled = e.  Each may fail; nobody looks at the outcome.
SetBinding(c, e, budgeted) ==
  \/ cluster' = c /\ enabled' = e /\ budget' = budgeted /\ UNCHANGED failed
  \/ /\ cluster' \in {cluster, c} /\ enabled' \in {enabled, e}
     /\ <<cluster', enabled'>> # <<c, e>>
     /\ budgeted.fault > 0 /\ budget' = [budgeted EXCEPT !.fault = @ - 1]
     /\ failed' = TRUE

----------------------------------------------------------------------------
(* The strings of the messages between the two processes.                   *)

\* mp_put_str of the bridge and of the connector: the bytes before a string.
BridgeHeader(len) ==
  IF len <= 31 THEN <<160 + len>>
  ELSE IF len <= 255 THEN <<217, len>> ELSE <<218, 205, len \div 256, len % 256>>

ConnectorHeader(len) ==
  IF len <= 31 THEN <<160 + len>> ELSE <<218, 205, len \div 256, len % 256>>

\* mp_read_str, the same in both: the length that header h announces.
AnnouncedLength(h) ==
  IF h[1] \in 160..191 THEN h[1] % 32
  ELSE IF h[1] = 217 THEN h[2] ELSE h[2] * 256 + h[3]

\* The reader refuses a string longer than what is left of the message.
Readable(h, len) == AnnouncedLength(h) <= Len(h) + len

ConnectTarget == 34   \* lengths of the targets' names
StatusTarget  == 35

\* A status message of the connector never gets through read_key_parts, a request
\* of the bridge does.
StatusReaches  == Readable(ConnectorHeader(StatusTarget), StatusTarget)
RequestReaches == Readable(BridgeHeader(ConnectTarget), ConnectTarget)

----------------------------------------------------------------------------
(* The connector. *)

\* publish_status: the file first, then the message nobody can read.
Publish(s) == statusFile' = s

Settle(pc, s) == [conn EXCEPT !.pc = pc, !.state = s, !.pin = FALSE]

\* main up to its loop, started or respawned by procd.
ConnStart ==
  /\ conn.pc = "off" /\ instance
  /\ LET s == IF cluster THEN "reconnecting" ELSE "disconnected" IN
     /\ conn' = [Off EXCEPT !.pc = "idle", !.want = cluster, !.state = s,
                            !.pairing = (pairFile = "fresh")]
     /\ Publish(s)
  /\ inbox' = <<>>
  /\ UNCHANGED <<savedVars, scriptVars, cloud, consent, budget, printVars>>

Asked == \E i \in DOMAIN inbox : inbox[i] = "connect"
Left  == \E i \in DOMAIN inbox : inbox[i] = "disconnect"

\* poll_connector_commands: every waiting request, in order.
PollConnectorCommands ==
  /\ inbox' = <<>>
  /\ pairFile' = IF Asked THEN "fresh" ELSE pairFile
  /\ SetBinding(cluster /\ ~Left, enabled, budget)

WantsAfter == IF inbox = <<>> THEN conn.want ELSE Last(inbox) = "connect"

\* The outer loop: without a wish to be connected it waits; with one it dials, unless the
\* address cannot be parsed, when it shows nothing and tries again in 10 s.
IdleTurn ==
  /\ conn.pc = "idle" /\ ~conn.stop /\ PollConnectorCommands
  /\ \/ /\ url \/ ~WantsAfter
        /\ LET s == IF WantsAfter THEN "reconnecting" ELSE "disconnected" IN
           /\ conn' = [Settle(IF WantsAfter THEN "dial" ELSE "idle", s) EXCEPT
                         !.want = WantsAfter, !.pairing = @ \/ Asked]
           /\ Publish(s)
     \/ /\ ~url /\ WantsAfter /\ UNCHANGED statusFile
        /\ conn' = [conn EXCEPT !.want = TRUE, !.pairing = @ \/ Asked]
  /\ UNCHANGED <<instance, scriptVars, cloud, consent, fileVars>>

Exit ==
  /\ conn.pc = "idle" /\ conn.stop
  /\ conn' = Off /\ Publish("disconnected") /\ inbox' = <<>>
  /\ UNCHANGED <<savedVars, scriptVars, cloud, consent, budget, printVars>>

\* ws_connect fails, or the connection request with the saved id is on its way.
DialFails ==
  /\ conn.pc = "dial" /\ Pay("fault")
  /\ conn' = Settle("idle", "reconnecting") /\ Publish("reconnecting")
  /\ UNCHANGED <<savedVars, inbox, scriptVars, cloud, consent, printVars>>

\* build_connection_request names the cluster the printer belongs to, if any.
ConnectionRequest == IF cluster THEN "greet_known" ELSE "greet_new"

Dial ==
  /\ conn.pc = "dial"
  /\ conn' = [conn EXCEPT !.pc = "online"]
  /\ cloud' = [cloud EXCEPT !.link = ConnectionRequest]
  /\ UNCHANGED <<savedVars, statusFile, inbox, scriptVars, consent, budget, printVars>>

\* The end of the inner loop: the link is freed.  Without a wish to be connected nothing
\* is published before the outer loop goes on; with one the printer is first shown as
\* disconnected and then as reconnecting, and a script may run between the two.
Drop ==
  /\ \/ /\ conn.want /\ conn' = Settle("dropped", "disconnected")
        /\ Publish("disconnected")
     \/ ~conn.want /\ conn' = [conn EXCEPT !.pc = "idle"] /\ UNCHANGED statusFile
  /\ cloud' = [cloud EXCEPT !.link = NoLink]

Reconnects ==
  /\ conn.pc = "dropped"
  /\ conn' = Settle("idle", "reconnecting") /\ Publish("reconnecting")
  /\ UNCHANGED <<savedVars, inbox, scriptVars, cloud, consent, budget, printVars>>

\* The head of the inner loop when it ends.
LeaveOnline ==
  /\ conn.pc = "online" /\ (conn.stop \/ ~conn.want) /\ Drop
  /\ UNCHANGED <<savedVars, inbox, scriptVars, consent, budget, printVars>>

\* Mutant: the status is published only when it changes.
TurnQuiet(due) ==
  /\ conn.pc = "online" /\ ~conn.stop /\ conn.want /\ PollConnectorCommands
  /\ conn' = IF Asked THEN [conn EXCEPT !.pc = "idle", !.want = WantsAfter, !.pairing = TRUE]
             ELSE [conn EXCEPT !.pc = "read", !.want = WantsAfter]
  /\ cloud' = IF Asked THEN [cloud EXCEPT !.link = NoLink] ELSE cloud
  /\ UNCHANGED <<statusFile, instance, scriptVars, consent, fileVars>>

\* A turn of the inner loop.  A connect request drops the link to pair anew; the status
\* is published again when that is due, 5 s after the last time.
Turn(due) ==
  /\ conn.pc = "online" /\ ~conn.stop /\ conn.want /\ PollConnectorCommands
  /\ \/ /\ Asked
        /\ conn' = [conn EXCEPT !.pc = "idle", !.want = WantsAfter, !.pairing = TRUE]
        /\ cloud' = [cloud EXCEPT !.link = NoLink]
        /\ UNCHANGED statusFile
     \/ /\ ~Asked
        /\ conn' = [conn EXCEPT !.pc = "read", !.want = WantsAfter]
        /\ statusFile' = (IF due THEN conn.state ELSE statusFile) /\ UNCHANGED cloud
  /\ UNCHANGED <<instance, scriptVars, consent, fileVars>>

OnlineTurn == \E due \in BOOLEAN : Turn(due)

\* ws_connect, the reads and the writes have no time limit: a call on the link that is
\* never answered does not return.
Blocks ==
  /\ conn.pc \in {"dial", "online", "read"} /\ Pay("fault")
  /\ conn' = [conn EXCEPT !.pc = "stuck"]
  /\ UNCHANGED <<savedVars, statusFile, inbox, scriptVars, cloud, consent, printVars>>

\* The cloud has sent no status request for DF_STATUS_REQUEST_STALE_MS.
StatusStale ==
  /\ conn.pc = "read" /\ conn.state = "connected" /\ Pay("fault")
  /\ conn' = Settle("read", "reconnecting") /\ Publish("reconnecting")
  /\ UNCHANGED <<savedVars, inbox, scriptVars, cloud, consent, printVars>>

\* A ping that fails, nothing received for DF_WS_PING_TIMEOUT_MS, or a close
\* frame: ws_read_text gives -1.
LinkLost ==
  /\ conn.pc = "read" /\ Pay("fault") /\ Drop
  /\ UNCHANGED <<savedVars, inbox, scriptVars, consent, printVars>>

\* A frame of the link, whole when its length is one the reader takes, its bytes arrive
\* and a text still fits the buffer.
Frame == [op : {"text", "continuation", "control", "close", "other"},
          fin : BOOLEAN, whole : BOOLEAN]

\* ws_read_text on the frames that arrive: control frames and unknown ones may come
\* between the parts of a text and are otherwise all that is read.
ReadText(frames) ==
  LET Read[i \in 1..(Len(frames) + 1), inText \in BOOLEAN] ==
        IF i > Len(frames) \/ ~frames[i].whole \/ frames[i].op = "close" THEN "lost"
        ELSE IF frames[i].op \in {"control", "other"}
             THEN IF inText THEN Read[i + 1, TRUE] ELSE "nothing"
        ELSE IF frames[i].op = "continuation" /\ ~inText THEN "lost"
        ELSE IF frames[i].fin THEN "text" ELSE Read[i + 1, TRUE]
  IN  Read[1, FALSE]

Arrives(outcome) == \E frames \in SeqOf(Frame, 2) : ReadText(frames) = outcome

\* Nothing to read for a second, or a control frame.
NothingRead ==
  /\ conn.pc = "read" /\ conn' = [conn EXCEPT !.pc = "online"]
  /\ UNCHANGED <<savedVars, statusFile, inbox, scriptVars, cloud, consent, budget,
                 printVars>>

\* ws_read_text returns a message of the cloud (the operators Cloud... below).
Reads(m) ==
  /\ conn.pc = "read" /\ Arrives("text")
  /\ conn' = [conn EXCEPT !.pc = "handle", !.msg = m]
  /\ UNCHANGED <<savedVars, statusFile, inbox, scriptVars, consent, printVars>>

----------------------------------------------------------------------------
(* handle_cloud_message. *)

Done(s, pin) == [conn EXCEPT !.pc = "online", !.state = s, !.pin = pin, !.msg = "none"]

\* What is left of the user's consent when the connector lets the binding go: a
\* connect that is still on its way.
StillAsked == IF script.kind = "connect" \/ Asked THEN "asked" ELSE "none"

\* Mutant: an unsolicited PIN is shown like one that was asked for.
HandleUnsolicitedPinShows ==
  /\ conn.msg = "pin" /\ ~conn.pairing
  /\ conn' = Done("enter_pin", TRUE) /\ Publish("enter_pin")
  /\ UNCHANGED <<cluster, enabled, failed, budget, pairFile, consent, temp>>

\* A PIN nobody asked for: the cloud does not know the binding any more, and
\* the connector forgets it too.
HandleUnsolicitedPin ==
  /\ conn.msg = "pin" /\ ~conn.pairing
  /\ SetBinding(FALSE, FALSE, budget) /\ pairFile' = "none"
  /\ conn' = [Done("disconnected", FALSE) EXCEPT !.want = FALSE]
  /\ Publish("disconnected") /\ consent' = StillAsked /\ UNCHANGED temp

\* Mutant: the cluster id of the answer is not saved.
HandlePairingUnsaved ==
  /\ (conn.msg = "pin" /\ conn.pairing) \/ conn.msg = "payload"
  /\ pairFile' = "none" /\ conn' = Done("enter_pin", conn.msg = "pin")
  /\ Publish("enter_pin") /\ UNCHANGED <<cluster, enabled, failed, budget, consent, temp>>

\* A PIN, or a pairing answer without one: a cluster id it brings is saved.
HandlePairing ==
  /\ (conn.msg = "pin" /\ conn.pairing) \/ conn.msg = "payload"
  /\ SetBinding(cluster \/ cloud.named, enabled, budget) /\ pairFile' = "none"
  /\ conn' = Done("enter_pin", conn.msg = "pin")
  /\ Publish("enter_pin") /\ UNCHANGED <<consent, temp>>

HandleEstablished ==
  /\ conn.msg = "established"
  /\ conn' = Done("connected", FALSE) /\ Publish("connected")
  /\ UNCHANGED <<cluster, enabled, failed, budget, pairFile, consent, temp>>

\* handle_cluster_account_status: an account, no account while a PIN is shown,
\* and no account otherwise, which ends the process.
HandleAccount ==
  \/ /\ conn.msg = "user"
     /\ conn' = Done("connected", FALSE) /\ Publish("connected") /\ pairFile' = "none"
     /\ UNCHANGED <<cluster, enabled, failed, budget, consent, temp>>
  \/ /\ conn.msg = "no_user" /\ conn.state = "enter_pin"
     /\ conn' = Done(conn.state, conn.pin)
     /\ UNCHANGED <<cluster, enabled, failed, budget, pairFile, statusFile, consent, temp>>
  \/ /\ conn.msg = "no_user" /\ conn.state # "enter_pin"
     /\ conn' = [Done("disconnected", FALSE) EXCEPT !.want = FALSE, !.stop = TRUE]
     /\ SetBinding(FALSE, FALSE, budget) /\ pairFile' = "none"
     /\ Publish("disconnected") /\ consent' = StillAsked /\ UNCHANGED temp

\* printer_action_request: a new name, or a firmware update that is passed on while the
\* printer is idle; both are answered and nothing here depends on them.
HandlePrinterAction ==
  /\ conn.msg = "printer_action" /\ conn' = Done(conn.state, conn.pin)
  /\ UNCHANGED <<cluster, enabled, failed, budget, pairFile, statusFile, consent, temp>>

\* status_request and print_job_action_request are answered from the local API, within
\* its 2 s timeout.
HandleRequest ==
  /\ conn.msg = "request" /\ conn' = Done(conn.state, conn.pin)
  /\ UNCHANGED <<cluster, enabled, failed, budget, pairFile, statusFile, consent, temp>>

Unchanging == UNCHANGED <<cluster, enabled, failed, budget, pairFile, statusFile, consent>>

\* The end of handle_print_request, queued or failed: the download and what was
\* extracted from it are removed.
PrintAnswered == conn' = Done(conn.state, conn.pin) /\ temp' = temp \ {"download", "gcode"}

\* local_api_request: the web service's answer to GET printer/status, or none within 2 s.
ApiAnswer == {"idle", "not_idle", "none"}

\* df_printer_is_idle
PrinterIsIdle(answer) == answer = "idle"

\* handle_print_request: refused unless the printer is idle and the request is
\* complete, else the file is downloaded, for up to a minute.
PrintRequested ==
  /\ conn.msg = "print" /\ Unchanging
  /\ \E answer \in ApiAnswer :
       \/ PrintAnswered
       \/ PrinterIsIdle(answer) /\ conn' = [conn EXCEPT !.msg = "download"] /\ UNCHANGED temp

\* download_file_with_wget leaves a file even when it fails.
PrintDownload ==
  /\ conn.msg = "download" /\ Unchanging
  /\ temp' = temp \cup {"download"}
  /\ \E next \in {"extract", "prepend", "answer"} : conn' = [conn EXCEPT !.msg = next]

\* extract_ufp_model_gcode, for an archive, writes a second file.
PrintExtract ==
  /\ conn.msg = "extract" /\ Unchanging
  /\ temp' = temp \cup {"gcode"}
  /\ \E next \in {"prepend", "answer"} : conn' = [conn EXCEPT !.msg = next]

\* Mutant: a copy that cannot be finished stays.
PrintPrependKeeps ==
  /\ conn.msg \in {"prepend", "rename"} /\ Unchanging
  /\ \/ /\ conn.msg = "prepend" /\ temp' = temp \cup {"meta"}
        /\ conn' = [conn EXCEPT !.msg = "rename"]
     \/ conn.msg = "rename" /\ temp' = temp \ {"meta"} /\ conn' = [conn EXCEPT !.msg = "upload"]
     \/ conn.msg = "rename" /\ UNCHANGED temp /\ conn' = [conn EXCEPT !.msg = "answer"]

\* prepend_file_metadata writes a copy and renames it over the file, or removes it.
PrintPrepend ==
  /\ conn.msg \in {"prepend", "rename"} /\ Unchanging
  /\ \/ /\ conn.msg = "prepend" /\ temp' = temp \cup {"meta"}
        /\ conn' = [conn EXCEPT !.msg = "rename"]
     \/ conn.msg = "prepend" /\ UNCHANGED temp /\ conn' = [conn EXCEPT !.msg = "upload"]
     \/ /\ conn.msg = "rename" /\ temp' = temp \ {"meta"}
        /\ \E next \in {"upload", "answer"} : conn' = [conn EXCEPT !.msg = next]

\* The build volume is validated and local_api_upload_file offers the file to
\* the local API, which may answer too late.
PrintUpload ==
  /\ conn.msg = "upload" /\ Unchanging
  /\ conn' = [conn EXCEPT !.msg = "answer"] /\ UNCHANGED temp

PrintAnswer == conn.msg = "answer" /\ Unchanging /\ PrintAnswered

HandlePrintRequest ==
  \/ PrintRequested \/ PrintDownload \/ PrintExtract \/ PrintPrepend \/ PrintUpload \/ PrintAnswer

HandleCloudMessage ==
  /\ conn.pc = "handle"
  /\ \/ HandleUnsolicitedPin \/ HandlePairing \/ HandleEstablished \/ HandleAccount
     \/ HandleRequest \/ HandlePrinterAction \/ HandlePrintRequest
  /\ UNCHANGED <<instance, inbox, scriptVars, cloud, killed, url>>

----------------------------------------------------------------------------
(* The cloud. *)

\* It answers a connection request: a binding it knows is established, anything
\* else is offered a PIN (or a pairing answer without one), with a new cluster or
\* without an id of one.
CloudAnswers ==
  /\ cloud.link \in {"greet_known", "greet_new"}
  /\ \/ /\ cloud.account = "bound" /\ cloud.link = "greet_known" /\ Reads("established")
        /\ cloud' = [cloud EXCEPT !.link = "open", !.named = TRUE]
     \/ /\ ~(cloud.account = "bound" /\ cloud.link = "greet_known")
        /\ Reads("pin") \/ Reads("payload")
        /\ \E n \in BOOLEAN : cloud' = [account |-> "offered", link |-> "open", named |-> n]
  /\ UNCHANGED budget

\* The user enters the PIN on the web site, or removes the printer there.
CloudAccount ==
  /\ cloud.link = "open" /\ Pay("cloud")
  /\ \/ /\ cloud.account = "offered" /\ Reads("user")
        /\ cloud' = [cloud EXCEPT !.account = "bound"]
     \/ /\ cloud.account \in {"bound", "offered"} /\ Reads("no_user")
        /\ cloud' = [cloud EXCEPT !.account = "none"]

\* The same while the printer is not there to be told.
CloudForgets ==
  /\ cloud.link = NoLink /\ cloud.account # "none" /\ Pay("cloud")
  /\ cloud' = [cloud EXCEPT !.account = "none"]
  /\ UNCHANGED <<savedVars, statusFile, conn, inbox, scriptVars, consent, printVars>>

CloudRequests ==
  /\ cloud.link = "open" /\ cloud.account = "bound" /\ Pay("cloud")
  /\ Reads("request") \/ Reads("printer_action") \/ Reads("print")
  /\ UNCHANGED cloud

----------------------------------------------------------------------------
(* The touch screen's Connect and Disconnect, the scripts and the bridge.   *)

Stopped(c) == IF c.pc = "off" THEN c ELSE [c EXCEPT !.stop = TRUE]

Start(kind, step) == script' = [kind |-> kind, step |-> step]

Tapped == [budget EXCEPT !.tap = @ - 1]

\* connect_cb while a PIN or a connection is shown: only a status bridge.
TapRefresh ==
  /\ script = NoScript /\ ~refresh /\ statusFile \in {"enter_pin", "connected"}
  /\ Pay("tap")
  /\ refresh' = TRUE /\ statusFile' = "empty"
  /\ UNCHANGED <<savedVars, conn, inbox, script, cloud, consent, printVars>>

\* connect_cb otherwise: a shown disconnected state is cleaned up first.
TapConnect ==
  /\ script = NoScript /\ statusFile \notin {"enter_pin", "connected"} /\ budget.tap > 0
  /\ \/ /\ statusFile = "disconnected"
        /\ SetBinding(FALSE, FALSE, Tapped) /\ instance' = FALSE /\ conn' = Stopped(conn)
     \/ statusFile # "disconnected" /\ UNCHANGED <<cluster, instance, enabled, conn, failed>> /\ budget' = Tapped
  /\ statusFile' = "none" /\ pairFile' = "fresh" /\ consent' = "asked"
  /\ Start("connect", "enable")
  /\ UNCHANGED <<inbox, refresh, cloud, fileVars>>

\* disconnect_cb, tapped twice, while there is something to disconnect.
TapDisconnect ==
  /\ script = NoScript /\ Pay("tap")
  /\ cluster \/ statusFile \in {"connected", "reconnecting", "enter_pin"}
  /\ statusFile' = "disconnecting" /\ Start("disconnect", "bridge")
  /\ UNCHANGED <<savedVars, conn, inbox, refresh, cloud, consent, printVars>>

\* The service is enabled and started; then the bridge does the same again
\* (ensure_native_connector_started_for_connect), its output in the status file.  When
\* the bridge finds that a command failed it takes the pair request back and ends.
ScriptEnable ==
  /\ script = [kind |-> "connect", step |-> "enable"]
  /\ \/ /\ enabled' = TRUE /\ instance' = TRUE /\ statusFile' = "empty"
        /\ pairFile' = "fresh" /\ Start("connect", "send")
     \/ /\ enabled' \in {enabled, TRUE} /\ instance' \in {instance, TRUE}
        /\ statusFile' = "error" /\ pairFile' = "none" /\ script' = NoScript
  /\ UNCHANGED <<cluster, conn, inbox, refresh, cloud, consent, budget, printVars>>

ScriptBridge ==
  /\ script = [kind |-> "disconnect", step |-> "bridge"]
  /\ statusFile' = "empty" /\ Start("disconnect", "send")
  /\ UNCHANGED <<savedVars, conn, inbox, refresh, cloud, consent, budget, printVars>>

\* deneb_df_bridge_run: only one bridge can have the port; a request may reach a
\* connector that runs, and is published once: one that does not listen yet misses it.
BridgeSend ==
  /\ script.step = "send"
  /\ \/ /\ refresh /\ statusFile' = "error" /\ script' = NoScript
        /\ UNCHANGED <<inbox, pairFile>>
     \/ /\ ~refresh /\ Start(script.kind, "await") /\ UNCHANGED statusFile
        /\ inbox' \in {inbox} \cup (IF conn.pc = "off" \/ ~RequestReaches THEN {}
                                   ELSE {Append(inbox, script.kind)})
        /\ pairFile' = IF script.kind = "connect" THEN "fresh" ELSE pairFile
  /\ UNCHANGED <<cluster, enabled, instance, conn, refresh, cloud, consent, budget,
                 printVars>>

\* write_result when the time is up: without a message it could read, what the
\* connector wrote to the file meanwhile.
BridgeResult(file) == IF file \in {"empty", "none"} /\ ~StatusReaches THEN "timeout" ELSE file

BridgeEnds ==
  /\ script.step = "await" /\ statusFile' = BridgeResult(statusFile)
  /\ IF script.kind = "connect" THEN script' = NoScript ELSE Start("disconnect", "forget")
  /\ UNCHANGED <<savedVars, conn, inbox, refresh, cloud, consent, budget, printVars>>

RefreshEnds ==
  /\ refresh /\ refresh' = FALSE
  /\ statusFile' = IF ~cluster /\ ~enabled THEN "disconnected" ELSE BridgeResult(statusFile)
  /\ UNCHANGED <<savedVars, conn, inbox, script, cloud, consent, budget, printVars>>

ScriptForget ==
  /\ script.step = "forget" /\ SetBinding(FALSE, enabled, budget)
  /\ Start("disconnect", "halt")
  /\ UNCHANGED <<instance, pairFile, statusFile, conn, inbox, refresh, cloud, consent,
                 fileVars>>

\* Mutant: the script ends without stopping the service.
ScriptHaltKeepsRunning ==
  /\ script.step = "halt" /\ script' = NoScript
  /\ SetBinding(cluster, FALSE, budget) /\ statusFile' = "disconnected" /\ consent' = "none"
  /\ UNCHANGED <<instance, conn, pairFile, inbox, refresh, cloud, fileVars>>

ScriptHalt ==
  /\ script.step = "halt" /\ script' = NoScript
  /\ SetBinding(cluster, FALSE, budget) /\ instance' = FALSE /\ conn' = Stopped(conn)
  /\ statusFile' = "disconnected" /\ consent' = "none"
  /\ UNCHANGED <<pairFile, inbox, refresh, cloud, fileVars>>

----------------------------------------------------------------------------
(* procd, crashes, time. *)

\* A stopped service that does not end is killed; a crash is the same to it.
Kill ==
  /\ conn.pc # "off"
  /\ \/ ~instance /\ conn.stop /\ UNCHANGED budget
     \/ instance /\ Pay("fault")
  /\ killed' = TRUE /\ conn' = Off /\ inbox' = <<>>
  /\ cloud' = [cloud EXCEPT !.link = NoLink]
  /\ UNCHANGED <<savedVars, statusFile, scriptVars, consent, temp, url, failed>>

\* boot() of the init script; /tmp is empty again.
Reboot ==
  /\ Pay("fault")
  /\ instance' = (enabled /\ cluster) /\ enabled' = (enabled /\ cluster)
  /\ pairFile' = "none" /\ statusFile' = "none" /\ conn' = Off /\ inbox' = <<>>
  /\ temp' = {} /\ killed' = FALSE /\ script' = NoScript /\ refresh' = FALSE
  /\ cloud' = [cloud EXCEPT !.link = NoLink]
  /\ UNCHANGED <<cluster, consent, url, failed>>

\* DF_PAIR_REQUEST_TTL_SECONDS pass.
PairFileAges ==
  /\ pairFile = "fresh" /\ script = NoScript /\ pairFile' = "stale"
  /\ UNCHANGED <<cluster, enabled, instance, statusFile, conn, inbox, scriptVars, cloud,
                 consent, budget, printVars>>

----------------------------------------------------------------------------
Connector ==
  \/ ConnStart \/ IdleTurn \/ Exit \/ Dial \/ LeaveOnline \/ Reconnects \/ OnlineTurn
  \/ NothingRead \/ HandleCloudMessage

Scripts == ScriptEnable \/ ScriptBridge \/ BridgeSend \/ BridgeEnds \/ ScriptForget \/ ScriptHalt

CloudNext ==
  \/ Connector \/ DialFails \/ StatusStale \/ LinkLost \/ Blocks
  \/ CloudAnswers \/ CloudAccount \/ CloudForgets \/ CloudRequests
  \/ TapRefresh \/ TapConnect \/ TapDisconnect
  \/ Scripts \/ RefreshEnds \/ Kill \/ Reboot \/ PairFileAges

\* Both loops and the scripts go on by themselves, unless a call on the link blocks;
\* the 5 s pass again and again while the inner loop turns.  The user, the cloud
\* and faults are under no obligation.
CloudSpec ==
  /\ CloudInit /\ [][CloudNext]_cloudVars
  /\ WF_cloudVars(Connector) /\ SF_cloudVars(Turn(TRUE)) /\ WF_cloudVars(Scripts)
  /\ WF_cloudVars(RefreshEnds)

----------------------------------------------------------------------------
\* Once the printer has been disconnected, removed from its account or refused
\* by the cloud, it opens no link again until a user asks for one, whatever
\* restarts, reboots or late messages come in between, as long as the commands that
\* forget the binding work.  A connector that was told to stop may finish a dial.
LinkNeedsConsent ==
  [][conn.pc = "dial" /\ conn'.pc = "online" /\ ~conn.stop /\ ~failed =>
       consent # "none"]_cloudVars

\* A PIN is shown only to a user who asked to pair, although the connector may
\* be told to pair by a message, by a file left by a script or by the cloud; here
\* too a connector that is about to stop and failing commands are the exceptions.
PinNeedsRequest ==
  [][~conn.pin /\ conn'.pin /\ ~conn.stop /\ ~failed => consent = "asked"]_cloudVars

\* A printer the cloud shows as connected under a cluster it has named has that binding
\* saved, so that it is connected again after a restart, unless uci failed; a disconnect
\* in progress is the exception.
ConnectedIsSaved ==
  /\ conn.state = "connected" /\ conn.want /\ ~conn.stop /\ script.kind # "disconnect"
  /\ cloud.named /\ ~failed
  => cluster

\* Whichever step a print request fails at, its downloaded, extracted and rewritten files
\* are gone from the RAM disk when the connector listens again, unless it was killed:
\* the request itself removes two of them, the third has to be gone by then.
NoFilesLeft == conn.pc # "handle" /\ ~killed => temp = {}

\* As long as the connector runs, its address parses and no call on the link blocks, the
\* status file shows the connector's state again and again, whatever the scripts and the
\* bridges wrote over it: a state in which the connector stays does not stay hidden.
StatusConverges ==
  []<>(statusFile = conn.state \/ conn.pc \in {"off", "stuck"} \/ ~url)
=============================================================================
