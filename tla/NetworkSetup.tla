---------------------------- MODULE NetworkSetup ----------------------------
(***************************************************************************)
(* The network settings of the touch screen, and deneb-mdns, which tells   *)
(* the network the printer's address.  wifi_setup.c and eth_setup.c run    *)
(* uci and the init scripts one shell command at a time, and               *)
(* screen_network.c runs them in a worker thread, or, for the reset of the *)
(* Ethernet settings, in the thread of the screen itself.  In another      *)
(* process the cloud connector renames the printer (set_printer_name).     *)
(*                                                                         *)
(* uci keeps what is set in a staging area that every process shares and a *)
(* reboot clears; uci get reads it.  "uci commit" without a package saves  *)
(* all that is staged, whoever staged it, and "uci commit network" what is *)
(* staged of one package.  The settings in force are the ones saved when   *)
(* the network was last restarted.                                         *)
(***************************************************************************)
EXTENDS Naturals, Sequences

CONSTANTS
  MaxTaps,     \* bound on the buttons pressed
  MaxTroubles  \* bound on renames, commands that fail, announcements that are lost and reboots

ASSUME NetworkAssumption == MaxTaps \in Nat /\ MaxTroubles \in Nat

VARIABLES
  uci,     \* the settings staged, saved and in force, by key
  worker,  \* import_thread or wifi_toggle_thread: its plan, how far it is, and its result
  posted,  \* import_done, wifi_toggle_done
  polls,   \* the 200 ms timer that shows the result exists
  reset,   \* next step of eth_setup_clear in the screen's thread, 0 when it does not run
  rename,  \* next commit of set_printer_name, 0 when it does not run
  net,     \* buttons: the ones refresh_buttons disables are enabled; reset: its button shows
  mdns,    \* deneb-mdns: the response it built last, and whether an announcement is due
  heard,   \* the address another machine on the network heard last
  upset,   \* history variable: whether the worker's plan and the reset's were disturbed, by
           \* a command whose failure is not looked at or by one another
  doubt,   \* history variable: the copies of the Ethernet settings that half a plan or a
           \* disturbed one has reached
  budget

mdnsVars  == <<mdns, heard>>
history   == <<upset, doubt>>
setupVars == <<uci, worker, posted, polls, reset, rename, net, history>>
netVars   == <<setupVars, mdnsVars, budget>>

\* wireless.radio0.disabled, wireless.sta.disabled, wireless.sta.ssid, its encryption and
\* key, network.wan.proto, and network.wan.ipaddr with its netmask, gateway and dns.
Key     == {"radio", "sta", "ssid", "key", "proto", "addr"}
Default == [k \in Key |-> IF k = "proto" THEN "dhcp" ELSE "none"]
Wired   == {"proto", "addr"}       \* of the package network, the others of wireless
Idle    == [plan |-> <<>>, at |-> 0, kind |-> "none", ok |-> TRUE]

\* A step of a plan: the result of a checked one ends the plan when the command fails.
Set(k, v)     == [key |-> k, val |-> v, checked |-> FALSE]
Checked(k, v) == [Set(k, v) EXCEPT !.checked = TRUE]

\* wifi.txt, as far as wifi_setup_parse tells its lines apart.
WifiFile == [password : BOOLEAN,
             security : {"missing", "wpa", "wpa2", "wpa3", "wep", "open", "unknown"}]

\* wifi_setup_parse: without a security it knows, a password decides.
Encryption(f) ==
  CASE f.security = "wpa"  -> "psk"
    [] f.security = "wpa2" -> "psk2"
    [] f.security = "wpa3" -> "sae"
    [] f.security = "wep"  -> "wep"
    [] f.security = "open" -> "none"
    [] OTHER -> IF f.password THEN "psk2" ELSE "none"

\* wifi_setup_apply: the old key goes, and an open network gets no other.
WifiPlan(f) ==
  <<Checked("radio", "on"), Checked("ssid", "file"),
    IF f.password /\ Encryption(f) # "none" THEN Checked("key", "file") ELSE Set("key", "none"),
    Set("sta", "on")>>

\* eth_setup_apply with an address in the file
StaticPlan == <<Set("proto", "static"), Set("addr", "file")>>

\* Mutant: the leftovers of a fixed address are not cleared.
DhcpPlanKeepsAddress == <<Set("proto", "dhcp")>>

\* eth_setup_apply without an address in the file, and eth_setup_clear
DhcpPlan == <<Set("proto", "dhcp"), Set("addr", "none")>>

\* eth_setup_parse: an address in eth.txt, under one of its names, makes the plan static.
EthPlan(address) == IF address THEN StaticPlan ELSE DhcpPlan

\* wifi_setup_set_enabled
EnablePlan  == <<Set("radio", "on"), Set("sta", "on")>>
DisablePlan == <<Set("sta", "off"), Set("radio", "off")>>

NetInit ==
  /\ uci = [staged |-> Default, saved |-> Default, inforce |-> Default]
  /\ worker = Idle /\ posted = FALSE /\ polls = FALSE /\ reset = 0 /\ rename = 0
  /\ net = [buttons |-> TRUE, reset |-> FALSE]
  /\ mdns = [response |-> "none", due |-> TRUE] /\ heard = "none"
  /\ upset = [worker |-> FALSE, reset |-> FALSE] /\ doubt = {}
  /\ budget = [tap |-> MaxTaps, trouble |-> MaxTroubles]

Running == worker # Idle

\* refresh_buttons, refresh_wifi_switch
RefreshButtons ==
  net' = [buttons |-> ~Running', reset |-> uci'.staged["proto"] = "static"]

\* network_create; network_destroy waits for an import, but no longer than 3 seconds.
NetworkCreate ==
  UNCHANGED <<uci, worker, posted, polls, reset, rename, history>> /\ RefreshButtons

\* A thread is created; when that fails nothing has changed.
Starts(kind, plan) ==
  /\ ~Running
  /\ worker' = [kind |-> kind, plan |-> plan, at |-> 1, ok |-> TRUE]
  /\ posted' = FALSE /\ polls' = TRUE
  /\ upset' = [upset EXCEPT !.worker = FALSE]
  /\ UNCHANGED <<uci, reset, rename, doubt>>

\* import_wifi_cb, import_eth_cb: the buttons are not refreshed.
ImportWifiCb ==
  \E f \in WifiFile : net.buttons /\ Starts("wifi", WifiPlan(f)) /\ UNCHANGED net
ImportEthCb ==
  \E address \in BOOLEAN : net.buttons /\ Starts("eth", EthPlan(address)) /\ UNCHANGED net

\* wifi_switch_cb: needs a configured network.
WifiSwitchCb ==
  \E plan \in {EnablePlan, DisablePlan} :
    /\ net.buttons /\ uci.staged["ssid"] # "none"
    /\ Starts(IF plan = EnablePlan THEN "on" ELSE "off", plan)
    /\ RefreshButtons

Plan   == worker.plan
Stages == worker.at \in 1..Len(Plan)

\* reset_eth_cb starts eth_setup_clear, whether or not the worker runs.
ResetEthCb ==
  /\ net.reset /\ net.buttons /\ reset = 0
  /\ reset' = 1
  /\ upset' = [worker |-> upset.worker \/ worker.kind = "eth",
               reset  |-> worker.kind = "eth" /\ Stages]
  /\ UNCHANGED <<uci, worker, posted, polls, rename, net, doubt>>

----------------------------------------------------------------------------
(* The commands of a plan. *)

StageStep(step) == [uci EXCEPT !.staged = [@ EXCEPT ![step.key] = step.val]]

\* Mutant: what was staged is never saved.
CommitForgotten == uci

\* uci commit
Commit == [uci EXCEPT !.saved = uci.staged]

\* uci commit network, uci commit wireless
CommitOf(keys) ==
  [uci EXCEPT !.saved = [k \in Key |-> IF k \in keys THEN uci.staged[k] ELSE @[k]]]

\* "network restart" and "wifi reload"; "wifi down" stops the radio and nothing else.
Restart(kind) ==
  IF kind = "off"
  THEN [uci EXCEPT !.inforce =
          [k \in Key |-> IF k \in {"radio", "sta"} THEN uci.saved[k] ELSE @[k]]]
  ELSE [uci EXCEPT !.inforce = uci.saved]

\* The doubt about a copy goes where the copy goes, and the last setting of an undisturbed
\* plan for the Ethernet port removes it.
Passed(from, to) == IF from \in doubt THEN doubt \cup {to} ELSE doubt \ {to}
Staged(last, disturbed) ==
  IF last /\ ~disturbed THEN doubt \ {"staged"} ELSE doubt \cup {"staged"}

NextAt == worker' = [worker EXCEPT !.at = @ + 1]
NetUnchanged == UNCHANGED <<posted, polls, reset, rename, net>>

WorkerSets ==
  /\ Running /\ Stages
  /\ uci' = StageStep(Plan[worker.at]) /\ NextAt
  /\ doubt' = IF worker.kind = "eth" THEN Staged(worker.at = Len(Plan), upset.worker) ELSE doubt
  /\ NetUnchanged /\ UNCHANGED upset

WorkerCommits ==
  /\ worker.at = Len(Plan) + 1 /\ Running
  /\ uci' = Commit /\ NextAt
  /\ doubt' = Passed("staged", "saved")
  /\ NetUnchanged /\ UNCHANGED upset

WorkerRestarts ==
  /\ worker.at = Len(Plan) + 2 /\ Running
  /\ uci' = Restart(worker.kind) /\ NextAt
  /\ doubt' = IF worker.kind = "off" THEN doubt ELSE Passed("saved", "inforce")
  /\ NetUnchanged /\ UNCHANGED upset

\* The result is posted, then the thread is no longer counted as running.
WorkerPosts ==
  /\ worker.at = Len(Plan) + 3 /\ Running
  /\ posted' = TRUE /\ NextAt
  /\ UNCHANGED <<uci, polls, reset, rename, net, history>>

WorkerEnds ==
  /\ worker.at = Len(Plan) + 4 /\ Running
  /\ worker' = Idle
  /\ UNCHANGED <<uci, posted, polls, reset, rename, net, history>>

\* net_find_usb_config finds no drive or no file any more, or the file is of no use: a
\* wifi.txt without an SSID, or with one of blanks.
Unreadable == worker.at = 1 /\ worker.kind \in {"wifi", "eth"}

\* An import that cannot be read, or a command that fails and whose result is looked at:
\* the result is an error, and what is staged stays staged.  The last such command restarts
\* the time daemon.
WorkerGivesUp ==
  /\ Running
  /\ \/ Unreadable
     \/ Stages /\ Plan[worker.at].checked
     \/ worker.at \in {Len(Plan) + 1, Len(Plan) + 2}
     \/ worker.at = Len(Plan) + 3 /\ worker.kind \in {"wifi", "eth"}
  /\ worker' = [worker EXCEPT !.at = Len(Plan) + 3, !.ok = FALSE]
  /\ NetUnchanged /\ UNCHANGED <<uci, history>>

\* A command fails whose result is not looked at.
WorkerMisses ==
  /\ Running /\ Stages /\ ~Plan[worker.at].checked
  /\ NextAt
  /\ upset' = [upset EXCEPT !.worker = TRUE]
  /\ doubt' = IF worker.kind = "eth" THEN doubt \cup {"staged"} ELSE doubt
  /\ NetUnchanged /\ UNCHANGED uci

\* import_poll_timer_cb, wifi_toggle_poll_timer_cb
PollTimer ==
  /\ polls /\ posted /\ reset = 0
  /\ posted' = FALSE /\ polls' = FALSE
  /\ UNCHANGED <<uci, worker, reset, rename, history>>
  /\ RefreshButtons

ResetGoesOn ==
  /\ reset > 0
  /\ reset' = IF reset = Len(DhcpPlan) + 2 THEN 0 ELSE reset + 1
  /\ UNCHANGED <<worker, posted, polls, rename>>
  /\ IF reset' = 0 THEN RefreshButtons ELSE UNCHANGED net

\* eth_setup_clear: its commands, and the end of reset_eth_cb.
ResetStep ==
  /\ \/ /\ reset \in 1..Len(DhcpPlan)
        /\ uci' = StageStep(DhcpPlan[reset])
        /\ doubt' = Staged(reset = Len(DhcpPlan), upset.reset)
     \/ reset = Len(DhcpPlan) + 1 /\ uci' = Commit /\ doubt' = Passed("staged", "saved")
     \/ /\ reset = Len(DhcpPlan) + 2
        /\ uci' = Restart("reset") /\ doubt' = Passed("saved", "inforce")
  /\ ResetGoesOn /\ UNCHANGED upset

\* A command of eth_setup_clear fails: the next one is run.
ResetMisses ==
  /\ UNCHANGED uci /\ ResetGoesOn
  /\ upset' = [upset EXCEPT !.reset = TRUE]
  /\ doubt' = IF reset <= Len(DhcpPlan) THEN doubt \cup {"staged"} ELSE doubt

----------------------------------------------------------------------------
(* Other processes. *)

\* handle_printer_action_request, set_printer_name: the names are staged, and one of them
\* is the ssid of the first wireless interface, the access point's or the station's.
RenameSets ==
  /\ rename = 0 /\ rename' = 1
  /\ uci' \in {uci, StageStep(Set("ssid", "name"))}
  /\ upset' = [upset EXCEPT !.worker = @ \/ (worker.kind = "wifi" /\ uci' # uci)]
  /\ UNCHANGED <<worker, posted, polls, reset, net, doubt>>

\* The commits of network and of wireless; none restarts anything.
RenameCommits ==
  /\ rename > 0
  /\ rename' = IF rename = 2 THEN 0 ELSE 2
  /\ uci' = CommitOf(IF rename = 1 THEN Wired ELSE Key \ Wired)
  /\ doubt' = IF rename = 1 THEN Passed("staged", "saved") ELSE doubt
  /\ UNCHANGED <<worker, posted, polls, reset, net, upset>>

\* A commit fails, and the commands after it are not run.
RenameFails ==
  rename > 0 /\ rename' = 0 /\ UNCHANGED <<uci, worker, posted, polls, reset, net, history>>

\* The printer is switched off and on.
Reboots ==
  /\ uci' = [staged |-> uci.saved, saved |-> uci.saved, inforce |-> uci.saved]
  /\ doubt' = IF "saved" \in doubt THEN {"staged", "saved", "inforce"} ELSE {}
  /\ upset' = [worker |-> FALSE, reset |-> FALSE]
  /\ worker' = Idle /\ posted' = FALSE /\ polls' = FALSE /\ reset' = 0 /\ rename' = 0
  /\ RefreshButtons
  /\ mdns' = [response |-> "none", due |-> TRUE] /\ UNCHANGED heard

----------------------------------------------------------------------------
(* deneb-mdns. *)

\* get_primary_ipv4: the address of the interface with the default route.
Address == IF uci.inforce["proto"] = "static" THEN uci.inforce["addr"] ELSE "lease"

\* Mutant: the first announcement is the only one.
MdnsDueOnce ==
  /\ ~mdns.due /\ mdns.response = "none"
  /\ mdns' = [mdns EXCEPT !.due = TRUE] /\ UNCHANGED heard

\* 30 seconds after the last announcement.
MdnsDue == ~mdns.due /\ mdns' = [mdns EXCEPT !.due = TRUE] /\ UNCHANGED heard

\* A turn of the loop: the response is built from the address of the moment, and sent to
\* everyone when an announcement is due.
MdnsTurn ==
  /\ Address # "none"
  /\ mdns' = [response |-> Address, due |-> FALSE]
  /\ heard' = IF mdns.due THEN Address ELSE heard

MdnsTurnLost ==
  /\ Address # "none" /\ mdns.due
  /\ mdns' = [response |-> Address, due |-> FALSE] /\ UNCHANGED heard

\* Without an address nothing is built, and queries wait.
MdnsNoAddress ==
  Address = "none" /\ mdns' = [mdns EXCEPT !.response = "none"] /\ UNCHANGED heard

\* A query is answered with the response built before the wait, up to a second ago.
MdnsAnswers == mdns.response # "none" /\ heard' = mdns.response /\ UNCHANGED mdns

----------------------------------------------------------------------------
WorkerStep == WorkerSets \/ WorkerCommits \/ WorkerRestarts \/ WorkerPosts \/ WorkerEnds
NetTap     == ImportWifiCb \/ ImportEthCb \/ WifiSwitchCb \/ ResetEthCb
NetTrouble == WorkerGivesUp \/ WorkerMisses \/ ResetMisses \/ RenameSets

Pay(k) == budget[k] > 0 /\ budget' = [budget EXCEPT ![k] = @ - 1]

OfSetup(A)     == A /\ UNCHANGED <<mdnsVars, budget>>
OfAdvertiser(A) == A /\ UNCHANGED <<setupVars, budget>>

NetNext ==
  \/ reset = 0 /\ NetTap /\ Pay("tap") /\ UNCHANGED mdnsVars
  \/ OfSetup(reset = 0 /\ NetworkCreate)
  \/ OfSetup(WorkerStep) \/ OfSetup(PollTimer) \/ OfSetup(ResetStep)
  \/ NetTrouble /\ Pay("trouble") /\ UNCHANGED mdnsVars
  \/ Reboots /\ Pay("trouble")
  \/ OfSetup(RenameCommits) \/ OfSetup(RenameFails)
  \/ OfAdvertiser(MdnsDue) \/ OfAdvertiser(MdnsTurn) \/ OfAdvertiser(MdnsNoAddress)
  \/ OfAdvertiser(MdnsAnswers)
  \/ MdnsTurnLost /\ Pay("trouble") /\ UNCHANGED setupVars

\* Threads run to their end, and the loop of deneb-mdns turns once a second.
NetSpec ==
  /\ NetInit /\ [][NetNext]_netVars
  /\ WF_netVars(OfSetup(WorkerStep)) /\ WF_netVars(OfSetup(PollTimer))
  /\ WF_netVars(OfSetup(ResetStep))
  /\ WF_netVars(OfAdvertiser(MdnsDue)) /\ WF_netVars(OfAdvertiser(mdns.due /\ MdnsTurn))

----------------------------------------------------------------------------
(* Properties. *)

Whole(c) == c["proto"] = "static" <=> c["addr"] # "none"

\* The Ethernet settings that are staged, saved or in force mix two plans, so that there is
\* no address with a static protocol or one with another, only in a copy that half a plan has
\* reached, by a rename that commits in the middle of it, or a plan of which a command failed
\* or that a reset overlapped.  Whatever was disturbed is put right by the commit and the
\* restart of the next import or reset that is not (eth_setup_apply, eth_setup_clear,
\* set_printer_name, "uci commit").
EthernetIsWhole == \A c \in {"staged", "saved", "inforce"} \ doubt : Whole(uci[c])

Achieved(w) == \A i \in DOMAIN w.plan : uci.inforce[w.plan[i].key] = w.plan[i].val

\* What the screen reports as done is in force: when the worker of an import or of the
\* switch posts a success, every setting of its plan has been brought into force, whoever
\* else commits, resets or renames meanwhile.  The exception is a plan that was disturbed: a
\* command failed whose result is not looked at, an Ethernet import overlapped a reset, or a
\* wireless one a rename that writes the same ssid (import_thread, wifi_toggle_thread).
ReportedIsInForce ==
  [][posted' /\ ~posted /\ worker.ok => Achieved(worker) \/ upset.worker]_netVars

\* Whoever listens comes to know the address the printer has, although a query may be
\* answered with the one it had before, and an announcement may be lost (deneb-mdns).
AddressConverges ==
  \A a \in {"lease", "file"} : (Address = a) ~> (heard = a \/ Address # a)
=============================================================================
