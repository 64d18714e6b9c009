------------------------ MODULE CloudConnectorProofs ------------------------
(***************************************************************************)
(* Proofs about CloudConnector, for any number of taps, faults and steps   *)
(* of the cloud.                                                           *)
(***************************************************************************)
EXTENDS CloudConnector, TLAPS

Phase   == {"off", "idle", "dial", "online", "read", "handle", "dropped", "stuck"}
Message == {"none", "pin", "payload", "established", "user", "no_user", "printer_action",
            "request", "print", "download", "extract", "prepend", "rename", "upload", "answer"}
Conn    == [pc : Phase, want : BOOLEAN, pairing : BOOLEAN, state : State, pin : BOOLEAN,
            stop : BOOLEAN, msg : Message]
Script  == [kind : {"none", "connect", "disconnect"},
            step : {"none", "enable", "bridge", "send", "await", "forget", "halt"}]
Cloud   == [account : {"none", "offered", "bound"},
            link : {NoLink, "greet_known", "greet_new", "open"}, named : BOOLEAN]

CloudTypeOK ==
  /\ cluster \in BOOLEAN /\ enabled \in BOOLEAN /\ instance \in BOOLEAN
  /\ failed \in BOOLEAN
  /\ conn \in Conn /\ script \in Script /\ cloud \in Cloud
  /\ inbox \in Seq({"connect", "disconnect"})

\* A connector that does not run has nothing; only one that is online has a link, and only
\* over an open one does it read; each script keeps to its own steps.
Shape ==
  /\ conn.pc = "off" => conn = Off /\ inbox = <<>>
  /\ conn.pc \in {"off", "idle", "dial", "dropped"} => cloud.link = NoLink
  /\ conn.pc = "handle" => cloud.link = "open"
  /\ script.step = "enable" => script.kind = "connect"
  /\ script.step \in {"bridge", "forget", "halt"} => script.kind = "disconnect"
  /\ script.step \in {"send", "await"} => script.kind # "none"

\* The files of a print request are there only while it is handled, and the copy with
\* the metadata only while it is made.
Printing == {"extract", "prepend", "rename", "upload", "answer"}
Made(msg) == IF msg = "rename" THEN {"download", "gcode", "meta"}
             ELSE IF msg \in Printing THEN {"download", "gcode"} ELSE {}
FilesInv ==
  killed \/ temp \subseteq (IF conn.pc = "handle" THEN Made(conn.msg) ELSE {})

\* A disconnect has been sent to the connector, and the script goes on to stop it.
Leaving == script.kind = "disconnect" /\ script.step \in {"await", "forget", "halt"}
Bound   == conn.want /\ ~conn.stop /\ ~Leaving
Pairs   == conn.pc = "handle" /\ conn.msg \in {"pin", "payload"}

\* A request to disconnect is only met by a connector that will be stopped; a link on which
\* the cloud knows the printer, and a connected state, rest on a saved cluster id.
SavedInv ==
  \/ failed
  \/ /\ Left => Leaving \/ conn.stop
     /\ Bound /\ conn.state = "connected" /\ cloud.named => cluster
     /\ Bound /\ cloud.link = "greet_known" => cluster
     /\ Bound /\ cloud.link = "open" /\ ~Pairs /\ cloud.named => cluster

\* Without consent the service is stopped for good, or the connector has let everything go.
Halted   == ~instance /\ ~enabled /\ (conn.stop \/ conn.pc = "off")
Released ==
  ~cluster /\ ~conn.want /\ ~Asked /\ conn.pc \in {"off", "idle", "online", "stuck"}

ConsentInv ==
  \/ failed
  \/ /\ consent = "none" => Halted \/ Released
     /\ script.kind = "connect" => consent = "asked"
     /\ Asked => conn.stop \/ consent = "asked"
     /\ conn.pairing => conn.stop \/ consent = "asked"
     /\ pairFile = "fresh" => ~instance \/ consent = "asked"

\* Without an address there is no link; a link that is dialled or still greets is not yet
\* shown as connected.
GreetInv ==
  /\ ~url => conn.pc \in {"off", "idle"} /\ conn.state # "connected"
  /\ conn.pc = "dial" \/ cloud.link \in {"greet_known", "greet_new"} => conn.state # "connected"

CloudInv == CloudTypeOK /\ Shape /\ FilesInv /\ SavedInv /\ ConsentInv

\* Unless a command fails, the binding and the service are left as they were meant to be.
LEMMA Bindings ==
  ASSUME CloudTypeOK, NEW c \in BOOLEAN, NEW e \in BOOLEAN, NEW b, SetBinding(c, e, b)
  PROVE  /\ cluster' \in BOOLEAN /\ enabled' \in BOOLEAN /\ failed' \in BOOLEAN
         /\ ~failed' => ~failed /\ cluster' = c /\ enabled' = e
<1>1. cluster \in BOOLEAN /\ enabled \in BOOLEAN /\ failed \in BOOLEAN
  BY DEF CloudTypeOK
<1>2. CASE cluster' = c /\ enabled' = e /\ failed' = failed
  BY <1>1, <1>2, Zenon
<1>3. CASE cluster' \in {cluster, c} /\ enabled' \in {enabled, e} /\ failed' = TRUE
  BY <1>1, <1>3, Zenon
<1> QED
  BY <1>2, <1>3 DEF SetBinding

\* What is known of the requests that wait, without looking into the queue.
LEMMA Inbox ==
  ASSUME CloudTypeOK
  PROVE  /\ inbox' = <<>> => ~Asked' /\ ~Left' /\ inbox' \in Seq({"connect", "disconnect"})
         /\ inbox' = inbox => (Asked' <=> Asked) /\ (Left' <=> Left)
         /\ inbox = <<>> => ~Asked /\ ~Left
         /\ inbox # <<>> /\ Last(inbox) = "connect" => Asked
         /\ inbox # <<>> /\ ~Asked => Left
<1>1. inbox \in Seq({"connect", "disconnect"})
  BY DEF CloudTypeOK
<1>2. inbox # <<>> => Len(inbox) \in DOMAIN inbox
  BY <1>1
<1>3. inbox # <<>> => inbox[Len(inbox)] \in {"connect", "disconnect"}
  BY <1>1, <1>2
<1>4. inbox' = <<>> => ~Asked' /\ ~Left' /\ inbox' \in Seq({"connect", "disconnect"})
  BY DEF Asked, Left
<1>5. inbox' = inbox => (Asked' <=> Asked) /\ (Left' <=> Left)
  BY DEF Asked, Left
<1>6. inbox = <<>> => ~Asked /\ ~Left
  BY DEF Asked, Left
<1>7. inbox # <<>> /\ Last(inbox) = "connect" => Asked
  BY <1>2 DEF Asked, Last
<1>8. inbox # <<>> /\ ~Asked => Left
  BY <1>2, <1>3 DEF Asked, Left
<1> QED
  BY <1>4, <1>5, <1>6, <1>7, <1>8

\* At the start no connector runs, and a printer that is bound has its consent.
LEMMA Inits == CloudInit => CloudInv
<1> SUFFICES ASSUME CloudInit PROVE CloudInv
  OBVIOUS
<1>0. cluster \in BOOLEAN /\ cloud \in Cloud /\ cloud.link = NoLink
  BY DEF CloudInit, Cloud, NoLink
<1>b. enabled \in BOOLEAN /\ instance \in BOOLEAN /\ failed \in BOOLEAN
  BY <1>0, Zenon DEF CloudInit
<1>1. CloudTypeOK
  BY <1>0, <1>b DEF CloudInit, CloudTypeOK, Conn, Off, Phase, Message, State, Script,
     NoScript
<1>2. ~Asked /\ ~Left
  BY <1>1, Inbox DEF CloudInit
<1> QED
  BY <1>0, <1>1, <1>2 DEF CloudInit, CloudInv, Shape, FilesInv, SavedInv, ConsentInv,
     Off,
     NoScript, Bound, Halted

\* The wish to connect survives a turn only with a pair request behind it, or with no
\* message that takes it back.
LEMMA Wants ==
  ASSUME CloudTypeOK
  PROVE  /\ WantsAfter \in BOOLEAN /\ (WantsAfter => conn.want \/ Asked)
         /\ WantsAfter /\ ~Asked => inbox = <<>> /\ conn.want
BY Inbox DEF WantsAfter, CloudTypeOK, Conn

\* A connector that starts takes its wish from the saved cluster id and from a fresh
\* pair request, and both rest on a consent.
LEMMA ConnStartInv ==
  ASSUME CloudInv, ConnStart
  PROVE  CloudInv'
<1>1. inbox' = <<>> /\ ~Asked' /\ ~Left' /\ inbox' \in Seq({"connect", "disconnect"})
  BY Inbox DEF CloudInv, ConnStart
<1>3. CloudTypeOK'
  BY <1>1 DEF printVars, fileVars, CloudInv, CloudTypeOK, ConnStart, Conn, Phase,
     State, Off, Message,
     savedVars, scriptVars
<1>4. /\ conn'.pc = "idle" /\ conn'.want = cluster /\ conn'.state # "connected"
      /\ conn'.stop = FALSE /\ (conn'.pairing => pairFile = "fresh")
      /\ UNCHANGED <<cloud, script>>
  BY <1>1 DEF ConnStart, Off, scriptVars
<1>5. Shape'
  BY <1>1, <1>4, Inbox DEF CloudInv, Shape, ConnStart
<1>6. FilesInv'
  BY <1>1, <1>4 DEF CloudInv, FilesInv, Made, Printing, ConnStart, printVars, fileVars
<1>7. SavedInv'
  BY <1>1, <1>4, Inbox DEF CloudInv, Shape, SavedInv, ConnStart, NoLink,
     printVars, fileVars, SetBinding
<1>8. ConsentInv'
  BY <1>1, <1>4 DEF CloudInv, ConsentInv, ConnStart, Halted, Released, savedVars,
     printVars, fileVars, SetBinding
<1> QED
  BY <1>3, <1>5, <1>6, <1>7, <1>8 DEF CloudInv

\* An idle turn dials only when its wish or a message it reads asks for it.
LEMMA IdleTurnInv ==
  ASSUME CloudInv, GreetInv, IdleTurn
  PROVE  CloudInv'
<1>1. inbox' = <<>> /\ ~Asked' /\ ~Left' /\ inbox' \in Seq({"connect", "disconnect"})
  BY Inbox DEF CloudInv, IdleTurn, PollConnectorCommands
<1>2. WantsAfter \in BOOLEAN /\ (WantsAfter => conn.want \/ Asked)
      /\ (WantsAfter /\ ~Asked => inbox = <<>> /\ conn.want)
  BY Wants DEF CloudInv
<1>b. /\ cluster' \in BOOLEAN /\ enabled' \in BOOLEAN /\ failed' \in BOOLEAN
      /\ ~failed' => ~failed /\ cluster' = (cluster /\ ~Left) /\ enabled' = enabled
  <2>1. SetBinding(cluster /\ ~Left, enabled, budget)
    BY DEF IdleTurn, PollConnectorCommands
  <2>2. CloudTypeOK /\ (cluster /\ ~Left) \in BOOLEAN /\ (enabled) \in BOOLEAN
    BY DEF CloudInv, CloudTypeOK, Cloud
  <2> QED
    BY <2>1, <2>2, Bindings
<1>3. CloudTypeOK'
  BY <1>1, <1>b, <1>2 DEF printVars, fileVars, CloudInv, CloudTypeOK, IdleTurn, Conn,
     Phase, State, Settle,
     scriptVars, PollConnectorCommands
<1>4. /\ conn'.pc \in {"dial", "idle"} /\ (conn'.pc = "dial" => WantsAfter)
      /\ (conn'.state = "connected" => conn.state = "connected" /\ ~url)
      /\ conn'.stop = conn.stop /\ conn'.want = WantsAfter
      /\ conn'.pairing => conn.pairing \/ Asked
      /\ UNCHANGED <<cloud, script>>
  BY <1>2, <1>1 DEF CloudInv, CloudTypeOK, IdleTurn, Conn, Settle, scriptVars
<1>5. Shape'
  BY <1>1, <1>4, Inbox DEF CloudInv, Shape, IdleTurn
<1>6. FilesInv'
  BY <1>1, <1>4 DEF CloudInv, FilesInv, Made, Printing, IdleTurn, printVars, fileVars
<1>7. SavedInv'
  BY <1>1, <1>b, <1>2, <1>4, Inbox DEF CloudInv, Shape, SavedInv, IdleTurn, NoLink,
     Bound, Leaving, Pairs, GreetInv
<1>8. ConsentInv'
  BY <1>1, <1>b, <1>2, <1>4 DEF CloudInv, ConsentInv, IdleTurn, Halted, Released,
     PollConnectorCommands
<1> QED
  BY <1>3, <1>5, <1>6, <1>7, <1>8 DEF CloudInv

\* A connector that leaves its loop takes its wish and its link with it.
LEMMA ExitInv ==
  ASSUME CloudInv, Exit
  PROVE  CloudInv'
<1>1. inbox' = <<>> /\ ~Asked' /\ ~Left' /\ inbox' \in Seq({"connect", "disconnect"})
  BY Inbox DEF CloudInv, Exit
<1>3. CloudTypeOK'
  BY <1>1 DEF printVars, fileVars, CloudInv, CloudTypeOK, Exit, Conn, Phase, State,
     Off, Message, savedVars,
     scriptVars
<1>4. /\ conn' = Off /\ conn'.pc = "off" /\ conn'.want = FALSE /\ conn'.state # "connected"
      /\ conn'.stop = FALSE /\ conn'.pairing = FALSE /\ cloud'.link = NoLink
      /\ UNCHANGED <<cloud, script>>
  BY <1>1 DEF CloudInv, Exit, Off, Shape, scriptVars
<1>5. Shape'
  BY <1>1, <1>4, Inbox DEF CloudInv, Shape
<1>6. FilesInv'
  BY <1>1, <1>4 DEF CloudInv, FilesInv, Made, Printing, Exit, printVars, fileVars
<1>7. SavedInv'
  BY <1>1, <1>4, Inbox DEF SavedInv, Bound,
     printVars, fileVars, SetBinding
<1>8. ConsentInv'
  BY <1>1, <1>4 DEF CloudInv, ConsentInv, Exit, Halted, Released, savedVars,
     printVars, fileVars, SetBinding
<1> QED
  BY <1>3, <1>5, <1>6, <1>7, <1>8 DEF CloudInv

\* A failed dial returns to the idle loop and keeps what is saved.
LEMMA DialFailsInv ==
  ASSUME CloudInv, DialFails
  PROVE  CloudInv'
<1>1. inbox' = inbox /\ (Asked' <=> Asked) /\ (Left' <=> Left)
  BY Inbox DEF CloudInv, DialFails
<1>3. CloudTypeOK'
  BY <1>1 DEF printVars, fileVars, CloudInv, CloudTypeOK, DialFails, Conn, Phase,
     State, Settle, savedVars,
     scriptVars
<1>4. /\ conn'.pc = "idle" /\ conn'.state = "reconnecting" /\ UNCHANGED <<cloud, script>>
      /\ conn'.stop = conn.stop /\ conn'.want = conn.want /\ conn'.pairing = conn.pairing
  BY <1>1 DEF DialFails, Settle, scriptVars
<1>5. Shape'
  BY <1>1, <1>4, Inbox DEF CloudInv, Shape, DialFails
<1>6. FilesInv'
  BY <1>1, <1>4 DEF CloudInv, FilesInv, Made, Printing, DialFails, printVars, fileVars
<1>7. SavedInv'
  BY <1>1, <1>4, Inbox DEF CloudInv, Shape, SavedInv, DialFails, Leaving, NoLink,
     printVars, fileVars, SetBinding
<1>8. ConsentInv'
  BY <1>1, <1>4 DEF CloudInv, ConsentInv, DialFails, Halted, Released, savedVars,
     printVars, fileVars, SetBinding
<1> QED
  BY <1>3, <1>5, <1>6, <1>7, <1>8 DEF CloudInv

\* A link is opened for a wish that a consent stands behind, and is not yet shown as
\* connected.
LEMMA DialInv ==
  ASSUME CloudInv, Dial
  PROVE  CloudInv'
<1>1. inbox' = inbox /\ (Asked' <=> Asked) /\ (Left' <=> Left)
  BY Inbox DEF CloudInv, Dial
<1>3. CloudTypeOK'
  BY <1>1 DEF printVars, fileVars, CloudInv, CloudTypeOK, Dial, Conn, Phase, Cloud,
     ConnectionRequest,
     savedVars, scriptVars
<1>4. /\ conn'.pc = "online" /\ conn'.state = conn.state
      /\ cloud'.link = (IF cluster THEN "greet_known" ELSE "greet_new") /\ UNCHANGED script
      /\ conn'.stop = conn.stop /\ conn'.want = conn.want /\ conn'.pairing = conn.pairing
  BY <1>1 DEF Dial, ConnectionRequest, scriptVars
<1>5. Shape'
  BY <1>1, <1>4, Inbox DEF CloudInv, Shape
<1>6. FilesInv'
  BY <1>1, <1>4 DEF CloudInv, FilesInv, Made, Printing, Dial, printVars, fileVars
<1>7. SavedInv'
  BY <1>1, <1>4, Inbox DEF CloudInv, SavedInv, Dial, Bound, Leaving, savedVars,
     printVars, fileVars, SetBinding
<1>8. ConsentInv'
  BY <1>1, <1>4 DEF CloudInv, ConsentInv, Dial, Halted, Released, savedVars,
     printVars, fileVars, SetBinding
<1> QED
  BY <1>3, <1>5, <1>6, <1>7, <1>8 DEF CloudInv

\* Leaving the online loop closes the link and keeps what is saved.
LEMMA LeaveOnlineInv ==
  ASSUME CloudInv, LeaveOnline
  PROVE  CloudInv'
<1>1. inbox' = inbox /\ (Asked' <=> Asked) /\ (Left' <=> Left)
  BY Inbox DEF CloudInv, LeaveOnline
<1>3. CloudTypeOK'
  BY <1>1 DEF printVars, fileVars, CloudInv, CloudTypeOK, LeaveOnline, Drop, Conn,
     Phase, State, Cloud, Settle,
     savedVars, scriptVars
<1>4. /\ conn'.pc \in {"idle", "dropped"} /\ conn'.state \in {conn.state, "disconnected"}
      /\ (conn'.pc = "dropped" => conn.want)
      /\ cloud'.link = NoLink /\ cloud'.named = cloud.named /\ UNCHANGED script
      /\ conn'.stop = conn.stop /\ conn'.want = conn.want /\ conn'.pairing = conn.pairing
  BY <1>1 DEF CloudInv, CloudTypeOK, LeaveOnline, Drop, Conn, Cloud, Settle, scriptVars
<1>5. Shape'
  BY <1>1, <1>4, Inbox DEF CloudInv, Shape
<1>6. FilesInv'
  BY <1>1, <1>4 DEF CloudInv, FilesInv, Made, Printing, LeaveOnline, printVars, fileVars
<1>7. SavedInv'
  BY <1>1, <1>4, Inbox DEF CloudInv, SavedInv, LeaveOnline, Bound, Leaving, Pairs,
     NoLink, savedVars,
     printVars, fileVars, SetBinding
<1>8. ConsentInv'
  BY <1>1, <1>4 DEF CloudInv, ConsentInv, LeaveOnline, Halted, Released, savedVars,
     printVars, fileVars, SetBinding
<1> QED
  BY <1>3, <1>5, <1>6, <1>7, <1>8 DEF CloudInv

\* A turn of the online loop obeys every waiting request; a connect drops the link to
\* pair anew.
LEMMA OnlineTurnInv ==
  ASSUME CloudInv, OnlineTurn
  PROVE  CloudInv'
<1>1. inbox' = <<>> /\ ~Asked' /\ ~Left' /\ inbox' \in Seq({"connect", "disconnect"})
  BY Inbox DEF CloudInv, OnlineTurn, Turn, PollConnectorCommands
<1>2. WantsAfter \in BOOLEAN /\ (WantsAfter => conn.want \/ Asked)
      /\ (WantsAfter /\ ~Asked => inbox = <<>> /\ conn.want)
  BY Wants DEF CloudInv
<1>b. /\ cluster' \in BOOLEAN /\ enabled' \in BOOLEAN /\ failed' \in BOOLEAN
      /\ ~failed' => ~failed /\ cluster' = (cluster /\ ~Left) /\ enabled' = enabled
  <2>1. SetBinding(cluster /\ ~Left, enabled, budget)
    BY DEF OnlineTurn, Turn, PollConnectorCommands
  <2>2. CloudTypeOK /\ (cluster /\ ~Left) \in BOOLEAN /\ (enabled) \in BOOLEAN
    BY DEF CloudInv, CloudTypeOK, Cloud
  <2> QED
    BY <2>1, <2>2, Bindings
<1>3. CloudTypeOK'
  BY <1>1, <1>b, <1>2 DEF printVars, fileVars, CloudInv, CloudTypeOK, OnlineTurn, Turn,
     Conn, Phase, Cloud,
     PollConnectorCommands, scriptVars
<1>4. /\ conn'.pc = (IF Asked THEN "idle" ELSE "read") /\ conn'.state = conn.state
      /\ conn'.want = WantsAfter /\ conn'.stop = conn.stop
      /\ (conn'.pairing => conn.pairing \/ Asked)
      /\ cloud'.link = (IF Asked THEN NoLink ELSE cloud.link)
      /\ cloud'.named = cloud.named /\ UNCHANGED script
  BY <1>2, <1>1 DEF CloudInv, CloudTypeOK, OnlineTurn, Turn, Conn, Cloud, scriptVars
<1>5. Shape'
  BY <1>1, <1>4, Inbox DEF CloudInv, Shape
<1>6. FilesInv'
  BY <1>1, <1>4 DEF CloudInv, FilesInv, Made, Printing, OnlineTurn, Turn, printVars,
     fileVars
<1>7. SavedInv'
  BY <1>1, <1>b, <1>2, <1>4, Inbox DEF CloudInv, SavedInv, OnlineTurn, Turn, Bound,
     Leaving, Pairs,
     NoLink, PollConnectorCommands
<1>8. ConsentInv'
  BY <1>1, <1>b, <1>2, <1>4 DEF CloudInv, ConsentInv, OnlineTurn, Turn, Halted,
     Released,
     PollConnectorCommands
<1> QED
  BY <1>3, <1>5, <1>6, <1>7, <1>8 DEF CloudInv

\* A read that times out changes neither the link nor what is saved.
LEMMA NothingReadInv ==
  ASSUME CloudInv, NothingRead
  PROVE  CloudInv'
<1>1. inbox' = inbox /\ (Asked' <=> Asked) /\ (Left' <=> Left)
  BY Inbox DEF CloudInv, NothingRead
<1>3. CloudTypeOK'
  BY <1>1 DEF printVars, fileVars, CloudInv, CloudTypeOK, NothingRead, Conn, Phase,
     savedVars, scriptVars
<1>4. /\ conn'.pc = "online" /\ conn'.state = conn.state /\ UNCHANGED <<cloud, script>>
      /\ conn'.stop = conn.stop /\ conn'.want = conn.want /\ conn'.pairing = conn.pairing
  BY <1>1 DEF NothingRead, scriptVars
<1>5. Shape'
  BY <1>1, <1>4, Inbox DEF CloudInv, Shape
<1>6. FilesInv'
  BY <1>1, <1>4 DEF CloudInv, FilesInv, Made, Printing, NothingRead, printVars, fileVars
<1>7. SavedInv'
  BY <1>1, <1>4, Inbox DEF CloudInv, SavedInv, NothingRead, Bound, Leaving, Pairs,
     savedVars,
     printVars, fileVars, SetBinding
<1>8. ConsentInv'
  BY <1>1, <1>4 DEF CloudInv, ConsentInv, NothingRead, Halted, Released, savedVars,
     printVars, fileVars, SetBinding
<1> QED
  BY <1>3, <1>5, <1>6, <1>7, <1>8 DEF CloudInv

\* A dropped link is dialled again only for the wish that is still there.
LEMMA ReconnectsInv ==
  ASSUME CloudInv, Reconnects
  PROVE  CloudInv'
<1>1. inbox' = inbox /\ (Asked' <=> Asked) /\ (Left' <=> Left)
  BY Inbox DEF CloudInv, Reconnects
<1>3. CloudTypeOK'
  BY <1>1 DEF printVars, fileVars, CloudInv, CloudTypeOK, Reconnects, Conn, Phase,
     State, Settle, savedVars, scriptVars
<1>4. /\ conn'.pc = "idle" /\ conn'.state = "reconnecting" /\ UNCHANGED <<cloud, script>>
      /\ conn'.stop = conn.stop /\ conn'.want = conn.want /\ conn'.pairing = conn.pairing
  BY <1>1 DEF Reconnects, Settle, scriptVars
<1>5. Shape'
  BY <1>1, <1>4, Inbox DEF CloudInv, Shape, Reconnects
<1>6. FilesInv'
  BY <1>1, <1>4 DEF CloudInv, FilesInv, Made, Printing, Reconnects, printVars, fileVars
<1>7. SavedInv'
  BY <1>1, <1>4, Inbox DEF CloudInv, SavedInv, Reconnects, Bound, Leaving, Pairs,
     savedVars,
     printVars, fileVars, SetBinding
<1>8. ConsentInv'
  BY <1>1, <1>4 DEF CloudInv, ConsentInv, Reconnects, Halted, Released, savedVars,
     printVars, fileVars, SetBinding
<1> QED
  BY <1>3, <1>5, <1>6, <1>7, <1>8 DEF CloudInv

\* A connector that waits for the link for ever keeps what it has.
LEMMA BlocksInv ==
  ASSUME CloudInv, Blocks
  PROVE  CloudInv'
<1>1. inbox' = inbox /\ (Asked' <=> Asked) /\ (Left' <=> Left)
  BY Inbox DEF CloudInv, Blocks
<1>3. CloudTypeOK'
  BY <1>1 DEF printVars, fileVars, CloudInv, CloudTypeOK, Blocks, Conn, Phase,
     savedVars, scriptVars
<1>4. /\ conn'.pc = "stuck" /\ conn.pc \in {"dial", "online", "read"}
      /\ conn'.state = conn.state /\ UNCHANGED <<cloud, script>>
      /\ conn'.stop = conn.stop /\ conn'.want = conn.want /\ conn'.pairing = conn.pairing
  BY <1>1 DEF Blocks, scriptVars
<1>5. Shape'
  BY <1>1, <1>4, Inbox DEF CloudInv, Shape
<1>6. FilesInv'
  BY <1>1, <1>4 DEF CloudInv, FilesInv, Made, Printing, Blocks, printVars, fileVars
<1>7. SavedInv'
  BY <1>1, <1>4, Inbox DEF CloudInv, SavedInv, Blocks, Bound, Leaving, Pairs,
     savedVars,
     printVars, fileVars, SetBinding
<1>8. ConsentInv'
  BY <1>1, <1>4 DEF CloudInv, ConsentInv, Blocks, Halted, Released, savedVars,
     printVars, fileVars, SetBinding
<1> QED
  BY <1>3, <1>5, <1>6, <1>7, <1>8 DEF CloudInv

\* A link without status requests is shown as reconnecting.
LEMMA StatusStaleInv ==
  ASSUME CloudInv, StatusStale
  PROVE  CloudInv'
<1>1. inbox' = inbox /\ (Asked' <=> Asked) /\ (Left' <=> Left)
  BY Inbox DEF CloudInv, StatusStale
<1>3. CloudTypeOK'
  BY <1>1 DEF printVars, fileVars, CloudInv, CloudTypeOK, StatusStale, Conn, State,
     Settle, savedVars,
     scriptVars
<1>4. /\ conn'.pc = "read" /\ conn'.state = "reconnecting" /\ UNCHANGED <<cloud, script>>
      /\ conn'.stop = conn.stop /\ conn'.want = conn.want /\ conn'.pairing = conn.pairing
  BY <1>1 DEF StatusStale, Settle, scriptVars
<1>5. Shape'
  BY <1>1, <1>4, Inbox DEF CloudInv, Shape
<1>6. FilesInv'
  BY <1>1, <1>4 DEF CloudInv, FilesInv, Made, Printing, StatusStale, printVars, fileVars
<1>7. SavedInv'
  BY <1>1, <1>4, Inbox DEF CloudInv, SavedInv, StatusStale, Bound, Leaving, savedVars,
     printVars, fileVars, SetBinding
<1>8. ConsentInv'
  BY <1>1, <1>4 DEF CloudInv, ConsentInv, StatusStale, Halted, Released, savedVars,
     printVars, fileVars, SetBinding
<1> QED
  BY <1>3, <1>5, <1>6, <1>7, <1>8 DEF CloudInv

\* A lost link ends the online loop, and no request is being handled then.
LEMMA LinkLostInv ==
  ASSUME CloudInv, LinkLost
  PROVE  CloudInv'
<1>1. inbox' = inbox /\ (Asked' <=> Asked) /\ (Left' <=> Left)
  BY Inbox DEF CloudInv, LinkLost
<1>3. CloudTypeOK'
  BY <1>1 DEF printVars, fileVars, CloudInv, CloudTypeOK, LinkLost, Drop, Conn, Phase,
     State, Cloud, Settle,
     savedVars, scriptVars
<1>4. /\ conn'.pc \in {"idle", "dropped"} /\ conn'.state \in {conn.state, "disconnected"}
      /\ (conn'.pc = "dropped" => conn.want)
      /\ cloud'.link = NoLink /\ cloud'.named = cloud.named /\ UNCHANGED script
      /\ conn'.stop = conn.stop /\ conn'.want = conn.want /\ conn'.pairing = conn.pairing
  BY <1>1 DEF CloudInv, CloudTypeOK, LinkLost, Drop, Conn, Cloud, Settle, scriptVars
<1>5. Shape'
  BY <1>1, <1>4, Inbox DEF CloudInv, Shape
<1>6. FilesInv'
  BY <1>1, <1>4 DEF CloudInv, FilesInv, Made, Printing, LinkLost, printVars, fileVars
<1>7. SavedInv'
  BY <1>1, <1>4, Inbox DEF CloudInv, SavedInv, LinkLost, Bound, Leaving, Pairs, NoLink,
     savedVars,
     printVars, fileVars, SetBinding
<1>8. ConsentInv'
  BY <1>1, <1>4 DEF CloudInv, ConsentInv, LinkLost, Halted, Released, savedVars,
     printVars, fileVars, SetBinding
<1> QED
  BY <1>3, <1>5, <1>6, <1>7, <1>8 DEF CloudInv

\* An answer of the cloud is read before it is handled, and touches nothing saved.
LEMMA CloudAnswersInv ==
  ASSUME CloudInv, GreetInv, CloudAnswers
  PROVE  CloudInv'
<1>1. inbox' = inbox /\ (Asked' <=> Asked) /\ (Left' <=> Left)
  BY Inbox DEF CloudInv, CloudAnswers, Reads
<1>2. conn \in Conn /\ cloud \in Cloud /\ conn.pc = "read" /\ UNCHANGED <<savedVars, scriptVars, printVars>>
  BY DEF CloudInv, CloudTypeOK, CloudAnswers, Reads
<1>3. PICK m \in {"established", "pin", "payload"} :
        /\ conn' = [conn EXCEPT !.pc = "handle", !.msg = m]
        /\ m = "established" => cloud.link = "greet_known"
        /\ \/ cloud' = [cloud EXCEPT !.link = "open", !.named = TRUE]
           \/ \E n \in BOOLEAN : cloud' = [account |-> "offered", link |-> "open", named |-> n]
  BY DEF CloudAnswers, Reads
<1>4. /\ conn' \in Conn /\ conn'.pc = "handle" /\ conn'.state = conn.state /\ conn'.msg = m
      /\ cloud' \in Cloud /\ cloud'.link = "open"
      /\ conn'.stop = conn.stop /\ conn'.want = conn.want /\ conn'.pairing = conn.pairing
  <2>1. m \in Message /\ "handle" \in Phase
    BY DEF Message, Phase
  <2>2. cloud' \in Cloud /\ cloud'.link = "open"
    <3>1. CASE cloud' = [cloud EXCEPT !.link = "open", !.named = TRUE]
      BY <1>2, <3>1 DEF Cloud
    <3>2. ASSUME NEW n \in BOOLEAN,
                 cloud' = [account |-> "offered", link |-> "open", named |-> n]
          PROVE  cloud' \in Cloud /\ cloud'.link = "open"
      BY <3>2 DEF Cloud
    <3> QED
      BY <1>3, <3>1, <3>2
  <2> QED
    BY <1>2, <1>3, <2>1, <2>2 DEF Conn
<1>g. conn.state # "connected"
  BY DEF GreetInv, CloudAnswers
<1>5. Shape'
  BY <1>1, <1>2, <1>3, <1>4, Inbox DEF CloudInv, Shape, scriptVars
<1>6. FilesInv'
  BY <1>1, <1>2, <1>3, <1>4 DEF CloudInv, FilesInv, Made, Printing, CloudAnswers,
     Reads, printVars, fileVars
<1>7. SavedInv'
  BY <1>1, <1>2, <1>3, <1>4, <1>g, Inbox DEF CloudInv, SavedInv, Bound, Leaving, Pairs,
     scriptVars, savedVars,
     printVars, fileVars, SetBinding
<1>8. ConsentInv'
  BY <1>1, <1>2, <1>3, <1>4 DEF CloudInv, ConsentInv, CloudAnswers, Reads, Halted,
     Released, scriptVars, savedVars,
     printVars, fileVars, SetBinding
<1>9. CloudTypeOK'
  BY <1>1, <1>2, <1>4 DEF printVars, fileVars, CloudInv, CloudTypeOK, savedVars,
     scriptVars
<1> QED
  BY <1>9, <1>5, <1>6, <1>7, <1>8 DEF CloudInv

\* A message about the account is read before it is handled, and touches nothing saved.
LEMMA CloudAccountInv ==
  ASSUME CloudInv, CloudAccount
  PROVE  CloudInv'
<1>1. inbox' = inbox /\ (Asked' <=> Asked) /\ (Left' <=> Left)
  BY Inbox DEF CloudInv, CloudAccount, Reads
<1>3. CloudTypeOK'
  BY <1>1 DEF printVars, fileVars, CloudInv, CloudTypeOK, CloudAccount, Reads, Conn,
     Phase, Cloud, Message,
     savedVars, scriptVars
<1>4. /\ conn.pc = "read" /\ conn'.pc = "handle" /\ conn'.state = conn.state
      /\ UNCHANGED script
      /\ conn'.msg \in {"user", "no_user"} /\ cloud'.link = cloud.link
      /\ cloud'.named = cloud.named /\ cloud.link = "open"
      /\ conn'.stop = conn.stop /\ conn'.want = conn.want /\ conn'.pairing = conn.pairing
  BY <1>1 DEF CloudInv, CloudTypeOK, CloudAccount, Reads, Conn, Cloud, scriptVars
<1>5. Shape'
  BY <1>1, <1>4, Inbox DEF CloudInv, Shape
<1>6. FilesInv'
  BY <1>1, <1>4 DEF CloudInv, FilesInv, Made, Printing, CloudAccount, Reads, printVars,
     fileVars
<1>7. SavedInv'
  BY <1>1, <1>4, Inbox DEF CloudInv, SavedInv, CloudAccount, Reads, Bound, Leaving,
     Pairs, savedVars,
     printVars, fileVars, SetBinding
<1>8. ConsentInv'
  BY <1>1, <1>4 DEF CloudInv, ConsentInv, CloudAccount, Reads, Halted, Released,
     savedVars,
     printVars, fileVars, SetBinding
<1> QED
  BY <1>3, <1>5, <1>6, <1>7, <1>8 DEF CloudInv

\* A request is read only while no other one is handled, so no file of it exists yet.
LEMMA CloudRequestsInv ==
  ASSUME CloudInv, CloudRequests
  PROVE  CloudInv'
<1>1. inbox' = inbox /\ (Asked' <=> Asked) /\ (Left' <=> Left)
  BY Inbox DEF CloudInv, CloudRequests, Reads
<1>3. CloudTypeOK'
  BY <1>1 DEF printVars, fileVars, CloudInv, CloudTypeOK, CloudRequests, Reads, Conn,
     Phase, Message,
     savedVars, scriptVars
<1>4. /\ conn.pc = "read" /\ conn'.pc = "handle" /\ conn'.state = conn.state
      /\ UNCHANGED script
      /\ conn'.msg \in {"request", "printer_action", "print"} /\ cloud' = cloud
      /\ cloud.link = "open"
      /\ conn'.stop = conn.stop /\ conn'.want = conn.want /\ conn'.pairing = conn.pairing
  BY <1>1 DEF CloudInv, CloudTypeOK, CloudRequests, Reads, Conn, scriptVars
<1>5. Shape'
  BY <1>1, <1>4, Inbox DEF CloudInv, Shape
<1>6. FilesInv'
  BY <1>1, <1>4 DEF CloudInv, FilesInv, Made, Printing, CloudRequests, Reads,
     printVars, fileVars
<1>7. SavedInv'
  BY <1>1, <1>4, Inbox DEF CloudInv, SavedInv, CloudRequests, Reads, Bound, Leaving,
     Pairs, savedVars,
     printVars, fileVars, SetBinding
<1>8. ConsentInv'
  BY <1>1, <1>4 DEF CloudInv, ConsentInv, CloudRequests, Reads, Halted, Released,
     savedVars,
     printVars, fileVars, SetBinding
<1> QED
  BY <1>3, <1>5, <1>6, <1>7, <1>8 DEF CloudInv

\* The cloud may drop the printer from the account; the printer learns of it by a
\* message only.
LEMMA CloudForgetsInv ==
  ASSUME CloudInv, CloudForgets
  PROVE  CloudInv'
<1>1. inbox' = inbox /\ (Asked' <=> Asked) /\ (Left' <=> Left)
  BY Inbox DEF CloudInv, CloudForgets
<1>3. CloudTypeOK'
  BY <1>1 DEF printVars, fileVars, CloudInv, CloudTypeOK, CloudForgets, Cloud,
     savedVars, scriptVars
<1>4. /\ UNCHANGED <<conn, script>> /\ cloud'.link = cloud.link
      /\ cloud'.named = cloud.named
  BY <1>1 DEF CloudForgets, scriptVars
<1>5. Shape'
  BY <1>1, <1>4, Inbox DEF CloudInv, Shape
<1>6. FilesInv'
  BY <1>1, <1>4 DEF CloudInv, FilesInv, Made, Printing, CloudForgets, printVars,
     fileVars
<1>7. SavedInv'
  BY <1>1, <1>4, Inbox DEF CloudInv, SavedInv, CloudForgets, Bound, Leaving, Pairs,
     savedVars,
     printVars, fileVars, SetBinding
<1>8. ConsentInv'
  BY <1>1, <1>4 DEF CloudInv, ConsentInv, CloudForgets, Halted, Released, savedVars,
     printVars, fileVars, SetBinding
<1> QED
  BY <1>3, <1>5, <1>6, <1>7, <1>8 DEF CloudInv

\* What every turn of handle_cloud_message leaves alone.
Handling == conn.pc = "handle" /\ UNCHANGED <<instance, inbox, script, cloud, killed>>

\* A handler that is done returns to the online loop with the connector's wish, stop and
\* pairing as they were.
LEMMA DoneFields ==
  ASSUME CloudTypeOK, NEW st \in State, NEW b \in BOOLEAN
  PROVE  /\ Done(st, b) \in Conn /\ Done(st, b).pc = "online" /\ Done(st, b).state = st
         /\ Done(st, b).want = conn.want /\ Done(st, b).stop = conn.stop
         /\ Done(st, b).pairing = conn.pairing /\ Done(st, b).msg = "none"
BY DEF CloudTypeOK, Done, Conn, Phase, Message

\* A PIN nobody asked for makes the connector let its binding go.
LEMMA HandleUnsolicitedPinInv ==
  ASSUME CloudInv, Handling, HandleUnsolicitedPin
  PROVE  CloudInv'
<1>1. inbox' = inbox /\ (Asked' <=> Asked) /\ (Left' <=> Left)
  BY Inbox DEF CloudInv, HandleUnsolicitedPin, Handling
<1>b. /\ cluster' \in BOOLEAN /\ enabled' \in BOOLEAN /\ failed' \in BOOLEAN
      /\ ~failed' => ~failed /\ cluster' = FALSE /\ enabled' = FALSE
  <2>1. SetBinding(FALSE, FALSE, budget)
    BY DEF HandleUnsolicitedPin
  <2>2. CloudTypeOK /\ (FALSE) \in BOOLEAN /\ (FALSE) \in BOOLEAN
    BY DEF CloudInv, CloudTypeOK, Cloud
  <2> QED
    BY <2>1, <2>2, Bindings
<1>3. CloudTypeOK'
  BY <1>1, <1>b DEF printVars, fileVars, CloudInv, CloudTypeOK, HandleUnsolicitedPin,
     Handling, Conn, Phase,
     State, Done, Message
<1>4. /\ conn'.pc = "online" /\ conn'.want = FALSE /\ conn'.state = "disconnected"
      /\ conn'.stop = conn.stop /\ conn'.pairing = conn.pairing
      /\ UNCHANGED <<cloud, script>>
      /\ ~conn.pairing /\ conn.msg = "pin" 
  BY <1>1 DEF HandleUnsolicitedPin, Handling, Done
<1>5. Shape'
  BY <1>1, <1>4, Inbox DEF CloudInv, Shape
<1>6. FilesInv'
  BY <1>1, <1>4 DEF CloudInv, FilesInv, Made, Printing, HandleUnsolicitedPin, Handling
<1>7. SavedInv'
  BY <1>1, <1>b, <1>4, Inbox DEF CloudInv, SavedInv, Bound, Leaving
<1>8. ConsentInv'
  BY <1>1, <1>b, <1>4 DEF ConsentInv, StillAsked, HandleUnsolicitedPin, Released
<1> QED
  BY <1>3, <1>5, <1>6, <1>7, <1>8 DEF CloudInv

\* The cluster id that a PIN or a pairing answer brings is saved.
LEMMA HandlePairingInv ==
  ASSUME CloudInv, Handling, HandlePairing
  PROVE  CloudInv'
<1>1. inbox' = inbox /\ (Asked' <=> Asked) /\ (Left' <=> Left)
  BY Inbox DEF CloudInv, HandlePairing, Handling
<1>b. /\ cluster' \in BOOLEAN /\ enabled' \in BOOLEAN /\ failed' \in BOOLEAN
      /\ ~failed' => ~failed /\ cluster' = (cluster \/ cloud.named) /\ enabled' = enabled
  <2>1. SetBinding(cluster \/ cloud.named, enabled, budget)
    BY DEF HandlePairing
  <2>2. CloudTypeOK /\ (cluster \/ cloud.named) \in BOOLEAN /\ (enabled) \in BOOLEAN
    BY DEF CloudInv, CloudTypeOK, Cloud
  <2> QED
    BY <2>1, <2>2, Bindings
<1>3. CloudTypeOK'
  BY <1>1, <1>b DEF printVars, fileVars, CloudInv, CloudTypeOK, HandlePairing,
     Handling, Conn, Phase, State, Done,
     Message
<1>4. /\ conn'.pc = "online" /\ conn'.state = "enter_pin" /\ UNCHANGED <<cloud, script>>
      /\ conn.msg \in {"pin", "payload"}
      /\ conn'.stop = conn.stop /\ conn'.want = conn.want /\ conn'.pairing = conn.pairing
  BY <1>1 DEF HandlePairing, Handling, Done
<1>5. Shape'
  BY <1>1, <1>4, Inbox DEF CloudInv, Shape
<1>6. FilesInv'
  BY <1>1, <1>4 DEF CloudInv, FilesInv, Made, Printing, HandlePairing, Handling
<1>7. SavedInv'
  BY <1>1, <1>b, <1>4, Inbox DEF CloudInv, SavedInv, HandlePairing, Handling, Bound,
     Leaving, Pairs, Shape
<1>8. ConsentInv'
  BY <1>1, <1>b, <1>4 DEF CloudInv, ConsentInv, HandlePairing, Handling, Halted,
     Released
<1> QED
  BY <1>3, <1>5, <1>6, <1>7, <1>8 DEF CloudInv

\* A binding is established only on a link on which the printer named its saved cluster
\* id.
LEMMA HandleEstablishedInv ==
  ASSUME CloudInv, Handling, HandleEstablished
  PROVE  CloudInv'
<1>1. inbox' = inbox /\ (Asked' <=> Asked) /\ (Left' <=> Left)
  BY Inbox DEF CloudInv, HandleEstablished, Handling
<1>3. CloudTypeOK'
  BY <1>1 DEF printVars, fileVars, CloudInv, CloudTypeOK, HandleEstablished, Handling,
     Conn, Phase, State,
     Done, Message
<1>4. /\ conn'.pc = "online" /\ UNCHANGED <<cloud, script>> /\ conn.msg = "established"
      /\ conn'.stop = conn.stop /\ conn'.want = conn.want /\ conn'.pairing = conn.pairing
  BY <1>1 DEF HandleEstablished, Handling, Done
<1>5. Shape'
  BY <1>1, <1>4, Inbox DEF CloudInv, Shape
<1>6. FilesInv'
  BY <1>1, <1>4 DEF CloudInv, FilesInv, Made, Printing, HandleEstablished, Handling,
     printVars, fileVars, SetBinding
<1>7. SavedInv'
  BY <1>1, <1>4, Inbox DEF CloudInv, Shape, SavedInv, HandleEstablished, Handling,
     Bound, Leaving, Pairs,
     printVars, fileVars, SetBinding
<1>8. ConsentInv'
  BY <1>1, <1>4 DEF CloudInv, ConsentInv, HandleEstablished, Handling, Halted, Released,
     printVars, fileVars, SetBinding
<1> QED
  BY <1>3, <1>5, <1>6, <1>7, <1>8 DEF CloudInv

\* An account connects a printer whose cluster id was saved when it paired; a removal
\* lets the binding go.
LEMMA HandleAccountInv ==
  ASSUME CloudInv, Handling, HandleAccount
  PROVE  CloudInv'
<1>1. inbox' = inbox /\ (Asked' <=> Asked) /\ (Left' <=> Left)
  BY Inbox DEF CloudInv, HandleAccount, Handling
<1>b. cluster' \in BOOLEAN /\ enabled' \in BOOLEAN /\ failed' \in BOOLEAN /\ (~failed' => ~failed)
  BY DEF CloudInv, CloudTypeOK, HandleAccount, SetBinding
<1>3. CloudTypeOK'
  BY <1>1, <1>b DEF printVars, fileVars, CloudInv, CloudTypeOK, HandleAccount,
     Handling, Conn, Phase, State, Done,
     Message
<1>4. /\ conn'.pc = "online" /\ UNCHANGED <<cloud, script>>
      /\ conn.msg \in {"user", "no_user"}
      /\ conn'.pairing = conn.pairing
      /\ \/ conn'.want = conn.want /\ conn'.stop = conn.stop /\ consent' = consent /\ cluster' = cluster
            /\ failed' = failed /\ enabled' = enabled /\ pairFile' \in {pairFile, "none"}
         \/ conn'.want = FALSE /\ conn'.stop = TRUE /\ consent' = StillAsked /\ pairFile' = "none"
            /\ (~failed' => cluster' = FALSE /\ enabled' = FALSE) 
  BY <1>1 DEF CloudInv, CloudTypeOK, HandleAccount, Handling, Conn, Done, SetBinding
<1>5. Shape'
  BY <1>1, <1>4, Inbox DEF CloudInv, Shape
<1>6. FilesInv'
  BY <1>1, <1>4 DEF CloudInv, FilesInv, Made, Printing, HandleAccount, Handling
<1>7. SavedInv'
  BY <1>1, <1>b, <1>4, Inbox DEF CloudInv, Shape, SavedInv, Handling, Bound, Leaving,
     Pairs
<1>8. ConsentInv'
  BY <1>1, <1>b, <1>4 DEF CloudInv, ConsentInv, StillAsked, Handling, Halted, Released
<1> QED
  BY <1>3, <1>5, <1>6, <1>7, <1>8 DEF CloudInv

\* Answering a request for information keeps every file and setting.
LEMMA HandleRequestInv ==
  ASSUME CloudInv, Handling, HandleRequest
  PROVE  CloudInv'
<1>1. inbox' = inbox /\ (Asked' <=> Asked) /\ (Left' <=> Left)
  BY Inbox DEF CloudInv, HandleRequest, Handling
<1>3. CloudTypeOK'
  BY <1>1 DEF printVars, fileVars, CloudInv, CloudTypeOK, HandleRequest, Handling,
     Conn, Phase, Done, Message
<1>4. /\ conn'.pc = "online" /\ UNCHANGED <<cloud, script>> /\ conn.msg = "request"
      /\ conn'.state = conn.state
      /\ conn'.stop = conn.stop /\ conn'.want = conn.want /\ conn'.pairing = conn.pairing
  BY <1>1 DEF HandleRequest, Handling, Done
<1>5. Shape'
  BY <1>1, <1>4, Inbox DEF CloudInv, Shape
<1>6. FilesInv'
  BY <1>1, <1>4 DEF CloudInv, FilesInv, Made, Printing, HandleRequest, Handling,
     printVars, fileVars, SetBinding
<1>7. SavedInv'
  BY <1>1, <1>4, Inbox DEF CloudInv, SavedInv, HandleRequest, Bound, Leaving, Pairs,
     printVars, fileVars, SetBinding
<1>8. ConsentInv'
  BY <1>1, <1>4 DEF CloudInv, ConsentInv, HandleRequest, Handling, Halted, Released,
     printVars, fileVars, SetBinding
<1> QED
  BY <1>3, <1>5, <1>6, <1>7, <1>8 DEF CloudInv

\* Carrying out a printer action keeps every file and setting.
LEMMA HandlePrinterActionInv ==
  ASSUME CloudInv, Handling, HandlePrinterAction
  PROVE  CloudInv'
<1>1. inbox' = inbox /\ (Asked' <=> Asked) /\ (Left' <=> Left)
  BY Inbox DEF CloudInv, HandlePrinterAction, Handling
<1>3. CloudTypeOK'
  BY <1>1 DEF printVars, fileVars, CloudInv, CloudTypeOK, HandlePrinterAction,
     Handling, Conn, Phase, Done,
     Message
<1>4. /\ conn'.pc = "online" /\ UNCHANGED <<cloud, script>>
      /\ conn.msg = "printer_action" /\ conn'.state = conn.state
      /\ conn'.stop = conn.stop /\ conn'.want = conn.want /\ conn'.pairing = conn.pairing
  BY <1>1 DEF HandlePrinterAction, Handling, Done
<1>5. Shape'
  BY <1>1, <1>4, Inbox DEF CloudInv, Shape
<1>6. FilesInv'
  BY <1>1, <1>4 DEF CloudInv, FilesInv, Made, Printing, HandlePrinterAction, Handling,
     printVars, fileVars, SetBinding
<1>7. SavedInv'
  BY <1>1, <1>4, Inbox DEF CloudInv, SavedInv, HandlePrinterAction, Bound, Leaving,
     Pairs,
     printVars, fileVars, SetBinding
<1>8. ConsentInv'
  BY <1>1, <1>4 DEF CloudInv, ConsentInv, HandlePrinterAction, Handling, Halted,
     Released,
     printVars, fileVars, SetBinding
<1> QED
  BY <1>3, <1>5, <1>6, <1>7, <1>8 DEF CloudInv

\* Each step of a print request keeps its files to itself, and the last one removes
\* them.
LEMMA HandlePrintRequestInv ==
  ASSUME CloudInv, Handling, HandlePrintRequest
  PROVE  CloudInv'
<1>1. inbox' = inbox /\ (Asked' <=> Asked) /\ (Left' <=> Left)
  BY Inbox DEF CloudInv, HandlePrintRequest, Handling
<1>2. conn \in Conn /\ CloudTypeOK /\ UNCHANGED <<cloud, script, savedVars, consent, failed>>
  BY DEF CloudInv, CloudTypeOK, Handling, savedVars, HandlePrintRequest,
     PrintRequested, PrintDownload, PrintExtract, PrintPrepend, PrintUpload,
     PrintAnswer, Unchanging
<1>0. conn.pc = "handle" /\ killed' = killed /\ (killed \/ temp \subseteq Made(conn.msg))
  BY DEF CloudInv, FilesInv, Handling
<1>3. /\ \/ conn' = Done(conn.state, conn.pin) /\ (killed \/ temp' = {})
         \/ /\ conn' = [conn EXCEPT !.msg = "download"] /\ temp' = temp
            /\ conn.msg = "print"
         \/ \E m \in Printing : conn' = [conn EXCEPT !.msg = m] /\ (killed \/ temp' \subseteq Made(m))
      /\ conn.msg \notin {"pin", "payload"}
  BY <1>0 DEF HandlePrintRequest, PrintRequested, PrintDownload, PrintExtract,
     PrintPrepend,
     PrintUpload, PrintAnswer, PrintAnswered, Printing, Made
<1>4. /\ conn' \in Conn /\ conn'.pc \in {"online", "handle"} /\ conn'.state = conn.state
      /\ \/ conn'.pc = "online" /\ (killed \/ temp' = {})
         \/ conn'.msg = "download" /\ temp' = temp /\ conn.msg = "print"
         \/ conn'.pc = "handle" /\ conn'.msg \in Printing /\ (killed \/ temp' \subseteq Made(conn'.msg))
      /\ conn'.stop = conn.stop /\ conn'.want = conn.want /\ conn'.pairing = conn.pairing
  <2>1. CASE conn' = Done(conn.state, conn.pin) /\ (killed \/ temp' = {})
    <3>1. conn.state \in State /\ conn.pin \in BOOLEAN
      BY <1>2 DEF Conn
    <3> QED
      BY <1>2, <2>1, <3>1, DoneFields
  <2>2. CASE conn' = [conn EXCEPT !.msg = "download"] /\ temp' = temp /\ conn.msg = "print"
    <3>1. "download" \in Message
      BY DEF Message
    <3> QED
      BY <1>2, <2>2, <3>1 DEF Conn, Handling
  <2>3. CASE \E m \in Printing : conn' = [conn EXCEPT !.msg = m] /\ (killed \/ temp' \subseteq Made(m))
    <3>1. PICK m \in Printing : conn' = [conn EXCEPT !.msg = m] /\ (killed \/ temp' \subseteq Made(m))
      BY <2>3
    <3>2. m \in Message
      BY DEF Message, Printing
    <3> QED
      BY <1>2, <3>1, <3>2 DEF Conn, Handling
  <2> QED
    BY <1>3, <2>1, <2>2, <2>3
<1>5. Shape'
  BY <1>1, <1>2, <1>3, <1>4, Inbox DEF CloudInv, Shape, Handling
<1>6. FilesInv'
  BY <1>0, <1>4 DEF FilesInv, Made, Printing
<1>7. SavedInv'
  BY <1>1, <1>2, <1>3, <1>4, Inbox DEF CloudInv, SavedInv, Bound, Leaving, Pairs,
     savedVars,
     printVars, fileVars, SetBinding
<1>8. ConsentInv'
  BY <1>1, <1>2, <1>3, <1>4 DEF CloudInv, ConsentInv, Handling, Halted, Released,
     savedVars,
     printVars, fileVars, SetBinding
<1>9. CloudTypeOK'
  BY <1>1, <1>2, <1>4 DEF printVars, fileVars, CloudTypeOK, savedVars
<1> QED
  BY <1>9, <1>5, <1>6, <1>7, <1>8 DEF CloudInv

\* procd's stop reaches a running connector as a flag and leaves the rest of it as it
\* is.
LEMMA StoppedFields ==
  ASSUME CloudTypeOK
  PROVE  /\ Stopped(conn) \in Conn /\ Stopped(conn).pc = conn.pc
         /\ Stopped(conn).msg = conn.msg
         /\ IF conn.pc = "off" THEN Stopped(conn) = conn ELSE Stopped(conn).stop
         /\ Stopped(conn).state = conn.state /\ Stopped(conn).want = conn.want
         /\ Stopped(conn).pairing = conn.pairing
BY DEF CloudTypeOK, Stopped, Conn

\* Connect is the consent; what is left of a disconnected service is stopped first.
LEMMA TapConnectInv ==
  ASSUME CloudInv, TapConnect
  PROVE  CloudInv'
<1>1. inbox' = inbox /\ (Asked' <=> Asked) /\ (Left' <=> Left)
  BY Inbox DEF CloudInv, TapConnect
<1>b. /\ cluster' \in BOOLEAN /\ enabled' \in BOOLEAN /\ failed' \in BOOLEAN
      /\ ~failed' => ~failed
  <2>1. SetBinding(FALSE, FALSE, Tapped) \/ UNCHANGED <<cluster, enabled, failed>>
    BY DEF TapConnect
  <2>2. CloudTypeOK
    BY DEF CloudInv
  <2>3. CASE UNCHANGED <<cluster, enabled, failed>>
    BY <2>2, <2>3 DEF CloudTypeOK
  <2> QED
    BY <2>1, <2>2, <2>3, Bindings
<1>3. CloudTypeOK'
  BY <1>1, <1>b, StoppedFields DEF printVars, fileVars, CloudInv, CloudTypeOK,
     TapConnect, Start, Script
<1>4. /\ conn' \in {conn, Stopped(conn)} /\ UNCHANGED cloud
      /\ script' = [kind |-> "connect", step |-> "enable"] /\ consent' = "asked"
      /\ (~failed' => ~failed)
      /\ cluster' = cluster \/ conn' = Stopped(conn)
  BY <1>1, <1>b DEF CloudInv, CloudTypeOK, TapConnect, Start, SetBinding
<1>5. Shape'
  BY <1>1, <1>4, StoppedFields, Inbox DEF CloudInv, Shape
<1>6. FilesInv'
  BY <1>1, <1>4, StoppedFields DEF CloudInv, FilesInv, Made, Printing, TapConnect,
     printVars, fileVars
<1>7. SavedInv'
  BY <1>1, <1>b, <1>4, StoppedFields, Inbox DEF CloudInv, Shape, NoScript, SavedInv,
     TapConnect, Bound, Leaving, Pairs, Off
<1>8. ConsentInv'
  BY <1>1, <1>b, <1>4, StoppedFields DEF ConsentInv
<1> QED
  BY <1>3, <1>5, <1>6, <1>7, <1>8 DEF CloudInv

\* Disconnect starts a script; the cluster id stays until the script removes it.
LEMMA TapDisconnectInv ==
  ASSUME CloudInv, TapDisconnect
  PROVE  CloudInv'
<1>1. inbox' = inbox /\ (Asked' <=> Asked) /\ (Left' <=> Left)
  BY Inbox DEF CloudInv, TapDisconnect
<1>3. CloudTypeOK'
  BY <1>1 DEF printVars, fileVars, CloudInv, CloudTypeOK, TapDisconnect, Script, Start,
     savedVars
<1>4. /\ UNCHANGED <<conn, cloud>> /\ script' = [kind |-> "disconnect", step |-> "bridge"]
  BY <1>1 DEF TapDisconnect, Start
<1>5. Shape'
  BY <1>1, <1>4, Inbox DEF CloudInv, Shape
<1>6. FilesInv'
  BY <1>1, <1>4 DEF CloudInv, FilesInv, Made, Printing, TapDisconnect, printVars,
     fileVars
<1>7. SavedInv'
  BY <1>1, <1>4, Inbox DEF CloudInv, NoScript, SavedInv, TapDisconnect, Bound, Leaving,
     Pairs, savedVars,
     printVars, fileVars, SetBinding
<1>8. ConsentInv'
  BY <1>1, <1>4 DEF CloudInv, ConsentInv, TapDisconnect, Halted, Released, savedVars,
     printVars, fileVars, SetBinding
<1> QED
  BY <1>3, <1>5, <1>6, <1>7, <1>8 DEF CloudInv

\* The connect script enables the service on a consent.
LEMMA ScriptEnableInv ==
  ASSUME CloudInv, ScriptEnable
  PROVE  CloudInv'
<1>1. inbox' = inbox /\ (Asked' <=> Asked) /\ (Left' <=> Left)
  BY Inbox DEF CloudInv, ScriptEnable
<1>b. enabled' \in BOOLEAN /\ instance' \in BOOLEAN
  BY Zenon DEF CloudInv, CloudTypeOK, ScriptEnable
<1>s. script' \in Script /\ UNCHANGED <<cluster, conn, cloud, inbox, failed>>
  <2>1. script' \in {[kind |-> "connect", step |-> "send"], NoScript}
    BY Zenon DEF ScriptEnable, Start
  <2>2. UNCHANGED <<cluster, conn, cloud, inbox, failed>>
    BY DEF ScriptEnable, printVars
  <2> QED
    BY <2>1, <2>2 DEF Script, NoScript
<1>3. CloudTypeOK'
  BY <1>b, <1>s DEF CloudInv, CloudTypeOK
<1>4. /\ UNCHANGED <<conn, cloud>>
      /\ script' \in {[kind |-> "connect", step |-> "send"], NoScript}
      /\ script.kind = "connect" 
  BY <1>1 DEF ScriptEnable, Start
<1>5. Shape'
  BY <1>1, <1>4, Inbox DEF CloudInv, Shape, NoScript
<1>6. FilesInv'
  BY <1>1, <1>4 DEF CloudInv, FilesInv, Made, Printing, ScriptEnable, printVars,
     fileVars
<1>7. SavedInv'
  BY <1>1, <1>4, Inbox DEF CloudInv, SavedInv, ScriptEnable, Bound, Leaving, Pairs,
     NoScript,
     printVars, fileVars, SetBinding
<1>8. ConsentInv'
  BY <1>1, <1>4 DEF CloudInv, ConsentInv, ScriptEnable, NoScript, Halted, Released,
     printVars, fileVars, SetBinding
<1> QED
  BY <1>3, <1>5, <1>6, <1>7, <1>8 DEF CloudInv

\* A script that asks the bridge waits for it.
LEMMA ScriptBridgeInv ==
  ASSUME CloudInv, ScriptBridge
  PROVE  CloudInv'
<1>1. inbox' = inbox /\ (Asked' <=> Asked) /\ (Left' <=> Left)
  BY Inbox DEF CloudInv, ScriptBridge
<1>3. CloudTypeOK'
  BY <1>1 DEF printVars, fileVars, CloudInv, CloudTypeOK, ScriptBridge, Script, Start,
     savedVars
<1>4. /\ UNCHANGED <<conn, cloud>> /\ script' = [kind |-> "disconnect", step |-> "send"]
      /\ script.kind = "disconnect" 
  BY <1>1 DEF ScriptBridge, Start
<1>5. Shape'
  BY <1>1, <1>4, Inbox DEF CloudInv, Shape
<1>6. FilesInv'
  BY <1>1, <1>4 DEF CloudInv, FilesInv, Made, Printing, ScriptBridge, printVars,
     fileVars
<1>7. SavedInv'
  BY <1>1, <1>4, Inbox DEF CloudInv, SavedInv, ScriptBridge, Bound, Leaving, Pairs,
     savedVars,
     printVars, fileVars, SetBinding
<1>8. ConsentInv'
  BY <1>1, <1>4 DEF CloudInv, ConsentInv, ScriptBridge, Halted, Released, savedVars,
     printVars, fileVars, SetBinding
<1> QED
  BY <1>3, <1>5, <1>6, <1>7, <1>8 DEF CloudInv

\* Whether the bridge answered or gave up, the script goes on with its next line.
LEMMA BridgeEndsInv ==
  ASSUME CloudInv, BridgeEnds
  PROVE  CloudInv'
<1>1. inbox' = inbox /\ (Asked' <=> Asked) /\ (Left' <=> Left)
  BY Inbox DEF CloudInv, BridgeEnds
<1>3. CloudTypeOK'
  BY <1>1 DEF printVars, fileVars, CloudInv, CloudTypeOK, BridgeEnds, NoScript, Script,
     Start, savedVars
<1>4. /\ UNCHANGED <<conn, cloud>> /\ script.step = "await"
      /\ \/ script' = [kind |-> "disconnect", step |-> "forget"] /\ script.kind = "disconnect"
         \/ script' = NoScript /\ script.kind = "connect" 
  BY <1>1 DEF CloudInv, CloudTypeOK, BridgeEnds, Shape, Script, Start
<1>5. Shape'
  BY <1>1, <1>4, Inbox DEF CloudInv, Shape, NoScript
<1>6. FilesInv'
  BY <1>1, <1>4 DEF CloudInv, FilesInv, Made, Printing, BridgeEnds, printVars, fileVars
<1>7. SavedInv'
  BY <1>1, <1>4, Inbox DEF CloudInv, SavedInv, BridgeEnds, Bound, Leaving, Pairs,
     savedVars,
     printVars, fileVars, SetBinding
<1>8. ConsentInv'
  BY <1>1, <1>4 DEF CloudInv, ConsentInv, BridgeEnds, Halted, Released, savedVars,
     printVars, fileVars, SetBinding
<1> QED
  BY <1>3, <1>5, <1>6, <1>7, <1>8 DEF CloudInv

\* The disconnect script removes the cluster id of a connector it goes on to stop.
LEMMA ScriptForgetInv ==
  ASSUME CloudInv, ScriptForget
  PROVE  CloudInv'
<1>1. inbox' = inbox /\ (Asked' <=> Asked) /\ (Left' <=> Left)
  BY Inbox DEF CloudInv, ScriptForget
<1>b. /\ cluster' \in BOOLEAN /\ enabled' \in BOOLEAN /\ failed' \in BOOLEAN
      /\ ~failed' => ~failed /\ cluster' = FALSE /\ enabled' = enabled
  <2>1. SetBinding(FALSE, enabled, budget)
    BY DEF ScriptForget
  <2>2. CloudTypeOK /\ (FALSE) \in BOOLEAN /\ (enabled) \in BOOLEAN
    BY DEF CloudInv, CloudTypeOK, Cloud
  <2> QED
    BY <2>1, <2>2, Bindings
<1>3. CloudTypeOK'
  BY <1>1, <1>b DEF printVars, fileVars, CloudInv, CloudTypeOK, ScriptForget, Script,
     Start
<1>4. /\ UNCHANGED <<conn, cloud>> /\ script' = [kind |-> "disconnect", step |-> "halt"]
      /\ script.kind = "disconnect" /\ script.step = "forget" 
  BY <1>1 DEF CloudInv, ScriptForget, Shape, Start
<1>5. Shape'
  BY <1>1, <1>4, Inbox DEF CloudInv, Shape
<1>6. FilesInv'
  BY <1>1, <1>4 DEF CloudInv, FilesInv, Made, Printing, ScriptForget, printVars,
     fileVars
<1>7. SavedInv'
  BY <1>1, <1>b, <1>4, Inbox DEF SavedInv, Bound, Leaving
<1>8. ConsentInv'
  BY <1>1, <1>b, <1>4 DEF CloudInv, ConsentInv, ScriptForget, Halted, Released
<1> QED
  BY <1>3, <1>5, <1>6, <1>7, <1>8 DEF CloudInv

\* The consent ends with the service that the disconnect script stops.
LEMMA ScriptHaltInv ==
  ASSUME CloudInv, ScriptHalt
  PROVE  CloudInv'
<1>1. inbox' = inbox /\ (Asked' <=> Asked) /\ (Left' <=> Left)
  BY Inbox DEF CloudInv, ScriptHalt
<1>b. /\ cluster' \in BOOLEAN /\ enabled' \in BOOLEAN /\ failed' \in BOOLEAN
      /\ ~failed' => ~failed /\ cluster' = cluster /\ enabled' = FALSE
  BY DEF CloudInv, CloudTypeOK, ScriptHalt, SetBinding
<1>3. CloudTypeOK'
  BY <1>1, <1>b, StoppedFields DEF printVars, fileVars, CloudInv, CloudTypeOK,
     ScriptHalt, NoScript, Script
<1>4. /\ conn' = Stopped(conn) /\ script' = NoScript /\ script.kind = "disconnect"
      /\ script.step = "halt" /\ UNCHANGED cloud
  BY <1>1 DEF CloudInv, ScriptHalt, Shape
<1>5. Shape'
  BY <1>1, <1>4, StoppedFields, Inbox DEF CloudInv, Shape, NoScript
<1>6. FilesInv'
  BY <1>1, <1>4, StoppedFields DEF CloudInv, FilesInv, Made, Printing, ScriptHalt,
     printVars, fileVars
<1>7. SavedInv'
  BY <1>1, <1>b, <1>4, StoppedFields, Inbox DEF CloudInv, Shape, SavedInv, Bound, Off
<1>8. ConsentInv'
  BY <1>1, <1>b, <1>4, StoppedFields, Inbox DEF CloudInv, Off, Shape, NoScript,
     ConsentInv,
     ScriptHalt, Halted
<1> QED
  BY <1>3, <1>5, <1>6, <1>7, <1>8 DEF CloudInv

\* A pair request that was not taken up in time is no longer one.
LEMMA PairFileAgesInv ==
  ASSUME CloudInv, PairFileAges
  PROVE  CloudInv'
<1>1. inbox' = inbox /\ (Asked' <=> Asked) /\ (Left' <=> Left)
  BY Inbox DEF CloudInv, PairFileAges
<1>3. CloudTypeOK'
  BY <1>1 DEF printVars, fileVars, CloudInv, CloudTypeOK, PairFileAges, scriptVars
<1>4. /\ UNCHANGED <<conn, cloud, script>>
  BY <1>1 DEF PairFileAges, scriptVars
<1>5. Shape'
  BY <1>1, <1>4, Inbox DEF CloudInv, Shape
<1>6. FilesInv'
  BY <1>1, <1>4 DEF CloudInv, FilesInv, Made, Printing, PairFileAges, printVars,
     fileVars
<1>7. SavedInv'
  BY <1>1, <1>4, Inbox DEF CloudInv, SavedInv, PairFileAges, Bound, Leaving, Pairs,
     printVars, fileVars, SetBinding
<1>8. ConsentInv'
  BY <1>1, <1>4 DEF CloudInv, ConsentInv, PairFileAges, Halted, Released,
     printVars, fileVars, SetBinding
<1> QED
  BY <1>3, <1>5, <1>6, <1>7, <1>8 DEF CloudInv

\* A killed connector leaves its files behind, which killed records.
LEMMA KillInv ==
  ASSUME CloudInv, Kill
  PROVE  CloudInv'
<1>1. inbox' = <<>> /\ ~Asked' /\ ~Left' /\ inbox' \in Seq({"connect", "disconnect"})
  BY Inbox DEF CloudInv, Kill
<1>3. CloudTypeOK'
  BY <1>1 DEF printVars, fileVars, CloudInv, CloudTypeOK, Kill, Conn, Phase, State,
     Off, Message, Cloud,
     savedVars, scriptVars
<1>4. /\ conn' = Off /\ conn'.pc = "off" /\ conn'.want = FALSE /\ conn'.state # "connected"
      /\ conn'.stop = FALSE /\ conn'.pairing = FALSE /\ cloud'.link = NoLink
      /\ UNCHANGED script
  BY <1>1 DEF Kill, Off, scriptVars
<1>5. Shape'
  BY <1>1, <1>4, Inbox DEF CloudInv, Shape
<1>6. FilesInv'
  BY <1>1, <1>4 DEF FilesInv, Made, Printing, Kill,
     printVars, fileVars, SetBinding
<1>7. SavedInv'
  BY <1>1, <1>4, Inbox DEF SavedInv, Bound,
     printVars, fileVars, SetBinding
<1>8. ConsentInv'
  BY <1>1, <1>4 DEF CloudInv, ConsentInv, Kill, Halted, Released, savedVars,
     printVars, fileVars, SetBinding
<1> QED
  BY <1>3, <1>5, <1>6, <1>7, <1>8 DEF CloudInv

\* A reboot empties the RAM disk and starts what is enabled.
LEMMA RebootInv ==
  ASSUME CloudInv, Reboot
  PROVE  CloudInv'
<1>1. inbox' = <<>> /\ ~Asked' /\ ~Left' /\ inbox' \in Seq({"connect", "disconnect"})
  BY Inbox DEF CloudInv, Reboot
<1>3. CloudTypeOK'
  BY <1>1 DEF printVars, fileVars, CloudInv, CloudTypeOK, Reboot, Conn, NoScript,
     Phase, State, Off,
     Message, Cloud, Script
<1>4. /\ conn' = Off /\ conn'.pc = "off" /\ conn'.want = FALSE /\ conn'.state # "connected"
      /\ conn'.stop = FALSE /\ conn'.pairing = FALSE /\ cloud'.link = NoLink
      /\ script' = NoScript
      /\ (instance' => enabled /\ cluster) /\ (enabled' => enabled /\ cluster)
  BY <1>1 DEF CloudInv, CloudTypeOK, Reboot, Off
<1>5. Shape'
  BY <1>1, <1>4, Inbox DEF Shape, NoScript
<1>6. FilesInv'
  BY <1>1, <1>4 DEF FilesInv, Made, Printing, Reboot,
     printVars, fileVars, SetBinding
<1>7. SavedInv'
  BY <1>1, <1>4, Inbox DEF SavedInv, Bound,
     printVars, fileVars, SetBinding
<1>8. ConsentInv'
  BY <1>1, <1>4 DEF CloudInv, NoScript, ConsentInv, Reboot, Halted, Released,
     printVars, fileVars, SetBinding
<1> QED
  BY <1>3, <1>5, <1>6, <1>7, <1>8 DEF CloudInv

\* A request of the bridge joins the others.
LEMMA Sent ==
  ASSUME CloudTypeOK, script.kind # "none", inbox' \in {inbox, Append(inbox, script.kind)}
  PROVE  /\ inbox' \in Seq({"connect", "disconnect"})
         /\ Asked' => Asked \/ script.kind = "connect"
         /\ Left' => Left \/ script.kind = "disconnect"
<1>1. inbox \in Seq({"connect", "disconnect"}) /\ script.kind \in {"connect", "disconnect"}
  BY DEF CloudTypeOK, Script
<1>2. CASE inbox' = inbox
  BY <1>1, <1>2, Inbox
<1>3. CASE inbox' = Append(inbox, script.kind)
  <2>1. inbox' \in Seq({"connect", "disconnect"}) /\ Len(inbox') = Len(inbox) + 1
    BY <1>1, <1>3
  <2>2. \A i \in DOMAIN inbox' :
              (i \in DOMAIN inbox /\ inbox'[i] = inbox[i]) \/ inbox'[i] = script.kind
    BY <1>1, <1>3, <2>1
  <2> QED
    BY <1>1, <2>1, <2>2 DEF Asked, Left
<1> QED
  BY <1>2, <1>3

\* A message of the bridge asks for no more than the script it belongs to.
LEMMA BridgeSendInv ==
  ASSUME CloudInv, BridgeSend
  PROVE  CloudInv'
<1>1. /\ UNCHANGED <<cluster, enabled, instance, conn, cloud, consent, printVars>>
      /\ script \in Script /\ script.step = "send" /\ script.kind # "none" /\ CloudTypeOK
  BY DEF CloudInv, CloudTypeOK, Shape, BridgeSend
<1>2. \/ script' = NoScript /\ inbox' = inbox /\ pairFile' = pairFile
      \/ /\ script' = [kind |-> script.kind, step |-> "await"]
         /\ inbox' = inbox \/ (conn.pc # "off" /\ inbox' = Append(inbox, script.kind))
         /\ pairFile' = pairFile \/ (pairFile' = "fresh" /\ script.kind = "connect")
  BY DEF BridgeSend, Start
<1>3. /\ inbox' \in Seq({"connect", "disconnect"})
      /\ Asked' => Asked \/ script.kind = "connect"
      /\ Left' => Left \/ (script'.kind = "disconnect" /\ script'.step = "await")
      /\ conn.pc = "off" => inbox' = inbox
  <2>1. CASE script' = NoScript /\ inbox' = inbox
    BY <1>1, <2>1, Sent, Inbox
  <2>2. CASE /\ script' = [kind |-> script.kind, step |-> "await"]
             /\ inbox' = inbox \/ (conn.pc # "off" /\ inbox' = Append(inbox, script.kind))
    BY <1>1, <2>2, Sent
  <2> QED
    BY <1>2, <2>1, <2>2
<1>4. CloudTypeOK'
  BY <1>1, <1>2, <1>3 DEF CloudTypeOK, Script, NoScript, printVars
<1>5. Shape'
  BY <1>1, <1>2, <1>3 DEF CloudInv, Shape, NoScript
<1>6. FilesInv'
  BY <1>1 DEF CloudInv, FilesInv, Made, Printing, printVars, fileVars
<1>7. SavedInv'
  BY <1>1, <1>2, <1>3 DEF CloudInv, SavedInv, Bound, Leaving, Pairs,
     printVars, fileVars, SetBinding
<1>8. ConsentInv'
  BY <1>1, <1>2, <1>3 DEF CloudInv, ConsentInv, Halted, Released, NoScript,
     printVars, fileVars, SetBinding
<1> QED
  BY <1>4, <1>5, <1>6, <1>7, <1>8 DEF CloudInv

\* The invariant does not look at the status file or at the budgets.
LEMMA CloudQuiet ==
  ASSUME CloudInv, UNCHANGED <<savedVars, conn, inbox, script, cloud, consent, printVars>>
  PROVE  CloudInv'
<1>1. (Asked' <=> Asked) /\ (Left' <=> Left)
  BY Inbox DEF CloudInv
<1> QED
  BY <1>1 DEF CloudInv, CloudTypeOK, Shape, FilesInv, SavedInv, ConsentInv, Bound,
     Leaving, Pairs, Halted, Released, savedVars, printVars, fileVars

\* Every step of users, scripts, bridge, connector, cloud and procd keeps the invariant.
LEMMA CloudInvNext == CloudInv /\ GreetInv /\ [CloudNext]_cloudVars => CloudInv'
<1> SUFFICES ASSUME CloudInv, GreetInv, [CloudNext]_cloudVars PROVE CloudInv'
  OBVIOUS
<1>1. CASE Connector
  <2>1. CASE HandleCloudMessage
    <3>1. Handling
      BY <2>1 DEF HandleCloudMessage, Handling, scriptVars
    <3> QED
      BY <2>1, <3>1, HandleUnsolicitedPinInv, HandlePairingInv, HandleEstablishedInv,
         HandleAccountInv, HandleRequestInv, HandlePrinterActionInv,
         HandlePrintRequestInv DEF HandleCloudMessage
  <2> QED
    BY <1>1, <2>1, ConnStartInv, IdleTurnInv, ExitInv, DialInv, LeaveOnlineInv,
       OnlineTurnInv, NothingReadInv, ReconnectsInv DEF Connector
<1>2. CASE DialFails \/ StatusStale \/ LinkLost \/ Blocks
  BY <1>2, DialFailsInv, StatusStaleInv, LinkLostInv, BlocksInv
<1>3. CASE CloudAnswers \/ CloudAccount \/ CloudForgets \/ CloudRequests
  BY <1>3, CloudAnswersInv, CloudAccountInv, CloudForgetsInv, CloudRequestsInv
<1>4. CASE TapRefresh \/ RefreshEnds
  BY <1>4, CloudQuiet DEF TapRefresh, RefreshEnds
<1>5. CASE TapConnect \/ TapDisconnect
  BY <1>5, TapConnectInv, TapDisconnectInv
<1>6. CASE Scripts
  BY <1>6, ScriptEnableInv, ScriptBridgeInv, BridgeSendInv, BridgeEndsInv,
     ScriptForgetInv, ScriptHaltInv DEF Scripts
<1>7. CASE Kill \/ Reboot \/ PairFileAges
  BY <1>7, KillInv, RebootInv, PairFileAgesInv
<1>8. CASE UNCHANGED cloudVars
  BY <1>8, CloudQuiet DEF cloudVars, scriptVars
<1> QED
  BY <1>1, <1>2, <1>3, <1>4, <1>5, <1>6, <1>7, <1>8 DEF CloudNext

\* Nothing here changes the address.
LEMMA AddressStays ==
  ASSUME [CloudNext]_cloudVars
  PROVE  url' = url
<1>1. CASE Connector
  BY <1>1, Zenon DEF Connector, ConnStart, IdleTurn, Exit, Dial, LeaveOnline,
     Reconnects,
     OnlineTurn, Turn, NothingRead, HandleCloudMessage, printVars, fileVars
<1>2. CASE DialFails \/ StatusStale \/ LinkLost \/ Blocks
  BY <1>2, Zenon DEF DialFails, StatusStale, LinkLost, Blocks, printVars, fileVars
<1>3. CASE CloudAnswers \/ CloudAccount \/ CloudForgets \/ CloudRequests
  BY <1>3, Zenon DEF CloudAnswers, CloudAccount, CloudForgets, CloudRequests, Reads,
     printVars,
     fileVars
<1>4. CASE TapRefresh \/ TapConnect \/ TapDisconnect \/ RefreshEnds \/ UNCHANGED cloudVars
  BY <1>4, Zenon DEF TapRefresh, TapConnect, TapDisconnect, RefreshEnds, cloudVars,
     printVars,
     fileVars
<1>5. CASE Scripts
  BY <1>5, Zenon DEF Scripts, ScriptEnable, ScriptBridge, BridgeSend, BridgeEnds,
     ScriptForget,
     ScriptHalt, printVars, fileVars
<1>6. CASE Kill \/ Reboot \/ PairFileAges
  BY <1>6, Zenon DEF Kill, Reboot, PairFileAges, printVars, fileVars
<1> QED
  BY <1>1, <1>2, <1>3, <1>4, <1>5, <1>6 DEF CloudNext

\* What is shown while the connector dials and greets is kept by every step.
LEMMA GreetInvNext == CloudInv /\ GreetInv /\ [CloudNext]_cloudVars => GreetInv'
<1> SUFFICES ASSUME CloudInv, GreetInv, [CloudNext]_cloudVars PROVE GreetInv'
  OBVIOUS
<1>1. conn \in Conn /\ cloud \in Cloud /\ url' = url /\ CloudTypeOK
  BY AddressStays DEF CloudInv, CloudTypeOK
<1>2. (conn.pc = "handle" => cloud.link = "open") /\ (conn.pc \in {"off", "idle", "dial", "dropped"} => cloud.link = NoLink)
  BY DEF CloudInv, Shape
<1>3. CASE UNCHANGED <<conn, cloud>>
  BY <1>1, <1>3 DEF GreetInv
<1>4. CASE Connector
  <2>1. CASE HandleCloudMessage
    <3>1. conn.pc = "handle" /\ cloud' = cloud
      BY <2>1 DEF HandleCloudMessage
    <3>2. conn'.pc # "dial"
      <4>1. CASE HandlePrintRequest
        <5>1. conn' = Done(conn.state, conn.pin) \/ \E m : conn' = [conn EXCEPT !.msg = m]
          BY <4>1 DEF HandlePrintRequest, PrintRequested, PrintDownload, PrintExtract,
             PrintPrepend, PrintUpload, PrintAnswer, PrintAnswered
        <5> QED
          BY <1>1, <3>1, <5>1 DEF Done, Conn
      <4>2. CASE HandleUnsolicitedPin \/ HandlePairing \/ HandleEstablished \/ HandleAccount
        BY <1>1, <4>2 DEF HandleUnsolicitedPin, HandlePairing, HandleEstablished,
           HandleAccount,
           Done, Conn
      <4>3. CASE HandleRequest \/ HandlePrinterAction
        BY <1>1, <4>3 DEF HandleRequest, HandlePrinterAction, Done, Conn
      <4> QED
        BY <2>1, <4>1, <4>2, <4>3 DEF HandleCloudMessage
    <3> QED
      BY <1>1, <1>2, <3>1, <3>2 DEF GreetInv
  <2>2. CASE ConnStart \/ Exit
    <3>1. conn'.pc \in {"off", "idle"} /\ conn'.state # "connected" /\ cloud' = cloud
      <4>1. CASE ConnStart
        BY <4>1 DEF ConnStart, Off
      <4>2. CASE Exit
        BY <4>2 DEF Exit, Off
      <4> QED
        BY <2>2, <4>1, <4>2
    <3> QED
      BY <1>1, <3>1 DEF GreetInv
  <2>3. CASE IdleTurn
    BY <1>1, <1>2, <2>3, Wants DEF IdleTurn, Settle, GreetInv, Conn, NoLink
  <2>4. CASE Dial \/ Reconnects \/ NothingRead
    BY <1>1, <1>2, <2>4 DEF Dial, Reconnects, NothingRead, Settle, GreetInv, Conn,
       Cloud, NoLink
  <2>5. CASE LeaveOnline \/ OnlineTurn
    BY <1>1, <1>2, <2>5 DEF LeaveOnline, Drop, OnlineTurn, Turn, Settle, GreetInv,
       Conn, Cloud, NoLink
  <2> QED
    BY <1>4, <2>1, <2>2, <2>3, <2>4, <2>5 DEF Connector
<1>5. CASE DialFails \/ StatusStale \/ LinkLost \/ Blocks
  BY <1>1, <1>2, <1>5 DEF DialFails, StatusStale, LinkLost, Drop, Blocks, Settle,
     GreetInv, Conn, Cloud, NoLink
<1>6. CASE CloudAnswers \/ CloudAccount \/ CloudForgets \/ CloudRequests
  BY <1>1, <1>2, <1>6 DEF CloudAnswers, CloudAccount, CloudForgets, CloudRequests,
     Reads, GreetInv, Conn, Cloud, NoLink
<1>7. CASE TapConnect \/ ScriptHalt
  <2>1. cloud' = cloud /\ (conn' = conn \/ conn' = Stopped(conn))
    BY <1>7 DEF TapConnect, ScriptHalt
  <2> QED
    BY <1>1, <2>1, StoppedFields DEF GreetInv
<1>8. CASE Kill \/ Reboot
  BY <1>1, <1>8 DEF Kill, Reboot, Off, GreetInv, Cloud, NoLink
<1>9. CASE TapRefresh \/ RefreshEnds \/ TapDisconnect \/ PairFileAges \/ UNCHANGED cloudVars
  BY <1>3, <1>9 DEF TapRefresh, RefreshEnds, TapDisconnect, PairFileAges, cloudVars
<1>10. CASE ScriptEnable \/ ScriptBridge \/ BridgeSend \/ BridgeEnds \/ ScriptForget
  BY <1>3, <1>10 DEF ScriptEnable, ScriptBridge, BridgeSend, BridgeEnds, ScriptForget
<1> QED
  BY <1>4, <1>5, <1>6, <1>7, <1>8, <1>9, <1>10 DEF CloudNext, Scripts

\* Only a PIN that the connector was told to ask for is shown.
LEMMA PinShown ==
  ASSUME conn \in Conn, [CloudNext]_cloudVars, ~conn.pin, conn'.pin
  PROVE  HandlePairing /\ conn.pairing
<1>1. conn' # conn /\ conn' # Off
  BY DEF Off
<1>4. CASE Connector
  <2>1. CASE HandleCloudMessage
    <3>1. conn.state \in State
      BY DEF Conn
    <3>2. CASE HandlePairing
      <4>1. conn.msg = "pin"
        BY <3>2 DEF HandlePairing, Done, Conn
      <4> QED
        BY <3>2, <4>1 DEF HandlePairing
    <3>3. CASE HandleUnsolicitedPin \/ HandleAccount
      BY <3>3 DEF HandleUnsolicitedPin, HandleAccount, Done, Conn
    <3>4. CASE HandleEstablished \/ HandleRequest \/ HandlePrinterAction
      BY <3>4 DEF HandleEstablished, HandleRequest, HandlePrinterAction, Done, Conn
    <3>5. CASE HandlePrintRequest
      <4>1. conn' = Done(conn.state, conn.pin) \/ \E m : conn' = [conn EXCEPT !.msg = m]
        BY <3>5 DEF HandlePrintRequest, PrintRequested, PrintDownload, PrintExtract,
           PrintPrepend, PrintUpload, PrintAnswer, PrintAnswered
      <4> QED
        BY <4>1 DEF Done, Conn
    <3> QED
      BY <2>1, <3>2, <3>3, <3>4, <3>5 DEF HandleCloudMessage
  <2>2. CASE ConnStart \/ IdleTurn \/ Exit
    BY <1>1, <2>2 DEF ConnStart, IdleTurn, Exit, Off, Settle, Conn
  <2>3. CASE Dial \/ LeaveOnline \/ Reconnects \/ OnlineTurn \/ NothingRead
    BY <2>3 DEF Dial, LeaveOnline, Drop, Reconnects, OnlineTurn, Turn, NothingRead,
       Settle, Conn
  <2> QED
    BY <1>4, <2>1, <2>2, <2>3 DEF Connector
<1>5. CASE DialFails \/ StatusStale \/ LinkLost \/ Blocks
  BY <1>5 DEF DialFails, StatusStale, LinkLost, Drop, Blocks, Settle, Conn
<1>6. CASE CloudAnswers \/ CloudAccount \/ CloudForgets \/ CloudRequests
  <2>1. \E m : Reads(m) \/ conn' = conn
    BY <1>6 DEF CloudAnswers, CloudAccount, CloudForgets, CloudRequests
  <2> QED
    BY <1>1, <2>1 DEF Reads, Conn
<1>7. CASE TapConnect \/ ScriptHalt
  <2>1. conn' = conn \/ conn' = Stopped(conn)
    BY <1>7 DEF TapConnect, ScriptHalt
  <2> QED
    BY <1>1, <2>1 DEF Stopped, Conn
<1>8. CASE TapRefresh \/ RefreshEnds \/ TapDisconnect \/ PairFileAges \/ UNCHANGED cloudVars
  BY <1>1, <1>8 DEF TapRefresh, RefreshEnds, TapDisconnect, PairFileAges, cloudVars
<1>9. CASE ScriptEnable \/ ScriptBridge \/ BridgeSend \/ BridgeEnds \/ ScriptForget
  BY <1>1, <1>9 DEF ScriptEnable, ScriptBridge, BridgeSend, BridgeEnds, ScriptForget
<1>10. CASE Kill \/ Reboot
  BY <1>1, <1>10 DEF Kill, Reboot
<1> QED
  BY <1>4, <1>5, <1>6, <1>7, <1>8, <1>9, <1>10 DEF CloudNext, Scripts

----------------------------------------------------------------------------
\* The invariant holds in every state.
LEMMA CloudAlways == CloudSpec => []CloudInv
<1>1. CloudInit => GreetInv
  BY DEF CloudInit, GreetInv, Off, NoLink
<1> QED
  BY <1>1, Inits, CloudInvNext, GreetInvNext, PTL DEF CloudSpec

\* ConnectedIsSaved for any number of taps, faults and steps of the cloud: whatever the
\* scripts, the connector and the cloud write in turn, a printer that is shown as connected
\* and is not being disconnected has its cluster id saved.
THEOREM ConnectedIsAlwaysSaved == CloudSpec => []ConnectedIsSaved
<1>1. CloudInv => ConnectedIsSaved
  BY DEF CloudInv, SavedInv, Bound, Leaving, ConnectedIsSaved
<1> QED
  BY <1>1, CloudAlways, PTL

\* NoFilesLeft for any number of taps, faults and requests: every way a print request can
\* end removes what it downloaded, extracted or rewrote.
THEOREM FilesAreAlwaysRemoved == CloudSpec => []NoFilesLeft
<1>1. CloudInv => NoFilesLeft
  BY DEF CloudInv, FilesInv, Made, Printing, NoFilesLeft
<1> QED
  BY <1>1, CloudAlways, PTL

\* LinkNeedsConsent for any number of taps, faults and messages: once the printer was
\* disconnected or removed, no restart, reboot or late message makes it dial again.
THEOREM LinkAlwaysNeedsConsent == CloudSpec => LinkNeedsConsent
<1>1. ASSUME CloudInv
      PROVE  [conn.pc = "dial" /\ conn'.pc = "online" /\ ~conn.stop /\ ~failed => consent # "none"]_cloudVars
  BY <1>1 DEF CloudInv, ConsentInv, Halted, Released
<1> QED
  BY <1>1, CloudAlways, PTL DEF LinkNeedsConsent

\* PinNeedsRequest for any number of taps, faults and messages: the wish to pair reaches
\* the connector by a message or by a file, and neither outlives the user's consent.
THEOREM PinAlwaysNeedsRequest == CloudSpec => PinNeedsRequest
<1>1. ASSUME CloudInv, [CloudNext]_cloudVars
      PROVE  [~conn.pin /\ conn'.pin /\ ~conn.stop /\ ~failed => consent = "asked"]_cloudVars
  <2> SUFFICES ASSUME ~conn.pin, conn'.pin, ~conn.stop, ~failed PROVE consent = "asked"
    OBVIOUS
  <2>1. conn \in Conn
    BY <1>1 DEF CloudInv, CloudTypeOK
  <2>2. HandlePairing /\ conn.pairing
    BY <1>1, <2>1, PinShown
  <2> QED
    BY <1>1, <2>2 DEF CloudInv, ConsentInv
<1> QED
  BY <1>1, CloudAlways, PTL DEF CloudSpec, PinNeedsRequest
=============================================================================
