------------------------- MODULE PrintClientsProofs -------------------------
(***************************************************************************)
(* Proofs about PrintClients, for every set of jobs, of conflicting ones   *)
(* and of ones on a stick, and any number of actions and faults.           *)
(***************************************************************************)
EXTENDS PrintClients, TLAPS

JobName == Job \cup {NoJob}
Command == {"JOB", "ABORT", "PAUSE", "RESUME", "GCODE"} \X JobName
Status  == [req : Shown \cup {""}, file : JobName, uuid : JobName, total : BOOLEAN,
            left : BOOLEAN, hot : BOOLEAN, error : BOOLEAN, printing : BOOLEAN,
            paused : BOOLEAN, connected : BOOLEAN]
Notice  == [req : Shown, file : JobName, total : BOOLEAN, left : BOOLEAN, hot : BOOLEAN,
            error : BOOLEAN]
PcStep  == {"record", "send", "clear", "unlink", "mark", "open", "write"}
PcValue == {Ready} \cup (PcStep \X JobName)

ServiceOK ==
  /\ shown \in Shown /\ job \in JobName /\ hot \in BOOLEAN /\ faulted \in BOOLEAN
  /\ late \in Seq(Command)

ViewOK ==
  /\ st \in [Client -> Status] /\ retained \in [Client -> JobName]

FilesOK ==
  /\ record \in [job : JobName, conflict : BOOLEAN] /\ pc \in [Client -> PcValue]

\* A readable record names a file on disk, and one that waits for the user is about a job
\* that conflicts.  The two processes that rewrite the record in place only have jobs that
\* conflict in hand, and the one that removes a file only jobs that do not.
RecordInv ==
  /\ record.job # NoJob => record.job \in spool
  /\ record.job # NoJob /\ record.conflict => record.job \in Conflicting
  /\ pc["web"][1] = "record" => pc["web"][2] \in spool
  /\ pc["web"][1] \in {"send", "clear", "unlink"} => pc["web"][2] \notin Conflicting
  /\ pc["web"][1] = "unlink" => pc["web"][2] \notin {record.job, NoJob}
  /\ \A c \in Client : pc[c][1] \in {"open", "write"} => pc[c][2] \in Conflicting \cap spool

\* An idle service has no job, no times and no target: what a job leaves behind stays
\* until the message shows an error or a completed print.
RestInv ==
  /\ shown = "idle" => life = "none" /\ hot = FALSE
  /\ life = "none" /\ shown \notin {"error", "complete"} => job = NoJob /\ times = "none"

\* So an idle message says nothing of a job.
Quiet(m) == m.req = "idle" => m.file = NoJob /\ ~m.total /\ ~m.left /\ ~m.hot

SlotOK == slot = <<>> \/ \E m \in Notice : slot = <<m>> /\ Quiet(m)

\* Times and a preparation are only in the view of a client that takes the printer for busy.
Plain(s) == (s.total => s.printing \/ s.paused) /\ (s.req = "preparing" => s.printing)

AtEase(s) == s.req = "idle" /\ s.connected /\ ~s.error /\ ~s.paused /\ ~s.printing

\* The first idle message ends what was retained, the second what was shown.
IdleInv ==
  /\ idleReads \in [Client -> 0 .. 2]
  /\ \A c \in Client :
       /\ Plain(st[c])
       /\ idleReads[c] # 0 => AtEase(st[c]) /\ retained[c] = NoJob
       /\ idleReads[c] = 2 => st[c].file = NoJob

\* The web service sees the service as it was at three moments: when it last read, when the
\* waiting message was sent, and now.  Every rise between them is a print the history lacks.
WebSaw  == st["web"].printing
Waiting == IF slot = <<>> THEN WebSaw ELSE NativeActive(slot[1].req)
Active  == shown \in ActiveShown

HistoryInv ==
  /\ unrecorded \in Nat
  /\ (WebSaw \/ Waiting \/ Active) => unrecorded >= 1
  /\ (WebSaw /\ ~Waiting /\ Active) => unrecorded >= 2

ClientsInv == ServiceOK /\ SlotOK /\ ViewOK /\ FilesOK /\ RecordInv /\ RestInv
              /\ IdleInv /\ HistoryInv

----------------------------------------------------------------------------
(* The service. *)

\* A print that begins is counted.
Counted ==
  /\ unrecorded' \in {unrecorded, unrecorded + 1}
  /\ unrecorded' = unrecorded => (Active' => Active)

\* An episode is counted when the service begins to be active.
LEMMA CountEpisodeCounts == CountEpisode => Counted
BY DEF CountEpisode, Counted, Active

\* One command is carried out or queued, or none is sent.
Commanded ==
  \/ \E c \in Command : \/ CarryOut(c) /\ late' = late
                        \/ late' = Append(late, c) /\ UNCHANGED <<serviceVars, unrecorded>>
  \/ UNCHANGED <<serviceVars, late, unrecorded>>

\* A command the service carries out counts the print it begins and takes only the job
\* it names.
LEMMA Carried ==
  ASSUME ServiceOK, RestInv, NEW c \in Command, CarryOut(c)
  PROVE  /\ shown' \in Shown /\ hot' \in BOOLEAN /\ faulted' \in BOOLEAN /\ Counted
         /\ job' \in {job, c[2]} /\ RestInv'
<1>1. Counted
  BY CountEpisodeCounts DEF CarryOut
<1>2. CASE c[1] = "JOB" /\ CarryOutJob(c[2])
  BY <1>1, <1>2 DEF CarryOutJob, StartJob, ServiceOK, Shown, serviceVars, lifecycleVars,
     RestInv
<1>3. CASE CarryOutAbort
  BY <1>1, <1>3 DEF CarryOutAbort, BeginAbort, ServiceOK, Shown, serviceVars,
     lifecycleVars, RestInv
<1>4. CASE CarryOutPause \/ CarryOutResume
  BY <1>1, <1>4 DEF CarryOutPause, CarryOutResume, ServiceOK, Shown, serviceVars,
     lifecycleVars, RestInv
<1>5. CASE CarryOutHeat
  BY <1>1, <1>5 DEF CarryOutHeat, Refreshed, ServiceOK, Shown, RestInv
<1> QED
  BY <1>2, <1>3, <1>4, <1>5 DEF CarryOut

\* A client's command, answered in time, late or never, keeps the service's state.
LEMMA CommandedInv ==
  ASSUME ServiceOK, RestInv, Commanded
  PROVE  ServiceOK' /\ RestInv' /\ Counted
<1>2. CASE UNCHANGED <<serviceVars, late, unrecorded>>
  BY <1>2 DEF serviceVars, lifecycleVars, ServiceOK, RestInv, Counted, Active
<1>3. ASSUME NEW c \in Command, CarryOut(c), late' = late
      PROVE  ServiceOK' /\ RestInv' /\ Counted
  <2>1. c[2] \in JobName
    BY <1>3 DEF Command
  <2> QED
    BY <1>3, <2>1, Carried DEF ServiceOK
<1>4. ASSUME NEW c \in Command, late' = Append(late, c), UNCHANGED <<serviceVars, unrecorded>>
      PROVE  ServiceOK' /\ RestInv' /\ Counted
  <2>1. late \in Seq(Command) /\ late' \in Seq(Command)
    BY <1>4 DEF ServiceOK
  <2> QED
    BY <1>4, <2>1 DEF ServiceOK, RestInv, Counted, Active, serviceVars, lifecycleVars
<1> QED
  BY <1>2, <1>3, <1>4 DEF Commanded

\* What a client does with a command it may give.
LEMMA Gives ==
  ASSUME NEW c \in Command, NEW cost, Answered(c, cost) \/ TimesOut(c, cost)
  PROVE  Commanded
BY DEF Answered, TimesOut, Commanded

\* Every step of a client gives at most one command.
LEMMA ClientsCommand ==
  ASSUME ClientsInv, NEW c, NEW j, NEW a,
         \/ UploadStore(j) \/ UploadRecord(j) \/ (j \in Job /\ UploadSend(j)) \/ UploadUndo(j)
         \/ PendingGo(c) \/ PendingCancel(c) \/ MarkHandled(c) \/ Stop(c) \/ ManualHeat(c)
         \/ Restart(c) \/ (a \in Action /\ WebAction(a)) \/ WebDelete \/ UiPauseResume
         \/ StatusPauseResume
         \/ (j \in UsbJob /\ UiStart(j)) \/ UiPoll \/ UiQueriesGuard \/ GuardAges \/ Publish
         \/ UiPrompts
  PROVE  Commanded
<1>1. \A k \in {"ABORT", "PAUSE", "RESUME", "GCODE"} : <<k, NoJob>> \in Command
  BY DEF Command, JobName
<1>2. \A k \in JobName : <<"JOB", k>> \in Command
  BY DEF Command
<1>3. CASE UploadStore(j) \/ UploadRecord(j) \/ UploadUndo(j) \/ UiPrompts \/ MarkHandled(c)
           \/ Restart(c) \/ UiPoll \/ UiQueriesGuard \/ GuardAges \/ Publish
  BY <1>3 DEF UploadStore, UploadRecord, UploadUndo, UiPrompts, MarkHandled, Restart,
     UiPoll, UiQueriesGuard, GuardAges, Publish, Commanded
<1>4. ASSUME NEW k \in JobName, NEW cost, Answered(<<"JOB", k>>, cost) \/ TimesOut(<<"JOB", k>>, cost)
      PROVE  Commanded
  BY <1>2, <1>4, Gives
<1>5. CASE j \in Job /\ UploadSend(j)
  BY <1>4, <1>5 DEF UploadSend, Commanded, JobName
<1>6. CASE PendingGo(c)
  <2>1. /\ record.job \in JobName
        /\ \/ Answered(<<"JOB", record.job>>, {"act"}) \/ TimesOut(<<"JOB", record.job>>, {"act"})
    BY <1>6 DEF PendingGo, PendingPlan, ClientsInv, FilesOK
  <2> QED
    BY <1>4, <2>1
<1>7. CASE j \in UsbJob /\ UiStart(j)
  BY <1>4, <1>7, ClientsAssumption DEF UiStart, JobName
<1>8. ASSUME NEW k \in {"ABORT", "PAUSE", "RESUME", "GCODE"}, NEW cost,
             Answered(<<k, NoJob>>, cost) \/ TimesOut(<<k, NoJob>>, cost)
      PROVE  Commanded
  BY <1>1, <1>8, Gives
<1>9. CASE PendingCancel(c) \/ Stop(c) \/ WebDelete
  BY <1>8, <1>9 DEF PendingCancel, PendingPlan, Stop, WebDelete, Commanded
<1>10. CASE ManualHeat(c) \/ UiPauseResume \/ StatusPauseResume
  BY <1>8, <1>10 DEF ManualHeat, UiPauseResume, StatusPauseResume
<1>11. CASE a \in Action /\ WebAction(a)
  <2>1. ActionPlan(a).command \in {"ABORT", "PAUSE", "RESUME", "GCODE"}
    BY <1>11 DEF Action, ActionPlan
  <2>2. \/ Answered(<<ActionPlan(a).command, NoJob>>, {"act"})
        \/ TimesOut(<<ActionPlan(a).command, NoJob>>, {"act"})
    BY <1>11 DEF WebAction, Dispatched
  <2> QED
    BY <1>8, <2>1, <2>2
<1> QED
  BY <1>3, <1>5, <1>6, <1>7, <1>9, <1>10, <1>11

\* The service's own steps leave no job behind when it comes to rest.
LEMMA ServiceStepInv ==
  ASSUME ServiceOK, RestInv, ServiceStep
  PROVE  ServiceOK' /\ RestInv' /\ Counted
<1>1. Counted /\ late' = late
  BY CountEpisodeCounts DEF ServiceStep
<1>2. shown' \in Shown /\ job' \in {job, NoJob} /\ hot' \in BOOLEAN /\ faulted' \in BOOLEAN
  BY DEF ServiceStep, BeginFinish, EndFinish, EndAbort, BeginAbort, FailJob,
     ShowWhilePrinting, Refreshed, ServiceOK, Shown
<1>3. RestInv'
  BY DEF ServiceStep, BeginFinish, EndFinish, EndAbort, BeginAbort, FailJob,
     ShowWhilePrinting, Refreshed, ServiceOK, Shown, RestInv
<1> QED
  BY <1>1, <1>2, <1>3 DEF ServiceOK, JobName

\* So does a late command.
LEMMA CarryOutLateInv ==
  ASSUME ServiceOK, RestInv, CarryOutLate
  PROVE  ServiceOK' /\ RestInv' /\ Counted
<1>1. late \in Seq(Command) /\ late # <<>> /\ late' = Tail(late)
  BY DEF ServiceOK, CarryOutLate
<1>2. Head(late) \in Command /\ late' \in Seq(Command)
  BY <1>1
<1>3. Head(late)[2] \in JobName
  BY <1>2 DEF Command
<1>4. /\ shown' \in Shown /\ hot' \in BOOLEAN /\ faulted' \in BOOLEAN /\ Counted
      /\ job' \in {job, Head(late)[2]} /\ RestInv'
  BY <1>2, Carried DEF CarryOutLate
<1> QED
  BY <1>1, <1>2, <1>3, <1>4 DEF ServiceOK

\* A service that restarts prints nothing.
LEMMA ServiceRestartInv ==
  ASSUME ServiceOK, RestInv, ServiceRestart
  PROVE  ServiceOK' /\ RestInv' /\ Counted
<1>1. /\ shown' = "idle" /\ job' = NoJob /\ hot' = FALSE /\ faulted' = FALSE /\ late' = <<>>
      /\ unrecorded' = unrecorded /\ life' = "none" /\ times' = "none"
  BY DEF ServiceRestart
<1>2. <<>> \in Seq(Command)
  OBVIOUS
<1>3. ServiceOK' /\ RestInv'
  BY <1>1, <1>2 DEF ServiceOK, RestInv, Shown, JobName
<1>4. Counted
  BY <1>1 DEF Counted, Active, ActiveShown
<1> QED
  BY <1>3, <1>4

\* An action of the cluster API is about the waiting job or like any other.
LEMMA ClusterCases ==
  ASSUME NEW a \in Action, ClusterAction(a)
  PROVE  \/ WebAction(a)
         \/ \E c \in Client : PendingGo(c) \/ PendingCancel(c)
BY DEF ClusterAction, Client

\* The two clients can go ahead with the waiting job or cancel it.
LEMMA UiIsClient ==
  ASSUME PendingGo("ui") \/ PendingCancel("ui")
  PROVE  \E c \in Client : PendingGo(c) \/ PendingCancel(c)
BY DEF Client

\* Only the web service's own reading takes a print off the count.
LEMMA ServiceSide ==
  ASSUME ClientsInv, [ClientsNext]_clientsVars
  PROVE  ServiceOK' /\ RestInv' /\ (Counted \/ WebPoll)
<1>1. ServiceOK /\ RestInv
  BY DEF ClientsInv
<1>2. CASE ServiceStep \/ CarryOutLate \/ ServiceRestart
  BY <1>1, <1>2, ServiceStepInv, CarryOutLateInv, ServiceRestartInv
<1>3. CASE WebPoll
  BY <1>1, <1>3 DEF WebPoll, serviceVars, lifecycleVars, ServiceOK, RestInv
<1>4. CASE Commanded
  BY <1>1, <1>4, CommandedInv
<1>5. CASE UNCHANGED clientsVars
  BY <1>4, <1>5 DEF clientsVars, Commanded
<1>6. CASE \E j \in Job : UploadStore(j) \/ UploadRecord(j) \/ UploadSend(j) \/ UploadUndo(j)
  BY <1>4, <1>6, ClientsCommand
<1>7. CASE \E c \in Client : PendingGo(c) \/ PendingCancel(c) \/ MarkHandled(c) \/ Stop(c)
                               \/ ManualHeat(c) \/ Restart(c)
  BY <1>4, <1>7, ClientsCommand
<1>8. CASE \E a \in Action : WebAction(a)
  BY <1>4, <1>8, ClientsCommand
<1>9. CASE \E j \in UsbJob : UiStart(j)
  BY <1>4, <1>9, ClientsCommand
<1>10. CASE UiPrompts \/ WebDelete \/ UiPauseResume \/ StatusPauseResume \/ UiPoll
            \/ UiQueriesGuard \/ GuardAges \/ Publish
  BY <1>4, <1>10, ClientsCommand
<1> QED
  BY <1>2, <1>3, <1>5, <1>6, <1>7, <1>8, <1>9, <1>10, ClusterCases,
     UiIsClient DEF ClientsNext

----------------------------------------------------------------------------
(* The record and the files. *)

\* The step of a client that touches no record and no file, or removes the record.
Tidies ==
  /\ record' \in {record, NoRecord} /\ spool' = spool
  /\ \/ pc' = pc
     \/ \E c \in Client, v \in {Ready, <<"mark", NoJob>>} : pc' = [pc EXCEPT ![c] = v]

\* A step that at most removes the record leaves none that names a file that is gone.
LEMMA TidiesInv ==
  ASSUME FilesOK, RecordInv, Tidies
  PROVE  FilesOK' /\ RecordInv'
<1>0. NoRecord \in [job : JobName, conflict : BOOLEAN] /\ NoRecord.job = NoJob
  BY DEF NoRecord, JobName
<1>1. /\ record' \in [job : JobName, conflict : BOOLEAN]
      /\ record' = record \/ record'.job = NoJob
  BY <1>0 DEF FilesOK, Tidies
<1>2. pc' \in [Client -> PcValue]
  BY DEF FilesOK, Tidies, PcValue, PcStep, JobName
<1>3. \A c \in Client : pc'[c] = pc[c] \/ pc'[c][1] \in {"ready", "mark"}
  BY DEF FilesOK, Tidies, Ready
<1>4. "web" \in Client /\ spool' = spool
  BY DEF Client, Tidies
<1> QED
  BY <1>1, <1>2, <1>3, <1>4 DEF FilesOK, RecordInv

\* An upload stores the file before the record and undoes the record before the file.
LEMMA UploadInv ==
  ASSUME FilesOK, RecordInv, NEW j \in Job,
         UploadStore(j) \/ UploadRecord(j) \/ UploadSend(j) \/ UploadUndo(j)
  PROVE  FilesOK' /\ RecordInv'
<1>1. j # NoJob /\ j \in JobName /\ NoJob \in JobName /\ "web" \in Client
  BY ClientsAssumption DEF JobName, Client
<1>2. Ready \in PcValue /\ \A k \in PcStep : <<k, j>> \in PcValue
  BY <1>1 DEF PcValue
<1>3. CASE UploadStore(j)
  <2>1. /\ record.job = NoJob /\ record' = record /\ spool' = spool \cup {j}
        /\ pc' = [pc EXCEPT !["web"] = <<"record", j>>]
    BY <1>3 DEF UploadStore, UploadCheck, Goto
  <2> QED
    BY <1>1, <1>2, <2>1 DEF FilesOK, RecordInv, PcStep
<1>4. CASE UploadRecord(j)
  <2>1. /\ record' = [job |-> j, conflict |-> j \in Conflicting] /\ spool' = spool
        /\ pc["web"] = <<"record", j>>
        /\ pc' = [pc EXCEPT !["web"] = IF j \in Conflicting THEN Ready ELSE <<"send", j>>]
    BY <1>4 DEF UploadRecord, Goto
  <2>2. /\ record' \in [job : JobName, conflict : BOOLEAN]
        /\ record'.job = j /\ (record'.conflict => j \in Conflicting)
    <3> DEFINE b == j \in Conflicting
    <3>1. b \in BOOLEAN /\ record' = [job |-> j, conflict |-> b] /\ (b => j \in Conflicting)
      BY <2>1
    <3> HIDE DEF b
    <3> QED
      BY <1>1, <3>1
  <2>3. pc' \in [Client -> PcValue] /\ \A c \in Client \ {"web"} : pc'[c] = pc[c]
    BY <1>1, <1>2, <2>1 DEF FilesOK, PcStep
  <2>4. /\ pc'["web"] = Ready \/ (pc'["web"] = <<"send", j>> /\ j \notin Conflicting)
        /\ j \in spool
    BY <1>1, <2>1 DEF FilesOK, RecordInv
  <2>5. FilesOK'
    BY <2>2, <2>3 DEF FilesOK
  <2> QED
    BY <1>1, <2>1, <2>2, <2>3, <2>4, <2>5 DEF RecordInv, Ready
<1>5. CASE UploadSend(j)
  <2>1. /\ record' = record /\ spool' = spool /\ pc["web"] = <<"send", j>>
        /\ \/ pc' = [pc EXCEPT !["web"] = Ready]
           \/ pc' = [pc EXCEPT !["web"] = <<"clear", j>>]
    BY <1>5 DEF UploadSend, Goto, fileVars
  <2> QED
    BY <1>1, <1>2, <2>1 DEF FilesOK, RecordInv, PcStep, Ready
<1>6. CASE UploadUndo(j)
  <2>1. CASE /\ record' = NoRecord /\ spool' = spool /\ pc["web"] = <<"clear", j>>
             /\ pc' = [pc EXCEPT !["web"] = <<"unlink", j>>]
    BY <1>1, <1>2, <2>1 DEF FilesOK, RecordInv, PcStep, NoRecord
  <2>2. CASE /\ record' = record /\ spool' = spool \ {j} /\ pc["web"] = <<"unlink", j>>
             /\ pc' = [pc EXCEPT !["web"] = Ready]
    <3>1. FilesOK'
      BY <1>1, <1>2, <2>2 DEF FilesOK
    <3>2. pc'["web"] = Ready /\ \A c \in Client \ {"web"} : pc'[c] = pc[c]
      BY <1>1, <2>2 DEF FilesOK
    <3>3. j \notin Conflicting /\ record.job # j
      BY <2>2 DEF RecordInv
    <3> QED
      BY <1>1, <2>2, <3>1, <3>2, <3>3 DEF RecordInv, Ready
  <2> QED
    BY <1>6, <2>1, <2>2 DEF UploadUndo, Goto
<1> QED
  BY <1>3, <1>4, <1>5, <1>6

\* The record is rewritten in place: cut short it names nothing, and complete again it
\* names a file that is still there.
LEMMA MarkHandledInv ==
  ASSUME FilesOK, RecordInv, NEW c \in Client, MarkHandled(c)
  PROVE  FilesOK' /\ RecordInv'
<1>1. NoJob \in JobName /\ "web" \in Client /\ NoJob \notin Conflicting
      /\ Conflicting \subseteq JobName
  BY ClientsAssumption DEF JobName, Client
<1>2. Ready \in PcValue /\ \A k \in JobName : <<"open", k>> \in PcValue /\ <<"write", k>> \in PcValue
  BY DEF PcValue, PcStep
<1>3. spool' = spool /\ record.job \in JobName
  BY DEF MarkHandled, FilesOK
<1>4. CASE record' \in {record, NoRecord} /\ pc' = [pc EXCEPT ![c] = Ready]
  BY <1>3, <1>4, TidiesInv DEF Tidies
<1>5. CASE /\ record.job # NoJob /\ record.conflict /\ record' = record
           /\ pc' = [pc EXCEPT ![c] = <<"open", record.job>>]
  BY <1>1, <1>2, <1>3, <1>5 DEF FilesOK, RecordInv
<1>6. CASE /\ pc[c][1] = "open" /\ record' = Torn
           /\ pc' = [pc EXCEPT ![c] = <<"write", pc[c][2]>>]
  BY <1>1, <1>2, <1>3, <1>6 DEF FilesOK, RecordInv, Torn
<1>7. CASE /\ pc[c][1] = "write" /\ pc' = [pc EXCEPT ![c] = Ready]
           /\ record' = [job |-> pc[c][2], conflict |-> FALSE]
  BY <1>1, <1>2, <1>3, <1>7 DEF FilesOK, RecordInv, Ready
<1> QED
  BY <1>4, <1>5, <1>6, <1>7 DEF MarkHandled, Goto

\* Every step keeps the record and the files it names together.
LEMMA FilesSide ==
  ASSUME ClientsInv, [ClientsNext]_clientsVars
  PROVE  FilesOK' /\ RecordInv'
<1>1. FilesOK /\ RecordInv
  BY DEF ClientsInv
<1>2. CASE Tidies
  BY <1>1, <1>2, TidiesInv
<1>3. CASE UNCHANGED clientsVars
  BY <1>2, <1>3 DEF clientsVars, fileVars, Tidies
<1>4. CASE ServiceStep \/ CarryOutLate \/ Publish \/ ServiceRestart \/ UiPoll
           \/ UiQueriesGuard \/ GuardAges \/ UiPrompts \/ UiPauseResume \/ StatusPauseResume
  BY <1>2, <1>4 DEF ServiceStep, CarryOutLate, Publish, ServiceRestart, UiPoll,
     UiQueriesGuard,
     GuardAges, UiPrompts, UiPauseResume, StatusPauseResume, fileVars, Tidies
<1>5. CASE WebPoll \/ WebDelete
  BY <1>2, <1>5 DEF WebPoll, WebDelete, Tidies
<1>6. CASE \E j \in Job : UploadStore(j) \/ UploadRecord(j) \/ UploadSend(j) \/ UploadUndo(j)
  BY <1>1, <1>6, UploadInv
<1>7. ASSUME NEW c \in Client, PendingGo(c) \/ PendingCancel(c)
      PROVE  Tidies
  BY <1>7 DEF PendingGo, PendingCancel, PendingPlan, Goto, fileVars, Tidies
<1>8. ASSUME NEW c \in Client, Stop(c) \/ ManualHeat(c)
      PROVE  Tidies
  BY <1>8 DEF Stop, ManualHeat, fileVars, Tidies
<1>9. ASSUME NEW c \in Client, Restart(c)
      PROVE  Tidies
  BY <1>9 DEF Restart, Goto, fileVars, Tidies
<1>10. CASE \E a \in Action : WebAction(a)
  BY <1>2, <1>10 DEF WebAction, Dispatched, Tidies
<1>11. CASE \E j \in UsbJob : UiStart(j)
  BY <1>2, <1>11 DEF UiStart, fileVars, Tidies
<1> QED
  BY <1>1, <1>2, <1>3, <1>4, <1>5, <1>6, <1>7, <1>8, <1>9, <1>10, <1>11, MarkHandledInv,
     ClusterCases, UiIsClient DEF ClientsNext

----------------------------------------------------------------------------
(* What a client makes of a message. *)

\* The status message is one the clients can read, and carries the service's state.
LEMMA MessageIsNotice ==
  ASSUME ServiceOK, RestInv PROVE Message \in Notice /\ Message.req = shown /\ Quiet(Message)
<1> DEFINE total == times # "none"
           left == times = "running"
<1>1. total \in BOOLEAN /\ left \in BOOLEAN
  OBVIOUS
<1>2. Message = [req |-> shown, file |-> job, total |-> total, left |-> left, hot |-> hot,
                 error |-> faulted]
  BY DEF Message
<1>3. shown = "idle" => job = NoJob /\ ~total /\ ~left /\ hot = FALSE
  BY DEF RestInv
<1> HIDE DEF total, left
<1> QED
  BY <1>1, <1>2, <1>3 DEF Notice, ServiceOK, Quiet

\* Parsing a message gives a state that is printing exactly when the service is active.
LEMMA ParsedIsStatus ==
  ASSUME NEW m \in Notice
  PROVE  Parsed(m) \in Status /\ (Parsed(m).printing <=> NativeActive(m.req))
<1>1. ASSUME NEW active \in BOOLEAN, NEW paused \in BOOLEAN
      PROVE  [req |-> m.req, file |-> m.file, uuid |-> m.file, total |-> m.total,
              left |-> m.left, hot |-> m.hot, error |-> m.error, printing |-> active,
              paused |-> paused, connected |-> TRUE] \in Status
  BY <1>1 DEF Notice, Status
<1>2. NativeActive(m.req) \in BOOLEAN /\ ReqIsPaused(m.req) \in BOOLEAN
  BY DEF NativeActive, ReqIsPaused
<1>3. Parsed(m) \in Status
  BY <1>1, <1>2 DEF Parsed
<1>4. Parsed(m).printing <=> NativeActive(m.req)
  BY DEF Parsed
<1> QED
  BY <1>3, <1>4

\* Normalising the times changes neither the type nor whether it prints.
LEMMA NormalizedIsStatus ==
  ASSUME NEW s \in Status, NEW name \in JobName
  PROVE  /\ NormalizedTiming([s EXCEPT !.file = name]) \in Status
         /\ NormalizedTiming([s EXCEPT !.file = name]).printing = s.printing
<1> DEFINE c == [s EXCEPT !.file = name]
<1>1. c \in Status /\ c.printing = s.printing
  BY DEF Status
<1> HIDE DEF c
<1>2. [c EXCEPT !.total = FALSE, !.left = FALSE] \in Status
      /\ [c EXCEPT !.total = FALSE, !.left = FALSE].printing = s.printing
  BY <1>1 DEF Status
<1>3. NormalizedTiming(c) \in Status /\ NormalizedTiming(c).printing = s.printing
  BY <1>1, <1>2 DEF NormalizedTiming
<1> QED
  BY <1>3 DEF c

\* Whatever is told and retained, the name a client resolves is a job's or none.
LEMMA ResolvedIsName ==
  ASSUME NEW m \in Notice, NEW now, NEW p \in Status, NEW r \in JobName, NEW n \in JobName
  PROVE  /\ ResolveFilename(m, now, p, r, n).name \in JobName
         /\ ResolveFilename(m, now, p, r, n).retained \in JobName
<1>1. m.file \in JobName /\ p.file \in JobName /\ NoJob \in JobName
  BY DEF Notice, Status, JobName
<1> QED
  BY <1>1 DEF ResolveFilename

\* Applying a message yields a state that prints exactly when the service was active
\* when it sent it.
LEMMA AppliedIsStatus ==
  ASSUME ViewOK, FilesOK, NEW c \in Client, NEW m \in Notice
  PROVE  /\ Applied(c, m).state \in Status /\ Applied(c, m).retained \in JobName
         /\ Applied(c, m).state.printing <=> NativeActive(m.req)
<1> DEFINE f == ResolveFilename(m, Parsed(m), st[c], retained[c], PendingName)
<1>1. st[c] \in Status /\ retained[c] \in JobName /\ PendingName \in JobName
  BY DEF ViewOK, FilesOK, PendingName
<1>2. f.name \in JobName /\ f.retained \in JobName
  BY <1>1, ResolvedIsName
<1>3. Applied(c, m) = [state |-> NormalizedTiming([Parsed(m) EXCEPT !.file = f.name]),
                       retained |-> f.retained]
  BY DEF Applied
<1> HIDE DEF f
<1>4. /\ Applied(c, m).state = NormalizedTiming([Parsed(m) EXCEPT !.file = f.name])
      /\ Applied(c, m).retained = f.retained
  BY <1>3
<1>5. Parsed(m) \in Status /\ (Parsed(m).printing <=> NativeActive(m.req))
  BY ParsedIsStatus
<1> QED
  BY <1>2, <1>4, <1>5, NormalizedIsStatus

\* Reading a message brings one client's view up to it and leaves the other's alone.
LEMMA ReadView ==
  ASSUME ViewOK, FilesOK, NEW c \in Client, NEW m \in Notice, Read(c, m)
  PROVE  /\ ViewOK' /\ (st'[c].printing <=> NativeActive(m.req))
         /\ \A d \in Client \ {c} : st'[d] = st[d]
<1>1. /\ st' = [st EXCEPT ![c] = Applied(c, m).state]
      /\ \E r \in {NoJob, Applied(c, m).retained} : retained' = [retained EXCEPT ![c] = r]
  BY DEF Read
<1>2. /\ Applied(c, m).state \in Status /\ Applied(c, m).retained \in JobName
      /\ Applied(c, m).state.printing <=> NativeActive(m.req)
  BY AppliedIsStatus
<1>3. NoJob \in JobName
  BY DEF JobName
<1> QED
  BY <1>1, <1>2, <1>3 DEF ViewOK

\* Retaining a name does not change whether a client thinks it prints.
LEMMA RetainsView ==
  ASSUME ViewOK, NEW c \in Client, NEW j \in JobName, Retains(c, j)
  PROVE  ViewOK' /\ \A d \in Client : st'[d].printing = st[d].printing
<1>1. /\ retained' = [retained EXCEPT ![c] = j]
      /\ st' = [st EXCEPT ![c] = [st[c] EXCEPT !.file = j]]
  BY DEF Retains
<1>2. st[c] \in Status
  BY DEF ViewOK
<1>3. [st[c] EXCEPT !.file = j] \in Status /\ [st[c] EXCEPT !.file = j].printing = st[c].printing
  BY <1>2 DEF Status
<1> QED
  BY <1>1, <1>3 DEF ViewOK

\* An idle message ends what was retained; what is shown after it was retained or is
\* nothing.
LEMMA QuietResolves ==
  ASSUME NEW m \in Notice, Quiet(m), m.req = "idle", NEW p \in Status, Plain(p),
         NEW r \in JobName, NEW n \in JobName
  PROVE  /\ ResolveFilename(m, Parsed(m), p, r, n).retained = NoJob
         /\ ResolveFilename(m, Parsed(m), p, r, n).name \in {NoJob, r}
<1> DEFINE c == Parsed(m)
<1>1. /\ c.req = "idle" /\ c.uuid = NoJob /\ ~c.total /\ ~c.left /\ ~c.hot
      /\ ~c.printing /\ ~c.paused /\ m.file = NoJob
  BY DEF Parsed, Quiet, NativeActive, ReqIsPaused
<1> HIDE DEF c
<1>2. HoldFilename(c, p) => p.printing \/ p.paused
  BY <1>1 DEF HoldFilename, Plain, ReqIsLifecycle, Status
<1>3. ~ReqIsAbort(c.req)
  BY <1>1 DEF ReqIsAbort
<1>4. CASE p.printing \/ p.paused
  BY <1>1, <1>3, <1>4 DEF ResolveFilename, c
<1>5. CASE ~(p.printing \/ p.paused)
  <2>1. ~HoldFilename(c, p)
    BY <1>2, <1>5
  <2> QED
    BY <1>1, <1>3, <1>5, <2>1 DEF ResolveFilename, c
<1> QED
  BY <1>4, <1>5

\* What normalising the times leaves of a parsed message.
LEMMA NormalizedFields ==
  ASSUME NEW m \in Notice, NEW name \in JobName
  PROVE  LET s == NormalizedTiming([Parsed(m) EXCEPT !.file = name]) IN
         /\ Plain(s) /\ s.file = name
         /\ m.req = "idle" /\ ~m.error => AtEase(s)
<1> DEFINE c == [Parsed(m) EXCEPT !.file = name]
           d == [c EXCEPT !.total = FALSE, !.left = FALSE]
<1>1. Parsed(m) \in Status
  BY ParsedIsStatus
<1>2. /\ c \in Status /\ c.file = name /\ c.req = m.req /\ c.error = m.error
      /\ c.connected = TRUE /\ (c.printing <=> NativeActive(m.req))
      /\ (c.paused <=> ReqIsPaused(m.req))
  BY <1>1 DEF Parsed, Status
<1> HIDE DEF c
<1>3. /\ d.total = FALSE /\ d.file = c.file /\ d.req = c.req /\ d.error = c.error
      /\ d.connected = c.connected /\ d.printing = c.printing /\ d.paused = c.paused
  BY <1>2 DEF Status
<1> HIDE DEF d
<1>4. Plain(d)
  BY <1>2, <1>3 DEF Plain, NativeActive
<1>5. (c.printing \/ c.paused \/ ~c.total) => Plain(c)
  BY <1>2 DEF Plain, NativeActive
<1>6. m.req = "idle" /\ ~m.error => AtEase(c) /\ AtEase(d)
  BY <1>2, <1>3 DEF AtEase, NativeActive, ReqIsPaused
<1>7. NormalizedTiming(c) = IF c.total /\ ~c.printing /\ ~c.paused THEN d ELSE c
  BY DEF NormalizedTiming, d
<1>8. /\ Plain(NormalizedTiming(c)) /\ NormalizedTiming(c).file = name
      /\ m.req = "idle" /\ ~m.error => AtEase(NormalizedTiming(c))
  BY <1>2, <1>3, <1>4, <1>5, <1>6, <1>7
<1> QED
  BY <1>8 DEF c

\* Reading a message keeps what the idle messages in a row have ended.
LEMMA ReadIdle ==
  ASSUME ViewOK, FilesOK, IdleInv, NEW c \in Client, NEW m \in Notice, Quiet(m), Read(c, m)
  PROVE  IdleInv'
<1> DEFINE f == ResolveFilename(m, Parsed(m), st[c], retained[c], PendingName)
           s == NormalizedTiming([Parsed(m) EXCEPT !.file = f.name])
<1>1. st[c] \in Status /\ retained[c] \in JobName /\ PendingName \in JobName /\ Plain(st[c])
  BY DEF ViewOK, FilesOK, PendingName, IdleInv
<1>2. f.name \in JobName
  BY <1>1, ResolvedIsName
<1>3. Applied(c, m) = [state |-> s, retained |-> f.retained]
  BY DEF Applied
<1>4. m.req = "idle" => f.retained = NoJob /\ f.name \in {NoJob, retained[c]}
  BY <1>1, QuietResolves
<1>5. /\ Plain(s) /\ s.file = f.name
      /\ m.req = "idle" /\ ~m.error => AtEase(s)
  BY <1>2, NormalizedFields
<1> HIDE DEF f, s
<1>6. /\ st' = [st EXCEPT ![c] = s]
      /\ retained' = [retained EXCEPT ![c] = f.retained]
           \/ retained' = [retained EXCEPT ![c] = NoJob]
      /\ idleReads' = [idleReads EXCEPT ![c] = IF m.req # "idle" \/ m.error THEN 0
                                             ELSE IF idleReads[c] = 0 THEN 1 ELSE 2]
  <2>1. Applied(c, m).state = s /\ Applied(c, m).retained = f.retained
    BY <1>3
  <2> QED
    BY <2>1 DEF Read
<1>7. idleReads' \in [Client -> 0 .. 2]
  BY <1>6 DEF IdleInv
<1>8. /\ st'[c] = s /\ retained'[c] \in {f.retained, NoJob}
      /\ idleReads'[c] = IF m.req # "idle" \/ m.error THEN 0
                        ELSE IF idleReads[c] = 0 THEN 1 ELSE 2
  BY <1>6 DEF IdleInv, ViewOK
<1>9. \A d \in Client \ {c} :
        st'[d] = st[d] /\ retained'[d] = retained[d] /\ idleReads'[d] = idleReads[d]
  BY <1>6 DEF IdleInv, ViewOK
<1>10. /\ idleReads'[c] # 0 => m.req = "idle" /\ ~m.error
       /\ idleReads'[c] = 2 => idleReads[c] # 0
  BY <1>8
<1>11. /\ Plain(st'[c])
       /\ idleReads'[c] # 0 => AtEase(st'[c]) /\ retained'[c] = NoJob
       /\ idleReads'[c] = 2 => st'[c].file = NoJob
  BY <1>4, <1>5, <1>8, <1>10 DEF IdleInv
<1> QED
  BY <1>7, <1>9, <1>11 DEF IdleInv

\* Retaining a name starts the count again.
LEMMA RetainsIdle ==
  ASSUME ViewOK, IdleInv, NEW c \in Client, NEW j \in JobName, Retains(c, j)
  PROVE  IdleInv'
<1>1. /\ retained' = [retained EXCEPT ![c] = j]
      /\ st' = [st EXCEPT ![c] = [st[c] EXCEPT !.file = j]]
      /\ idleReads' = [idleReads EXCEPT ![c] = 0]
  BY DEF Retains
<1>2. st[c] \in Status /\ Plain(st[c])
  BY DEF ViewOK, IdleInv
<1>3. Plain([st[c] EXCEPT !.file = j])
  BY <1>2 DEF Plain, Status
<1>4. idleReads' \in [Client -> 0 .. 2]
  BY <1>1 DEF IdleInv
<1>5. st'[c] = [st[c] EXCEPT !.file = j] /\ idleReads'[c] = 0
  BY <1>1 DEF IdleInv, ViewOK
<1>6. \A d \in Client \ {c} :
        st'[d] = st[d] /\ retained'[d] = retained[d] /\ idleReads'[d] = idleReads[d]
  BY <1>1 DEF IdleInv, ViewOK
<1> QED
  BY <1>3, <1>4, <1>5, <1>6 DEF IdleInv

\* The state a client starts with is not printing.
LEMMA BlankIsStatus ==
  ASSUME NEW b \in BOOLEAN
  PROVE  BlankState(b) \in Status /\ BlankState(b).printing = FALSE /\ Plain(BlankState(b))
BY DEF BlankState, Status, JobName, Plain

\* A client that restarts knows nothing; the other one keeps its view.
LEMMA RestartView ==
  ASSUME ViewOK, SlotOK, NEW c \in Client, Restart(c)
  PROVE  /\ ViewOK' /\ SlotOK' /\ st'[c].printing = FALSE
         /\ (\A d \in Client \ {c} : st'[d] = st[d]) /\ (IdleInv => IdleInv')
<1> DEFINE b == c = "web"
<1>1. b \in BOOLEAN /\ st' = [st EXCEPT ![c] = BlankState(b)]
      /\ retained' = [retained EXCEPT ![c] = NoJob] /\ slot' \in {slot, <<>>}
      /\ idleReads' = [idleReads EXCEPT ![c] = 0]
  BY DEF Restart
<1> HIDE DEF b
<1>2. /\ BlankState(b) \in Status /\ BlankState(b).printing = FALSE /\ NoJob \in JobName
      /\ Plain(BlankState(b))
  BY <1>1, BlankIsStatus DEF JobName
<1>3. st'[c] = BlankState(b) /\ (IdleInv => idleReads'[c] = 0)
  BY <1>1 DEF ViewOK, IdleInv
<1>4. \A d \in Client \ {c} :
        /\ st'[d] = st[d] /\ retained'[d] = retained[d]
        /\ IdleInv => idleReads'[d] = idleReads[d]
  BY <1>1 DEF ViewOK, IdleInv
<1>5. IdleInv => IdleInv'
  BY <1>1, <1>2, <1>3, <1>4 DEF IdleInv
<1> QED
  BY <1>1, <1>2, <1>5 DEF ViewOK, SlotOK

----------------------------------------------------------------------------
(* What the web service has seen. *)

\* A step that neither reads a message nor sends one leaves what the web service saw.
Unseen == slot' = slot /\ ViewOK' /\ IdleInv' /\ st'["web"].printing = st["web"].printing

\* Only a publication, a poll and a restart change what the web service has seen or will
\* see.
LEMMA ViewSide ==
  ASSUME ClientsInv, [ClientsNext]_clientsVars
  PROVE  Unseen \/ Publish \/ WebPoll \/ Restart("web")
<1>0. "web" \in Client /\ "ui" \in Client
  BY DEF Client
<1>1. ViewOK /\ SlotOK /\ FilesOK /\ ServiceOK /\ RestInv /\ IdleInv
  BY DEF ClientsInv
<1>2. ASSUME UNCHANGED <<slot, st, retained, idleReads>>
      PROVE  Unseen
  BY <1>1, <1>2 DEF Unseen, ViewOK, IdleInv
<1>3. ASSUME NEW c \in Client, NEW j \in JobName, Retains(c, j), slot' = slot
      PROVE  Unseen
  BY <1>0, <1>1, <1>3, RetainsView, RetainsIdle DEF Unseen
<1>4. CASE ServiceStep \/ CarryOutLate \/ ServiceRestart \/ UiQueriesGuard \/ GuardAges
           \/ UiPrompts \/ WebDelete \/ UiPauseResume \/ StatusPauseResume
           \/ UNCHANGED clientsVars
  BY <1>2, <1>4 DEF ServiceStep, CarryOutLate, ServiceRestart, UiQueriesGuard,
     GuardAges,
     UiPrompts, WebDelete, UiPauseResume, StatusPauseResume, clientVars, clientsVars
<1>5. CASE UiPoll
  <2>1. Message \in Notice /\ Quiet(Message) /\ Read("ui", Message) /\ slot' = slot
    BY <1>1, <1>5, MessageIsNotice DEF UiPoll
  <2>2. ViewOK' /\ IdleInv' /\ \A d \in Client \ {"ui"} : st'[d] = st[d]
    BY <1>0, <1>1, <2>1, ReadView, ReadIdle
  <2> QED
    BY <1>0, <2>1, <2>2 DEF Unseen
<1>6. ASSUME NEW j \in Job, UploadStore(j) \/ UploadRecord(j) \/ UploadUndo(j)
      PROVE  UNCHANGED <<slot, st, retained, idleReads>>
  BY <1>6 DEF UploadStore, UploadRecord, UploadUndo, clientVars
<1>7. ASSUME NEW j \in Job, UploadSend(j)
      PROVE  Unseen
  <2>1. slot' = slot /\ (Retains("web", j) \/ UNCHANGED clientVars)
    BY <1>7 DEF UploadSend
  <2> QED
    BY <1>0, <1>2, <1>3, <1>7, <2>1 DEF clientVars, JobName
<1>8. ASSUME NEW c \in Client, PendingGo(c)
      PROVE  Unseen
  <2>1. slot' = slot /\ Retains(c, record.job) /\ record.job \in JobName
    BY <1>1, <1>8 DEF PendingGo, PendingPlan, FilesOK
  <2> QED
    BY <1>3, <2>1
<1>9. ASSUME NEW c \in Client, PendingCancel(c) \/ MarkHandled(c) \/ Stop(c) \/ ManualHeat(c)
      PROVE  UNCHANGED <<slot, st, retained, idleReads>>
  BY <1>9 DEF PendingCancel, PendingPlan, MarkHandled, Stop, ManualHeat, clientVars
<1>10. ASSUME NEW c \in Client, Restart(c), c # "web"
       PROVE  Unseen
  <2>1. slot' = slot
    BY <1>10 DEF Restart
  <2> QED
    BY <1>0, <1>1, <1>10, <2>1, RestartView DEF Unseen
<1>11. ASSUME NEW a \in Action, WebAction(a)
       PROVE  UNCHANGED <<slot, st, retained, idleReads>>
  BY <1>11 DEF WebAction, clientVars
<1>12. ASSUME NEW j \in UsbJob, UiStart(j)
       PROVE  Unseen
  <2>1. slot' = slot /\ Retains("ui", j) /\ j \in JobName
    BY <1>12, ClientsAssumption DEF UiStart, JobName
  <2> QED
    BY <1>0, <1>3, <2>1
<1> QED
  BY <1>2, <1>4, <1>5, <1>6, <1>7, <1>8, <1>9, <1>10, <1>11, <1>12,
     ClusterCases, UiIsClient DEF ClientsNext

\* Every step keeps the history within the prints begun: an entry needs a change from
\* printing to not printing that the web service has seen.
LEMMA NextHistory ==
  ASSUME ClientsInv, [ClientsNext]_clientsVars
  PROVE  ViewOK' /\ SlotOK' /\ IdleInv' /\ HistoryInv'
<1>0. "web" \in Client
  BY DEF Client
<1>1. ViewOK /\ SlotOK /\ FilesOK /\ ServiceOK /\ RestInv /\ IdleInv /\ HistoryInv
  BY DEF ClientsInv
<1>2. CASE Unseen /\ Counted
  <2>1. ViewOK' /\ SlotOK' /\ IdleInv'
    BY <1>1, <1>2 DEF Unseen, SlotOK
  <2>2. (WebSaw' <=> WebSaw) /\ (Waiting' <=> Waiting)
    BY <1>2 DEF Unseen, WebSaw, Waiting
  <2> QED
    BY <1>1, <1>2, <2>1, <2>2 DEF HistoryInv, Counted
<1>3. CASE Publish
  <2>1. Message \in Notice /\ Quiet(Message) /\ Message.req = shown /\ slot' = <<Message>>
        /\ unrecorded' = unrecorded /\ shown' = shown /\ st' = st /\ retained' = retained
        /\ idleReads' = idleReads
    BY <1>1, <1>3, MessageIsNotice DEF Publish, clientVars, serviceVars, lifecycleVars
  <2>2. ViewOK' /\ SlotOK' /\ IdleInv'
    BY <1>1, <2>1 DEF ViewOK, SlotOK, IdleInv
  <2>3. (WebSaw' <=> WebSaw) /\ (Waiting' <=> Active) /\ (Active' <=> Active)
    BY <2>1 DEF WebSaw, Waiting, Active, NativeActive, ActiveShown
  <2> QED
    BY <1>1, <2>1, <2>2, <2>3 DEF HistoryInv
<1>4. CASE WebPoll
  <2>1. PICK m \in Notice : slot = <<m>> /\ Quiet(m)
    BY <1>1, <1>4 DEF SlotOK, WebPoll
  <2>2. /\ Read("web", m) /\ slot' = <<>> /\ shown' = shown
        /\ \/ unrecorded' = unrecorded
           \/ Ended("web", Applied("web", m).state) /\ unrecorded' = unrecorded - 1
    BY <1>4, <2>1 DEF WebPoll, AppendEntry, serviceVars, lifecycleVars
  <2>3. ViewOK' /\ SlotOK' /\ IdleInv' /\ (st'["web"].printing <=> NativeActive(m.req))
    BY <1>0, <1>1, <2>1, <2>2, ReadView, ReadIdle DEF SlotOK
  <2>4. (WebSaw' <=> Waiting) /\ (Waiting' <=> Waiting) /\ (Active' <=> Active)
    BY <2>1, <2>2, <2>3 DEF WebSaw, Waiting, Active
  <2>5. Applied("web", m).state.printing <=> NativeActive(m.req)
    BY <1>0, <1>1, AppliedIsStatus
  <2>6. unrecorded' = unrecorded \/ (WebSaw /\ ~Waiting /\ unrecorded' = unrecorded - 1)
    BY <2>1, <2>2, <2>5 DEF Ended, PrintEnded, WebSaw, Waiting
  <2> QED
    BY <1>1, <2>3, <2>4, <2>6 DEF HistoryInv
<1>5. CASE Restart("web")
  <2>1. slot' = <<>> /\ unrecorded' = unrecorded /\ shown' = shown
    BY <1>5 DEF Restart, serviceVars, lifecycleVars
  <2>2. ViewOK' /\ SlotOK' /\ IdleInv' /\ st'["web"].printing = FALSE
    BY <1>0, <1>1, <1>5, RestartView
  <2>3. ~WebSaw' /\ ~Waiting' /\ (Active' <=> Active)
    BY <2>1, <2>2 DEF WebSaw, Waiting, Active
  <2> QED
    BY <1>1, <2>1, <2>2, <2>3 DEF HistoryInv
<1>6. Counted \/ WebPoll
  BY ServiceSide
<1> QED
  BY <1>2, <1>3, <1>4, <1>5, <1>6, ViewSide

----------------------------------------------------------------------------
\* Nothing is printed, recorded or known at the start.
LEMMA InitInv == ClientsInit => ClientsInv
<1> SUFFICES ASSUME ClientsInit PROVE ClientsInv
  OBVIOUS
<1>1. <<>> \in Seq(Command)
  OBVIOUS
<1>2. ServiceOK /\ SlotOK
  BY <1>1 DEF ClientsInit, LifecycleInit, ServiceOK, Shown, JobName, SlotOK
<1>3. FilesOK
  BY DEF ClientsInit, FilesOK, NoRecord, JobName, PcValue
<1>4. ViewOK
  <2>1. \A c \in Client : (c = "web") \in BOOLEAN /\ st[c] = BlankState(c = "web")
    BY DEF ClientsInit
  <2>2. \A c \in Client : st[c] \in Status
    BY <2>1, BlankIsStatus
  <2> QED
    BY <2>2 DEF ClientsInit, ViewOK, JobName
<1>5. RecordInv
  BY DEF ClientsInit, RecordInv, NoRecord, Ready, Client
<1>6. RestInv /\ IdleInv
  <2>1. RestInv
    BY DEF ClientsInit, LifecycleInit, RestInv
  <2>2. \A c \in Client : (c = "web") \in BOOLEAN /\ st[c] = BlankState(c = "web") /\ idleReads[c] = 0
    BY DEF ClientsInit
  <2>3. \A c \in Client : Plain(st[c])
    BY <2>2, BlankIsStatus
  <2> QED
    BY <2>1, <2>2, <2>3 DEF ClientsInit, IdleInv
<1>7. HistoryInv
  BY DEF ClientsInit, LifecycleInit, HistoryInv, WebSaw, Waiting, Active, ActiveShown,
     BlankState, Client
<1> QED
  BY <1>2, <1>3, <1>4, <1>5, <1>6, <1>7 DEF ClientsInv

\* Every step keeps the invariant.
LEMMA NextInv == ClientsInv /\ [ClientsNext]_clientsVars => ClientsInv'
BY ServiceSide, FilesSide, NextHistory DEF ClientsInv

\* The invariant holds in every state.
LEMMA SpecInv == ClientsSpec => []ClientsInv
BY InitInv, NextInv, PTL DEF ClientsSpec

\* A readable record always names an uploaded file that is on disk: the upload, the two
\* clients that answer it and their restarts never leave it naming a file that is gone.
THEOREM RecordAlwaysHasFile == ClientsSpec => []RecordHasFile
<1>1. ClientsInv => RecordHasFile
  BY DEF ClientsInv, RecordInv, RecordHasFile
<1> QED
  BY <1>1, SpecInv, PTL

\* The print history never gets ahead of the prints the service ran, with messages lost,
\* conflated and read late and the web service restarted anywhere.
THEOREM HistoryIsAlwaysOfPrints == ClientsSpec => []HistoryIsOfPrints
<1>1. ClientsInv => HistoryIsOfPrints
  BY DEF ClientsInv, HistoryInv, HistoryIsOfPrints
<1> QED
  BY <1>1, SpecInv, PTL

\* Whatever was sent, refused, late, retained or restarted, a client that has read two idle
\* messages in a row offers the printer: nothing of an earlier job is left in its view.
THEOREM IdleIsAlwaysNoticed == ClientsSpec => []IdleIsNoticed
<1>1. ASSUME NEW s \in Status, AtEase(s), s.file = NoJob
      PROVE  /\ StartAllowed(s) /\ DisplayState(s, FALSE) = "idle"
             /\ StatusLabel(s) = "idle"
             /\ ClusterLabel(StatusLabel(s)) = "idle"
  <2>1. StartAllowed(s)
    BY <1>1 DEF AtEase, StartAllowed
  <2>2. StatusLabel(s) = "idle"
    BY <1>1 DEF AtEase, StatusLabel, ReqIsAbort
  <2>3. DisplayState(s, FALSE) = "idle"
    BY <1>1 DEF AtEase, DisplayState, ReqIsAbort, HasPreparingContext
  <2>4. ClusterLabel(StatusLabel(s)) = "idle"
    BY <2>2 DEF ClusterLabel
  <2> QED
    BY <2>1, <2>2, <2>3, <2>4
<1>2. ASSUME ClientsInv, NEW c \in Client, idleReads[c] = 2
      PROVE  st[c] \in Status /\ AtEase(st[c]) /\ st[c].file = NoJob /\ retained[c] = NoJob
  BY <1>2 DEF ClientsInv, ViewOK, IdleInv
<1>3. ClientsInv => IdleIsNoticed
  BY <1>1, <1>2 DEF IdleIsNoticed
<1> QED
  BY <1>3, SpecInv, PTL
=============================================================================
