------------------------- MODULE PrintServiceProofs -------------------------
(***************************************************************************)
(* Proofs about PrintService, for every window, poll interval, job file    *)
(* and bound that ServiceAssumption allows.                                *)
(***************************************************************************)
EXTENDS PrintService, TLAPS

\* The command lists are lists of commands, of known length.
LEMMA PolicyTypes ==
  /\ AbortPolicy \in Seq(MotionCommand) /\ Len(AbortPolicy) = 6
  /\ FinishPolicy \in Seq(MotionCommand) /\ Len(FinishPolicy) = 7
  /\ PausePolicy \in Seq(MotionCommand) /\ Len(PausePolicy) = 3
  BY DEF AbortPolicy, FinishPolicy, PausePolicy, MotionCommand

\* The same of the preparation lists and of the status poll.
LEMMA ListTypes ==
  /\ HomeCommands \in Seq(MotionCommand) /\ Len(HomeCommands) = 2
  /\ StartupCommands \in Seq(MotionCommand) /\ Len(StartupCommands) = 1
  /\ StatusPoll \in Seq(MotionCommand) /\ <<Head(StatusPoll)>> \in Seq(MotionCommand)
  BY DEF HomeCommands, StartupCommands, StatusPoll, MotionCommand

\* What is in flight when the first or the second write of the poll fails.
LEMMA SubPoll ==
  Len(StatusPoll) = 2 /\ Len(<<Head(StatusPoll)>>) = 1
  BY DEF StatusPoll

\* Appending an element to a sequence.
LEMMA AppendType ==
  ASSUME NEW S, NEW q \in Seq(S), NEW e \in S
  PROVE  Append(q, e) \in Seq(S) /\ Len(Append(q, e)) = Len(q) + 1 /\ Len(q) \in Nat
  OBVIOUS

\* Joining two sequences.
LEMMA ConcatType ==
  ASSUME NEW S, NEW p \in Seq(S), NEW q \in Seq(S)
  PROVE  p \o q \in Seq(S) /\ Len(p \o q) = Len(p) + Len(q)
  OBVIOUS

\* The same of the resume policy, with and without a nozzle target.
LEMMA ResumePolicyType ==
  ASSUME NEW b
  PROVE  /\ ResumePolicy(b) \in Seq(MotionCommand)
         /\ Len(ResumePolicy(b)) \in 2 .. 4
         /\ b => Len(ResumePolicy(b)) = 4
  <1>1. CASE b
    BY <1>1 DEF ResumePolicy, MotionCommand
  <1>2. CASE ~b
    BY <1>2 DEF ResumePolicy, MotionCommand
  <1> QED
    BY <1>1, <1>2

\* A command leaves a set of heaters a set of heaters.
LEMMA HeatAfterType ==
  ASSUME NEW h, NEW c PROVE HeatAfter(h, c) \subseteq Heater
  BY DEF HeatAfter

\* What the proofs use of ServiceAssumption and of the constants.
LEMMA ConstantTypes ==
  /\ MaxLines \in Nat /\ StreamWindow \in Nat /\ PollTicks \in Nat \ {0}
  /\ \A t \in JobTargets : t \subseteq Heater
  /\ \A l \in BodyLine : l.cmd \in MotionCommand /\ l.wait \subseteq Heater
  /\ \A q \in ManualGcode : q \in Seq(Line) /\ q # <<>>
  /\ \A m \in MacroFile : m \in Seq(Line)
  /\ FaultCode \subseteq {"fatal", "command", "serial"}
  BY ServiceAssumption DEF Line, BodyLine, FaultCode, ErrorFromMarlinLine

\* Taking a response off the line leaves a sequence of commands.
LEMMA TailType ==
  ASSUME NEW S, NEW q \in Seq(S), q # <<>>
  PROVE  /\ Head(q) \in S /\ Tail(q) \in Seq(S)
         /\ Len(q) \in Nat /\ Len(Tail(q)) = Len(q) - 1
  OBVIOUS

\* The command a policy index points at is a command.
LEMMA PolicyElement ==
  ASSUME NEW p \in Seq(MotionCommand), NEW k \in Nat, k # 0, MoreToSend(p, k)
  PROVE  p[k] \in MotionCommand
  BY DEF MoreToSend

\* Sending a command keeps the line well formed, whether it is written or not.
LEMMA SendType ==
  ASSUME LineTypeOK, NEW c \in MotionCommand, SendOk(c) \/ SendFails(c), queue' \in Seq(Line)
  PROVE  LineTypeOK'
  <1>1. /\ wire' = Append(wire, c) /\ stale' = stale /\ heating' = heating
        /\ wire \in Seq(MotionCommand)
    BY DEF SendOk, SendFails, Send, LineTypeOK
  <1>4. wire' \in Seq(MotionCommand) /\ Len(wire') = Len(wire) + 1
    BY <1>1, AppendType
  <1>2. unsent' \subseteq unsent \cup {Len(stale) + Len(wire) + 1}
    BY DEF SendOk, SendFails, NextPlace
  <1>3. Len(stale) \in Nat /\ Len(wire) \in Nat
    BY DEF LineTypeOK
  <1> QED
    BY <1>1, <1>2, <1>3, <1>4 DEF LineTypeOK

\* clear_inflight keeps the line well formed.
LEMMA ClearType ==
  ASSUME LineTypeOK, ClearInflight, UNCHANGED queue PROVE LineTypeOK'
  <1>1. /\ stale \o wire \in Seq(MotionCommand)
        /\ Len(stale \o wire) = Len(stale) + Len(wire)
        /\ Len(stale) \in Nat /\ Len(wire) \in Nat
    BY DEF LineTypeOK
  <1> QED
    BY <1>1 DEF LineTypeOK, ClearInflight

USE DEF ServiceIInv, LoopTypeOK, Goto, statusVars, jobVars, policyVars, pauseVars,
        queueVars, linkVars

\* A turn without a command preserves the invariant.
LEMMA NoCommandStep ==
  ASSUME ServiceIInv, NoCommand PROVE ServiceIInv'
  <1>1. FlagTypeOK'
    BY ZenonT(90) DEF FlagTypeOK, NoCommand
  <1>2. StatusTypeOK' /\ JobTypeOK'
    BY DEF StatusTypeOK, JobTypeOK, PrintState, ActiveState, NoCommand
  <1>3. PolicyTypeOK' /\ TurnTypeOK'
    BY DEF PolicyTypeOK, TurnTypeOK, NoCommand
  <1>4. LineTypeOK'
    BY DEF LineTypeOK, NoCommand
  <1>5. OneLifecycle' /\ (pc' = "resume" => resumeAt' # 0)
    BY DEF OneLifecycle, PolicyTypeOK, NoCommand
  <1> QED
    BY <1>1, <1>2, <1>3, <1>4, <1>5

\* Accepting a job (deneb_job_control_accept) preserves the invariant.
LEMMA AcceptJobStep ==
  ASSUME ServiceIInv, NEW t \in JobTargets, AcceptJob(t) PROVE ServiceIInv'
  <1>0. resumeSetpoint' \in BOOLEAN
    <2>1. resumeSetpoint' = ("head" \in t)
      BY DEF AcceptJob
    <2> QED
      BY <2>1
  <1>1. FlagTypeOK'
    BY <1>0, ZenonT(90) DEF FlagTypeOK, AcceptJob, ClearInflight
  <1>2. StatusTypeOK' /\ JobTypeOK'
    BY ConstantTypes, ResumePolicyType DEF StatusTypeOK, JobTypeOK, PrintState,
       ActiveState, AcceptJob
  <1>3. PolicyTypeOK' /\ TurnTypeOK'
    BY ConstantTypes, ResumePolicyType DEF PolicyTypeOK, TurnTypeOK, AcceptJob, Busy
  <1>4. LineTypeOK'
    BY ClearType DEF AcceptJob
  <1>5. OneLifecycle' /\ (pc' = "resume" => resumeAt' # 0)
    BY DEF OneLifecycle, PolicyTypeOK, AcceptJob, Busy
  <1> QED
    BY <1>1, <1>2, <1>3, <1>4, <1>5

\* A job file that cannot be opened preserves the invariant.
LEMMA RejectJobFileStep ==
  ASSUME ServiceIInv, RejectJobFile PROVE ServiceIInv'
  <1>1. FlagTypeOK'
    BY ZenonT(90) DEF FlagTypeOK, RejectJobFile
  <1>2. StatusTypeOK' /\ JobTypeOK'
    BY DEF StatusTypeOK, JobTypeOK, PrintState, ActiveState, RejectJobFile
  <1>3. PolicyTypeOK' /\ TurnTypeOK'
    BY DEF PolicyTypeOK, TurnTypeOK, RejectJobFile
  <1>4. LineTypeOK'
    BY DEF LineTypeOK, RejectJobFile
  <1>5. OneLifecycle' /\ (pc' = "resume" => resumeAt' # 0)
    BY DEF OneLifecycle, PolicyTypeOK, RejectJobFile
  <1> QED
    BY <1>1, <1>2, <1>3, <1>4, <1>5

\* What an abort does, for the client's ABORT and for the automatic one.
LEMMA StartAbortStep ==
  ASSUME ServiceIInv, StartAbort, pc' \in {"read", "pause"},
         UNCHANGED <<ticks, fatalSeen>>
  PROVE  ServiceIInv'
  <1>1. FlagTypeOK'
    BY ZenonT(90) DEF FlagTypeOK, StartAbort
  <1>2. StatusTypeOK' /\ JobTypeOK'
    BY ConstantTypes DEF StatusTypeOK, JobTypeOK, PrintState, ActiveState, StartAbort
  <1>3. PolicyTypeOK' /\ TurnTypeOK'
    BY PolicyTypes, ResumePolicyType DEF PolicyTypeOK, TurnTypeOK, StartAbort
  <1>4. LineTypeOK'
    BY DEF LineTypeOK, StartAbort
  <1>5. OneLifecycle' /\ pc' # "resume"
    BY DEF OneLifecycle, StartAbort
  <1> QED
    BY <1>1, <1>2, <1>3, <1>4, <1>5

\* The ABORT command preserves the invariant.
LEMMA AbortStep ==
  ASSUME ServiceIInv, Abort PROVE ServiceIInv'
  BY StartAbortStep DEF Abort

\* The PAUSE command preserves the invariant.
LEMMA PauseStep ==
  ASSUME ServiceIInv, Pause PROVE ServiceIInv'
  <1>1. FlagTypeOK'
    BY ZenonT(90) DEF FlagTypeOK, Pause, SavePauseState
  <1>2. StatusTypeOK' /\ JobTypeOK'
    BY ResumePolicyType DEF StatusTypeOK, JobTypeOK, PrintState, ActiveState, Pause
  <1>3. PolicyTypeOK' /\ TurnTypeOK'
    BY ResumePolicyType DEF PolicyTypeOK, TurnTypeOK, Pause, Busy, SavePauseState
  <1>4. LineTypeOK'
    BY ResumePolicyType DEF LineTypeOK, Pause
  <1>5. OneLifecycle' /\ (pc' = "resume" => resumeAt' # 0)
    BY DEF OneLifecycle, PolicyTypeOK, Pause, Busy
  <1> QED
    BY <1>1, <1>2, <1>3, <1>4, <1>5

\* The RESUME command preserves the invariant.
LEMMA ResumeStep ==
  ASSUME ServiceIInv, Resume PROVE ServiceIInv'
  <1>1. FlagTypeOK'
    BY ZenonT(90) DEF FlagTypeOK, Resume
  <1>2. StatusTypeOK' /\ JobTypeOK'
    BY ResumePolicyType, HeatAfterType DEF StatusTypeOK, JobTypeOK, PrintState,
       ActiveState, Resume
  <1>3. PolicyTypeOK' /\ TurnTypeOK'
    BY ResumePolicyType, HeatAfterType DEF PolicyTypeOK, TurnTypeOK, Resume
  <1>4. LineTypeOK'
    BY ResumePolicyType, HeatAfterType DEF LineTypeOK, Resume
  <1>5. OneLifecycle' /\ (pc' = "resume" => resumeAt' # 0)
    BY DEF OneLifecycle, PolicyTypeOK, Resume, Busy
  <1> QED
    BY <1>1, <1>2, <1>3, <1>4, <1>5

\* The GCODE command preserves the invariant.
LEMMA RunGcodeStep ==
  ASSUME ServiceIInv, NEW q \in ManualGcode, RunGcode(q) PROVE ServiceIInv'
  <1>1. FlagTypeOK'
    BY ZenonT(90) DEF FlagTypeOK, RunGcode
  <1>2. StatusTypeOK' /\ JobTypeOK'
    BY ConstantTypes DEF StatusTypeOK, JobTypeOK, PrintState, ActiveState, RunGcode,
       TargetsAfterAll, RefreshedState
  <1>3. PolicyTypeOK' /\ TurnTypeOK'
    BY ConstantTypes DEF PolicyTypeOK, TurnTypeOK, RunGcode
  <1>4. LineTypeOK'
    BY ConstantTypes DEF LineTypeOK, RunGcode
  <1>5. OneLifecycle' /\ (pc' = "resume" => resumeAt' # 0)
    BY DEF OneLifecycle, PolicyTypeOK, RunGcode
  <1> QED
    BY <1>1, <1>2, <1>3, <1>4, <1>5

\* The end of the lines to read preserves the invariant.
LEMMA ReadDoneStep ==
  ASSUME ServiceIInv, ReadDone PROVE ServiceIInv'
  <1>1. FlagTypeOK'
    BY ZenonT(90) DEF FlagTypeOK, ReadDone
  <1>2. StatusTypeOK' /\ JobTypeOK'
    BY DEF StatusTypeOK, JobTypeOK, PrintState, ActiveState, ReadDone
  <1>3. PolicyTypeOK' /\ TurnTypeOK'
    BY DEF PolicyTypeOK, TurnTypeOK, ReadDone
  <1>4. LineTypeOK'
    BY DEF LineTypeOK, ReadDone
  <1>5. OneLifecycle' /\ (pc' = "resume" => resumeAt' # 0)
    BY DEF OneLifecycle, PolicyTypeOK, ReadDone
  <1> QED
    BY <1>1, <1>2, <1>3, <1>4, <1>5

\* The automatic abort of deneb_print_service_poll_motion
\* preserves the invariant.
LEMMA CheckFaultsStep ==
  ASSUME ServiceIInv, CheckFaults PROVE ServiceIInv'
  <1>1. CASE StartAbort
    BY <1>1, StartAbortStep DEF CheckFaults
  <1>2. CASE ~StartAbort
    <2>1. /\ UNCHANGED <<statusVars, jobVars, policyVars, pauseVars, queueVars, linkVars,
                        ticks, fatalSeen>>
          /\ pc' = "pause"
      BY <1>2 DEF CheckFaults
    <2>2. FlagTypeOK'
      BY <2>1, ZenonT(90) DEF FlagTypeOK
    <2>3. StatusTypeOK' /\ JobTypeOK' /\ LineTypeOK'
      BY <2>1 DEF StatusTypeOK, JobTypeOK, LineTypeOK
    <2>4. PolicyTypeOK' /\ TurnTypeOK'
      BY <2>1 DEF PolicyTypeOK, TurnTypeOK
    <2>5. OneLifecycle' /\ pc' # "resume"
      BY <2>1 DEF OneLifecycle
    <2> QED
      BY <2>2, <2>3, <2>4, <2>5
  <1> QED
    BY <1>1, <1>2

\* A line passed to the observer leaves the status well formed.
LEMMA ObserveType ==
  ASSUME NEW s \in PrintState, NEW t \in SUBSET Heater, NEW w \in SUBSET Heater,
         Observe(s, t, w), StatusTypeOK, UNCHANGED error
  PROVE  StatusTypeOK'
  BY DEF Observe, StatusTypeOK, PrintState, ActiveState

\* A command the controller executed keeps the status and the heaters in range.
LEMMA ExecutedType ==
  ASSUME StatusTypeOK, LineTypeOK, NEW c, Executed(c)
  PROVE  StatusTypeOK' /\ heating' \subseteq Heater
  <1>1. heating' \subseteq Heater
    BY HeatAfterType DEF Executed
  <1>2. CASE c = "temperature"
    <2>1. PICK w \in SUBSET Heater : Observe(state, heating, w)
      BY <1>2 DEF Executed
    <2> QED
      BY <1>1, <2>1, ObserveType DEF StatusTypeOK, LineTypeOK, Executed
  <1>3. CASE c # "temperature"
    BY <1>1, <1>3, ObserveType DEF StatusTypeOK, Executed
  <1> QED
    BY <1>2, <1>3

\* Reading a response preserves the invariant.
LEMMA ReadResponseStep ==
  ASSUME ServiceIInv, ReadResponse PROVE ServiceIInv'
  <1>1. PICK c : Executed(c)
    BY DEF ReadResponse
  <1>2. FlagTypeOK'
    BY <1>1, ZenonT(90) DEF FlagTypeOK, Executed, ReadResponse
  <1>3. StatusTypeOK' /\ heating' \subseteq Heater
    BY <1>1, ExecutedType
  <1>4. JobTypeOK' /\ PolicyTypeOK' /\ TurnTypeOK'
    BY <1>1 DEF Executed, JobTypeOK, PolicyTypeOK, TurnTypeOK
  <1>5. wire' \in Seq(MotionCommand) /\ stale' \in Seq(MotionCommand)
    BY TailType DEF ReadResponse, LineTypeOK
  <1>6. Len(stale') + Len(wire') = Len(stale) + Len(wire) - 1
    <2>1. /\ stale # <<>> => Len(Tail(stale)) = Len(stale) - 1
          /\ wire # <<>> => Len(Tail(wire)) = Len(wire) - 1
          /\ Len(stale) \in Nat /\ Len(wire) \in Nat
      BY TailType DEF LineTypeOK
    <2> QED
      BY <2>1 DEF ReadResponse
  <1>8. unsent' \subseteq 1 .. Len(stale') + Len(wire')
    <2>1. Len(stale) + Len(wire) \in Nat
      BY DEF LineTypeOK
    <2>2. ASSUME NEW k \in unsent PROVE k - 1 \in 1 .. Len(stale) + Len(wire) - 1
      BY <2>1, <2>2 DEF LineTypeOK, ReadResponse
    <2> QED
      BY <1>6, <2>2 DEF ReadResponse
  <1>9. LineTypeOK'
    BY <1>1, <1>3, <1>5, <1>8 DEF Executed, LineTypeOK
  <1>7. OneLifecycle' /\ (pc' = "resume" => resumeAt' # 0)
    BY <1>1 DEF OneLifecycle, Executed
  <1> QED
    BY <1>2, <1>3, <1>4, <1>7, <1>9

\* Reading a fault line preserves the invariant.
LEMMA ReadFaultStep ==
  ASSUME ServiceIInv, NEW code \in FaultCode, NEW saysError \in BOOLEAN,
         ReadFault(code, saysError) PROVE ServiceIInv'
  <1>1. FlagTypeOK'
    BY ZenonT(90) DEF FlagTypeOK, ReadFault, SerialError
  <1>2. StatusTypeOK' /\ JobTypeOK'
    BY ConstantTypes DEF StatusTypeOK, JobTypeOK, PrintState, ActiveState,
       ReadFault, SerialError, Observe
  <1>3. PolicyTypeOK' /\ TurnTypeOK'
    BY ConstantTypes DEF PolicyTypeOK, TurnTypeOK, ReadFault, SerialError
  <1>4. LineTypeOK'
    BY ConstantTypes DEF LineTypeOK, ReadFault, SerialError
  <1>5. OneLifecycle' /\ (pc' = "resume" => resumeAt' # 0)
    BY DEF OneLifecycle, PolicyTypeOK, ReadFault, SerialError
  <1> QED
    BY <1>1, <1>2, <1>3, <1>4, <1>5

\* A reject, and the replay it starts, preserves the invariant.
LEMMA ReadRejectStep ==
  ASSUME ServiceIInv, ReadReject PROVE ServiceIInv'
  <1>1. FlagTypeOK'
    BY ZenonT(90) DEF FlagTypeOK, ReadReject, SerialErrorIfActive, SerialError, Observe
  <1>2. StatusTypeOK' /\ JobTypeOK'
    BY DEF StatusTypeOK, JobTypeOK, PrintState, ActiveState, ReadReject,
       SerialErrorIfActive, SerialError, Observe
  <1>3. PolicyTypeOK' /\ TurnTypeOK'
    BY DEF PolicyTypeOK, TurnTypeOK, ReadReject, SerialErrorIfActive, SerialError
  <1>4. LineTypeOK'
    <2>1. unsent' = {} \/ \E k \in DOMAIN wire : unsent' = k .. Len(wire)
      BY DEF ReadReject
    <2>2. unsent' \subseteq 1 .. Len(stale) + Len(wire)
      BY <2>1 DEF ReadReject, LineTypeOK
    <2> QED
      BY <2>2 DEF ReadReject, LineTypeOK
  <1>5. OneLifecycle' /\ (pc' = "resume" => resumeAt' # 0)
    BY DEF OneLifecycle, PolicyTypeOK, ReadReject, SerialErrorIfActive, SerialError
  <1> QED
    BY <1>1, <1>2, <1>3, <1>4, <1>5

\* Reading a damaged response preserves the invariant.
LEMMA ReadGarbledStep ==
  ASSUME ServiceIInv, ReadGarbled PROVE ServiceIInv'
  <1>1. FlagTypeOK'
    BY ZenonT(90) DEF FlagTypeOK, ReadGarbled, SerialErrorIfActive, SerialError
  <1>2. StatusTypeOK' /\ JobTypeOK'
    BY DEF StatusTypeOK, JobTypeOK, PrintState, ActiveState, ReadGarbled,
       SerialErrorIfActive, SerialError
  <1>3. PolicyTypeOK' /\ TurnTypeOK'
    BY DEF PolicyTypeOK, TurnTypeOK, ReadGarbled, SerialErrorIfActive, SerialError
  <1>4. LineTypeOK'
    BY DEF LineTypeOK, ReadGarbled, SerialErrorIfActive, SerialError
  <1>5. OneLifecycle' /\ (pc' = "resume" => resumeAt' # 0)
    BY DEF OneLifecycle, PolicyTypeOK, ReadGarbled, SerialErrorIfActive, SerialError
  <1> QED
    BY <1>1, <1>2, <1>3, <1>4, <1>5

\* A resynchronisation preserves the invariant.
LEMMA ReadProtoErrorStep ==
  ASSUME ServiceIInv, ReadProtoError PROVE ServiceIInv'
  <1>1. FlagTypeOK'
    BY ZenonT(90) DEF FlagTypeOK, ReadProtoError, SerialErrorIfActive, SerialError,
       Observe
  <1>2. StatusTypeOK' /\ JobTypeOK'
    BY DEF StatusTypeOK, JobTypeOK, PrintState, ActiveState, ReadProtoError,
       SerialErrorIfActive, SerialError, Observe
  <1>3. PolicyTypeOK' /\ TurnTypeOK'
    BY DEF PolicyTypeOK, TurnTypeOK, ReadProtoError, SerialErrorIfActive, SerialError,
       Observe
  <1>4. LineTypeOK'
    BY DEF LineTypeOK, ReadProtoError, SerialErrorIfActive, SerialError, Observe
  <1>5. OneLifecycle' /\ (pc' = "resume" => resumeAt' # 0)
    BY DEF OneLifecycle, PolicyTypeOK, ReadProtoError, SerialErrorIfActive,
       SerialError, Observe
  <1> QED
    BY <1>1, <1>2, <1>3, <1>4, <1>5

\* poll_pause_position_probe preserves the invariant.
LEMMA PollProbeStep ==
  ASSUME ServiceIInv, PollProbe PROVE ServiceIInv'
  <1>1. FlagTypeOK'
    BY ZenonT(90) DEF FlagTypeOK, PollProbe, SendOk, SendFails, Send, SavePauseState,
       LifecycleError
  <1>2. StatusTypeOK' /\ JobTypeOK'
    BY PolicyTypes, ResumePolicyType DEF StatusTypeOK, JobTypeOK, PrintState,
       ActiveState, PollProbe, SendOk, SendFails, Send, LifecycleError
  <1>3. PolicyTypeOK' /\ TurnTypeOK'
    BY PolicyTypes, ResumePolicyType DEF PolicyTypeOK, TurnTypeOK, PollProbe, SendOk,
       SendFails, Send, SavePauseState, OneLifecycle, ProbeAnswered
  <1>4. LineTypeOK'
    BY SendType DEF LineTypeOK, MotionCommand, PollProbe, SendOk, SendFails
  <1>5. OneLifecycle' /\ (pc' = "resume" => resumeAt' # 0)
    BY DEF OneLifecycle, PolicyTypeOK, PollProbe, SendOk, SendFails, Send
  <1> QED
    BY <1>1, <1>2, <1>3, <1>4, <1>5

\* A turn of poll_job that a pause or resume holds up
\* preserves the invariant.
LEMMA JobBusyStep ==
  ASSUME ServiceIInv, JobBusy PROVE ServiceIInv'
  <1>1. FlagTypeOK'
    BY ZenonT(90) DEF FlagTypeOK, JobBusy
  <1>2. StatusTypeOK' /\ JobTypeOK'
    BY DEF StatusTypeOK, JobTypeOK, PrintState, ActiveState, JobBusy
  <1>3. PolicyTypeOK' /\ TurnTypeOK'
    BY DEF PolicyTypeOK, TurnTypeOK, JobBusy
  <1>4. LineTypeOK'
    BY DEF LineTypeOK, JobBusy
  <1>5. OneLifecycle' /\ (pc' = "resume" => resumeAt' # 0)
    BY DEF OneLifecycle, PolicyTypeOK, JobBusy
  <1> QED
    BY <1>1, <1>2, <1>3, <1>4, <1>5

\* deneb_gcode_control_refresh_manual_status preserves the invariant.
LEMMA RefreshStatusStep ==
  ASSUME ServiceIInv, RefreshStatus PROVE ServiceIInv'
  <1>1. FlagTypeOK'
    BY ZenonT(90) DEF FlagTypeOK, RefreshStatus
  <1>2. StatusTypeOK' /\ JobTypeOK'
    BY DEF StatusTypeOK, JobTypeOK, PrintState, ActiveState, RefreshStatus,
       RefreshedState
  <1>3. PolicyTypeOK' /\ TurnTypeOK'
    BY DEF PolicyTypeOK, TurnTypeOK, RefreshStatus
  <1>4. LineTypeOK'
    BY DEF LineTypeOK, RefreshStatus
  <1>5. OneLifecycle' /\ (pc' = "resume" => resumeAt' # 0)
    BY DEF OneLifecycle, PolicyTypeOK, RefreshStatus
  <1> QED
    BY <1>1, <1>2, <1>3, <1>4, <1>5

\* The recurring status probe preserves the invariant.
LEMMA PollStatusStep ==
  ASSUME ServiceIInv, PollStatus PROVE ServiceIInv'
  <1>1. FlagTypeOK'
    BY ZenonT(90) DEF FlagTypeOK, PollStatus, SendStatusProbe
  <1>2. StatusTypeOK' /\ JobTypeOK'
    BY ConstantTypes DEF StatusTypeOK, JobTypeOK, PrintState, ActiveState, PollStatus
  <1>3. PolicyTypeOK' /\ TurnTypeOK'
    BY ConstantTypes DEF PolicyTypeOK, TurnTypeOK, PollStatus, AfterPoll
  <1>4. LineTypeOK'
    <2>1. CASE UNCHANGED linkVars
      BY <2>1 DEF LineTypeOK, PollStatus
    <2>2. CASE SendStatusProbe /\ wire = <<>>
      <3>1. wire' = StatusPoll \/ wire' = <<Head(StatusPoll)>>
        BY <2>2, SubPoll DEF SendStatusProbe
      <3>2. /\ wire' \in Seq(MotionCommand) /\ stale' = stale /\ Len(wire') \in {1, 2}
            /\ Len(wire) = 0 /\ Len(stale) \in Nat
        BY <2>2, <3>1, ListTypes, SubPoll DEF SendStatusProbe, LineTypeOK
      <3>3. \/ unsent' = unsent
            \/ unsent' = unsent \cup {Len(stale) + Len(wire')} /\ Len(wire') \in {1, 2}
        BY <2>2, SubPoll DEF SendStatusProbe
      <3>4. unsent' \subseteq 1 .. Len(stale') + Len(wire')
        <4>1. unsent \subseteq 1 .. Len(stale)
          BY <3>2 DEF LineTypeOK
        <4>2. ASSUME NEW a \in Nat, NEW b \in {1, 2}
              PROVE  1 .. a \subseteq 1 .. a + b /\ a + b \in 1 .. a + b
          OBVIOUS
        <4>3. /\ 1 .. Len(stale) \subseteq 1 .. Len(stale) + Len(wire')
              /\ Len(stale) + Len(wire') \in 1 .. Len(stale) + Len(wire')
          BY <3>2, <4>2
        <4> QED
          BY <3>2, <3>3, <4>1, <4>3, Zenon
      <3> QED
        BY <2>2, <3>2, <3>4 DEF SendStatusProbe, LineTypeOK, PollStatus
    <2> QED
      BY <2>1, <2>2 DEF PollStatus
  <1>5. OneLifecycle' /\ (pc' = "resume" => resumeAt' # 0)
    BY DEF OneLifecycle, PolicyTypeOK, PollStatus, AfterPoll
  <1> QED
    BY <1>1, <1>2, <1>3, <1>4, <1>5

\* poll_policy on the pause policy preserves the invariant.
LEMMA PollPausePolicyStep ==
  ASSUME ServiceIInv, PollPausePolicy PROVE ServiceIInv'
  <1>1. FlagTypeOK'
    BY ZenonT(90) DEF FlagTypeOK, PollPausePolicy, LifecycleError, SendOk, SendFails,
       Send
  <1>2. StatusTypeOK' /\ JobTypeOK'
    BY PolicyTypes DEF StatusTypeOK, JobTypeOK, PrintState, ActiveState,
       PollPausePolicy, LifecycleError
  <1>3. PolicyTypeOK' /\ TurnTypeOK'
    BY PolicyTypes DEF PolicyTypeOK, TurnTypeOK, PollPausePolicy, MoreToSend
  <1>4. LineTypeOK'
    <2>1. CASE pauseAt # 0 /\ MoreToSend(PausePolicy, pauseAt)
      <3>1. pauseAt \in Nat
        BY PolicyTypes DEF PolicyTypeOK
      <3>2. PausePolicy[pauseAt] \in MotionCommand
        BY <2>1, <3>1, PolicyTypes, PolicyElement
      <3> QED
        BY <2>1, <3>2, SendType, ClearType DEF PollPausePolicy, SendOk, SendFails,
           LineTypeOK
    <2>2. CASE ~(pauseAt # 0 /\ MoreToSend(PausePolicy, pauseAt))
      BY <2>2, ClearType DEF PollPausePolicy, SendOk, SendFails, LineTypeOK
    <2> QED
      BY <2>1, <2>2
  <1>5. OneLifecycle' /\ (pc' = "resume" => resumeAt' # 0)
    BY DEF OneLifecycle, PolicyTypeOK, PollPausePolicy
  <1> QED
    BY <1>1, <1>2, <1>3, <1>4, <1>5

\* deneb_job_control_poll_abort_cleanup preserves the invariant.
LEMMA PollAbortCleanupStep ==
  ASSUME ServiceIInv, PollAbortCleanup PROVE ServiceIInv'
  <1>1. FlagTypeOK'
    BY ZenonT(90) DEF FlagTypeOK, PollAbortCleanup, LifecycleError, ClearInflight,
       SendOk, SendFails, Send
  <1>2. StatusTypeOK' /\ JobTypeOK'
    BY PolicyTypes DEF StatusTypeOK, JobTypeOK, PrintState, ActiveState,
       PollAbortCleanup, LifecycleError
  <1>3. PolicyTypeOK' /\ TurnTypeOK'
    BY PolicyTypes DEF PolicyTypeOK, TurnTypeOK, PollAbortCleanup, MoreToSend
  <1>4. LineTypeOK'
    <2>1. CASE abortAt # 0 /\ MoreToSend(AbortPolicy, abortAt)
      <3>1. abortAt \in Nat
        BY PolicyTypes DEF PolicyTypeOK
      <3>2. AbortPolicy[abortAt] \in MotionCommand
        BY <2>1, <3>1, PolicyTypes, PolicyElement
      <3> QED
        BY <2>1, <3>2, SendType, ClearType DEF PollAbortCleanup, SendOk, SendFails,
           LineTypeOK
    <2>2. CASE ~(abortAt # 0 /\ MoreToSend(AbortPolicy, abortAt))
      BY <2>2, ClearType DEF PollAbortCleanup, SendOk, SendFails, LineTypeOK
    <2> QED
      BY <2>1, <2>2
  <1>5. OneLifecycle' /\ (pc' = "resume" => resumeAt' # 0)
    BY DEF OneLifecycle, PolicyTypeOK, PollAbortCleanup
  <1> QED
    BY <1>1, <1>2, <1>3, <1>4, <1>5

\* deneb_job_control_poll_finish_cleanup preserves the invariant.
LEMMA PollFinishCleanupStep ==
  ASSUME ServiceIInv, PollFinishCleanup PROVE ServiceIInv'
  <1>1. FlagTypeOK'
    BY ZenonT(90) DEF FlagTypeOK, PollFinishCleanup, LifecycleError, ClearInflight,
       SendOk, SendFails, Send
  <1>2. StatusTypeOK' /\ JobTypeOK'
    BY PolicyTypes DEF StatusTypeOK, JobTypeOK, PrintState, ActiveState,
       PollFinishCleanup, LifecycleError
  <1>3. PolicyTypeOK' /\ TurnTypeOK'
    BY PolicyTypes DEF PolicyTypeOK, TurnTypeOK, PollFinishCleanup, MoreToSend
  <1>4. LineTypeOK'
    <2>1. CASE finishAt # 0 /\ MoreToSend(FinishPolicy, finishAt)
      <3>1. finishAt \in Nat
        BY PolicyTypes DEF PolicyTypeOK
      <3>2. FinishPolicy[finishAt] \in MotionCommand
        BY <2>1, <3>1, PolicyTypes, PolicyElement
      <3> QED
        BY <2>1, <3>2, SendType, ClearType DEF PollFinishCleanup, SendOk, SendFails,
           LineTypeOK
    <2>2. CASE ~(finishAt # 0 /\ MoreToSend(FinishPolicy, finishAt))
      BY <2>2, ClearType DEF PollFinishCleanup, SendOk, SendFails, LineTypeOK
    <2> QED
      BY <2>1, <2>2
  <1>5. OneLifecycle' /\ (pc' = "resume" => resumeAt' # 0)
    BY DEF OneLifecycle, PolicyTypeOK, PollFinishCleanup
  <1> QED
    BY <1>1, <1>2, <1>3, <1>4, <1>5

\* send_resume_heat_command preserves the invariant.
LEMMA PollResumeHeatStep ==
  ASSUME ServiceIInv, PollResumeHeat PROVE ServiceIInv'
  <1>1. FlagTypeOK'
    BY ZenonT(90) DEF FlagTypeOK, PollResumeHeat, LifecycleError, SendOk, SendFails,
       Send
  <1>2. StatusTypeOK' /\ JobTypeOK'
    BY ResumePolicyType DEF StatusTypeOK, JobTypeOK, PrintState, ActiveState,
       PollResumeHeat, LifecycleError, ApplyHeaterWait, Heater
  <1>3. PolicyTypeOK' /\ TurnTypeOK'
    <2>1. Len(ResumePolicy(pausedNozzle)) \in 2 .. 4 /\ pausedNozzle' = pausedNozzle
      BY ResumePolicyType DEF PollResumeHeat
    <2>2. resumeAt' \in {0, 1, 2}
      BY DEF PollResumeHeat
    <2>3. resumeAt' \in 0 .. Len(ResumePolicy(pausedNozzle')) + 1
      BY <2>1, <2>2
    <2>4. UNCHANGED <<abortAt, finishAt, pauseAt, probe>>
      BY DEF PollResumeHeat
    <2>5. TurnTypeOK'
      BY DEF TurnTypeOK, PollResumeHeat
    <2> QED
      BY <2>3, <2>4, <2>5 DEF PolicyTypeOK
  <1>4. LineTypeOK'
    BY SendType DEF PollResumeHeat, SendOk, SendFails, LineTypeOK, MotionCommand
  <1>5. OneLifecycle' /\ (pc' = "resume" => resumeAt' # 0)
    BY DEF OneLifecycle, PolicyTypeOK, PollResumeHeat
  <1> QED
    BY <1>1, <1>2, <1>3, <1>4, <1>5

\* The heater wait before the resume policy preserves the invariant.
LEMMA PollResumeWaitStep ==
  ASSUME ServiceIInv, PollResumeWait PROVE ServiceIInv'
  <1>1. FlagTypeOK'
    BY ZenonT(90) DEF FlagTypeOK, PollResumeWait, ApplyHeaterWait
  <1>2. StatusTypeOK' /\ JobTypeOK'
    BY DEF StatusTypeOK, JobTypeOK, PrintState, ActiveState, PollResumeWait,
       ApplyHeaterWait
  <1>3. PolicyTypeOK' /\ TurnTypeOK'
    BY DEF PolicyTypeOK, TurnTypeOK, PollResumeWait
  <1>4. LineTypeOK'
    BY DEF LineTypeOK, PollResumeWait
  <1>5. OneLifecycle' /\ (pc' = "resume" => resumeAt' # 0)
    BY DEF OneLifecycle, PolicyTypeOK, PollResumeWait
  <1> QED
    BY <1>1, <1>2, <1>3, <1>4, <1>5

\* poll_policy on the resume policy preserves the invariant.
LEMMA PollResumePolicyStep ==
  ASSUME ServiceIInv, PollResumePolicy PROVE ServiceIInv'
  <1>1. FlagTypeOK'
    BY ZenonT(90) DEF FlagTypeOK, PollResumePolicy, LifecycleError, SendOk, SendFails,
       Send
  <1>2. StatusTypeOK' /\ JobTypeOK'
    BY ResumePolicyType DEF StatusTypeOK, JobTypeOK, PrintState, ActiveState,
       PollResumePolicy, LifecycleError
  <1>3. PolicyTypeOK' /\ TurnTypeOK'
    BY ResumePolicyType DEF PolicyTypeOK, TurnTypeOK, PollResumePolicy, MoreToSend
  <1>4. LineTypeOK'
    <2>1. CASE resumeAt # 0 /\ MoreToSend(ResumePolicy(pausedNozzle), resumeAt)
      <3>1. resumeAt \in Nat
        BY ResumePolicyType DEF PolicyTypeOK
      <3>2. ResumePolicy(pausedNozzle)[resumeAt] \in MotionCommand
        BY <2>1, <3>1, ResumePolicyType, PolicyElement
      <3> QED
        BY <2>1, <3>2, SendType, ClearType DEF PollResumePolicy, SendOk, SendFails,
           LineTypeOK
    <2>2. CASE ~(resumeAt # 0 /\ MoreToSend(ResumePolicy(pausedNozzle), resumeAt))
      BY <2>2, ClearType DEF PollResumePolicy, SendOk, SendFails, LineTypeOK
    <2> QED
      BY <2>1, <2>2
  <1>5. OneLifecycle' /\ (pc' = "resume" => resumeAt' # 0)
    BY DEF OneLifecycle, PolicyTypeOK, PollResumePolicy
  <1> QED
    BY <1>1, <1>2, <1>3, <1>4, <1>5

\* The heater wait of the G-code queue preserves the invariant.
LEMMA PollGcodeWaitStep ==
  ASSUME ServiceIInv, PollGcodeWait PROVE ServiceIInv'
  <1>1. FlagTypeOK'
    BY ZenonT(90) DEF FlagTypeOK, PollGcodeWait, GcodeReturn
  <1>2. StatusTypeOK' /\ JobTypeOK'
    BY DEF StatusTypeOK, JobTypeOK, PrintState, ActiveState, PollGcodeWait,
       GcodeReturn, ApplyHeaterWait
  <1>3. PolicyTypeOK' /\ TurnTypeOK'
    BY DEF PolicyTypeOK, TurnTypeOK, PollGcodeWait, GcodeReturn
  <1>4. LineTypeOK'
    BY DEF LineTypeOK, PollGcodeWait, GcodeReturn
  <1>5. OneLifecycle' /\ (pc' = "resume" => resumeAt' # 0)
    BY DEF OneLifecycle, PolicyTypeOK, PollGcodeWait, GcodeReturn
  <1> QED
    BY <1>1, <1>2, <1>3, <1>4, <1>5

\* The end of the G-code queue preserves the invariant.
LEMMA PollGcodeDoneStep ==
  ASSUME ServiceIInv, PollGcodeDone PROVE ServiceIInv'
  <1>1. FlagTypeOK'
    BY ZenonT(90) DEF FlagTypeOK, PollGcodeDone
  <1>2. StatusTypeOK' /\ JobTypeOK'
    BY DEF StatusTypeOK, JobTypeOK, PrintState, ActiveState, PollGcodeDone,
       RefreshedState
  <1>3. PolicyTypeOK' /\ TurnTypeOK'
    BY DEF PolicyTypeOK, TurnTypeOK, PollGcodeDone
  <1>4. LineTypeOK'
    BY DEF LineTypeOK, PollGcodeDone
  <1>5. OneLifecycle' /\ (pc' = "resume" => resumeAt' # 0)
    BY DEF OneLifecycle, PolicyTypeOK, PollGcodeDone
  <1> QED
    BY <1>1, <1>2, <1>3, <1>4, <1>5

\* A turn of the streamer without a job preserves the invariant.
LEMMA StreamNothingStep ==
  ASSUME ServiceIInv, StreamNothing PROVE ServiceIInv'
  <1>1. FlagTypeOK'
    BY ZenonT(90) DEF FlagTypeOK, StreamNothing
  <1>2. StatusTypeOK' /\ JobTypeOK'
    BY DEF StatusTypeOK, JobTypeOK, PrintState, ActiveState, StreamNothing
  <1>3. PolicyTypeOK' /\ TurnTypeOK'
    BY DEF PolicyTypeOK, TurnTypeOK, StreamNothing
  <1>4. LineTypeOK'
    BY DEF LineTypeOK, StreamNothing
  <1>5. OneLifecycle' /\ (pc' = "resume" => resumeAt' # 0)
    BY DEF OneLifecycle, PolicyTypeOK, StreamNothing
  <1> QED
    BY <1>1, <1>2, <1>3, <1>4, <1>5

\* Dropping the job in the error state preserves the invariant.
LEMMA StreamAfterErrorStep ==
  ASSUME ServiceIInv, StreamAfterError PROVE ServiceIInv'
  <1>1. FlagTypeOK'
    BY ZenonT(90) DEF FlagTypeOK, StreamAfterError, DropJob, ClearInflight
  <1>2. StatusTypeOK' /\ JobTypeOK'
    BY ConstantTypes DEF StatusTypeOK, JobTypeOK, PrintState, ActiveState,
       StreamAfterError, DropJob
  <1>3. PolicyTypeOK' /\ TurnTypeOK'
    BY ConstantTypes DEF PolicyTypeOK, TurnTypeOK, StreamAfterError, DropJob
  <1>4. LineTypeOK'
    BY ClearType DEF StreamAfterError
  <1>5. OneLifecycle' /\ (pc' = "resume" => resumeAt' # 0)
    BY DEF OneLifecycle, PolicyTypeOK, StreamAfterError, DropJob
  <1> QED
    BY <1>1, <1>2, <1>3, <1>4, <1>5

\* A turn of the streamer with a paused or finishing job
\* preserves the invariant.
LEMMA StreamHeldStep ==
  ASSUME ServiceIInv, StreamHeld PROVE ServiceIInv'
  <1>1. FlagTypeOK'
    BY ZenonT(90) DEF FlagTypeOK, StreamHeld
  <1>2. StatusTypeOK' /\ JobTypeOK'
    BY DEF StatusTypeOK, JobTypeOK, PrintState, ActiveState, StreamHeld
  <1>3. PolicyTypeOK' /\ TurnTypeOK'
    BY DEF PolicyTypeOK, TurnTypeOK, StreamHeld
  <1>4. LineTypeOK'
    BY DEF LineTypeOK, StreamHeld
  <1>5. OneLifecycle' /\ (pc' = "resume" => resumeAt' # 0)
    BY DEF OneLifecycle, PolicyTypeOK, StreamHeld
  <1> QED
    BY <1>1, <1>2, <1>3, <1>4, <1>5

\* A waiting stage of poll_job_prepare preserves the invariant.
LEMMA PrepareWaitStep ==
  ASSUME ServiceIInv, PrepareWait PROVE ServiceIInv'
  <1>1. FlagTypeOK'
    BY ZenonT(90) DEF FlagTypeOK, PrepareWait
  <1>2. StatusTypeOK' /\ JobTypeOK'
    BY DEF StatusTypeOK, JobTypeOK, PrintState, ActiveState, PrepareWait,
       ApplyHeaterWait
  <1>3. PolicyTypeOK' /\ TurnTypeOK'
    BY DEF PolicyTypeOK, TurnTypeOK, PrepareWait
  <1>4. LineTypeOK'
    BY DEF LineTypeOK, PrepareWait
  <1>5. OneLifecycle' /\ (pc' = "resume" => resumeAt' # 0)
    BY DEF OneLifecycle, PolicyTypeOK, PrepareWait, Streaming
  <1> QED
    BY <1>1, <1>2, <1>3, <1>4, <1>5

\* A turn in which the body has to wait preserves the invariant.
LEMMA BodyWaitStep ==
  ASSUME ServiceIInv, BodyWait PROVE ServiceIInv'
  <1>1. FlagTypeOK'
    BY ZenonT(90) DEF FlagTypeOK, BodyWait
  <1>2. StatusTypeOK' /\ JobTypeOK'
    BY DEF StatusTypeOK, JobTypeOK, PrintState, ActiveState, BodyWait, ApplyHeaterWait
  <1>3. PolicyTypeOK' /\ TurnTypeOK'
    BY DEF PolicyTypeOK, TurnTypeOK, BodyWait
  <1>4. LineTypeOK'
    BY DEF LineTypeOK, BodyWait
  <1>5. OneLifecycle' /\ (pc' = "resume" => resumeAt' # 0)
    BY DEF OneLifecycle, PolicyTypeOK, BodyWait
  <1> QED
    BY <1>1, <1>2, <1>3, <1>4, <1>5

\* The end of the job file preserves the invariant.
LEMMA EndOfFileStep ==
  ASSUME ServiceIInv, EndOfFile PROVE ServiceIInv'
  <1>1. FlagTypeOK'
    BY ZenonT(90) DEF FlagTypeOK, EndOfFile
  <1>2. StatusTypeOK' /\ JobTypeOK'
    BY PolicyTypes, ConstantTypes DEF StatusTypeOK, JobTypeOK, PrintState,
       ActiveState, EndOfFile
  <1>3. PolicyTypeOK' /\ TurnTypeOK'
    BY PolicyTypes, ConstantTypes DEF PolicyTypeOK, TurnTypeOK, EndOfFile
  <1>4. LineTypeOK'
    BY PolicyTypes, ConstantTypes DEF LineTypeOK, EndOfFile
  <1>5. OneLifecycle' /\ (pc' = "resume" => resumeAt' # 0)
    BY DEF OneLifecycle, PolicyTypeOK, EndOfFile, ReadyForLine, Streaming
  <1> QED
    BY <1>1, <1>2, <1>3, <1>4, <1>5

\* Reading a closed stream preserves the invariant.
LEMMA ReadClosedStreamStep ==
  ASSUME ServiceIInv, ReadClosedStream PROVE ServiceIInv'
  <1>1. FlagTypeOK'
    BY ZenonT(90) DEF FlagTypeOK, ReadClosedStream, DropJob, ClearInflight,
       LifecycleError
  <1>2. StatusTypeOK' /\ JobTypeOK'
    BY ConstantTypes DEF StatusTypeOK, JobTypeOK, PrintState, ActiveState,
       ReadClosedStream, DropJob, LifecycleError
  <1>3. PolicyTypeOK' /\ TurnTypeOK'
    BY ConstantTypes DEF PolicyTypeOK, TurnTypeOK, ReadClosedStream, DropJob
  <1>4. LineTypeOK'
    BY ClearType DEF ReadClosedStream
  <1>5. OneLifecycle' /\ (pc' = "resume" => resumeAt' # 0)
    BY DEF OneLifecycle, PolicyTypeOK, ReadClosedStream, DropJob
  <1> QED
    BY <1>1, <1>2, <1>3, <1>4, <1>5

\* Sending a line of the job preserves the invariant.
LEMMA BodyLineSentStep ==
  ASSUME ServiceIInv, NEW l \in BodyLine, BodyLineSent(l) PROVE ServiceIInv'
  <1>1. FlagTypeOK'
    BY ZenonT(90) DEF FlagTypeOK, BodyLineSent, SendOk, SendFails, Send
  <1>2. StatusTypeOK' /\ JobTypeOK'
    BY ConstantTypes DEF StatusTypeOK, JobTypeOK, PrintState, ActiveState,
       BodyLineSent
  <1>3. PolicyTypeOK' /\ TurnTypeOK'
    BY ConstantTypes DEF PolicyTypeOK, TurnTypeOK, BodyLineSent
  <1>4. LineTypeOK'
    <2>1. SendOk(l.cmd) /\ queue' = queue /\ l.cmd \in MotionCommand
      BY ConstantTypes DEF BodyLineSent
    <2> QED
      BY <2>1, SendType DEF LineTypeOK
  <1>5. OneLifecycle' /\ (pc' = "resume" => resumeAt' # 0)
    BY DEF OneLifecycle, PolicyTypeOK, BodyLineSent
  <1> QED
    BY <1>1, <1>2, <1>3, <1>4, <1>5

\* A line of the job that cannot be written preserves the invariant.
LEMMA BodyLineFailsStep ==
  ASSUME ServiceIInv, NEW l \in BodyLine, BodyLineFails(l) PROVE ServiceIInv'
  <1>1. FlagTypeOK'
    BY ZenonT(90) DEF FlagTypeOK, BodyLineFails, DropJob, LifecycleError
  <1>2. StatusTypeOK' /\ JobTypeOK'
    BY ConstantTypes DEF StatusTypeOK, JobTypeOK, PrintState, ActiveState,
       BodyLineFails, DropJob, LifecycleError
  <1>3. PolicyTypeOK' /\ TurnTypeOK'
    BY ConstantTypes DEF PolicyTypeOK, TurnTypeOK, BodyLineFails, DropJob,
       LifecycleError
  <1>4. LineTypeOK'
    <2>1. /\ stale' \in Seq(MotionCommand) /\ wire' = <<>>
          /\ Len(stale') = Len(stale) + Len(wire) + 1
      <3>1. l.cmd \in MotionCommand
        BY ConstantTypes
      <3>2. wire \in Seq(MotionCommand) /\ stale \in Seq(MotionCommand)
        BY DEF LineTypeOK
      <3>3. /\ Append(wire, l.cmd) \in Seq(MotionCommand)
            /\ Len(Append(wire, l.cmd)) = Len(wire) + 1
        BY <3>1, <3>2, AppendType
      <3>4. /\ stale \o Append(wire, l.cmd) \in Seq(MotionCommand)
            /\ Len(stale \o Append(wire, l.cmd)) = Len(stale) + Len(Append(wire, l.cmd))
        BY <3>2, <3>3, ConcatType
      <3> QED
        BY <3>2, <3>3, <3>4 DEF BodyLineFails
    <2>2. Len(stale) \in Nat /\ Len(wire) \in Nat
      BY DEF LineTypeOK
    <2>3. unsent' \subseteq 1 .. Len(stale) + Len(wire) + 1
      <3>1. /\ unsent \subseteq 1 .. Len(stale) + Len(wire)
            /\ unsent' = unsent \cup {Len(stale) + Len(wire) + 1}
        BY DEF LineTypeOK, BodyLineFails, NextPlace
      <3>2. ASSUME NEW n \in Nat PROVE 1 .. n \subseteq 1 .. n + 1 /\ n + 1 \in 1 .. n + 1
        OBVIOUS
      <3>3. Len(stale) + Len(wire) \in Nat
        BY <2>2
      <3> QED
        BY <3>1, <3>2, <3>3
    <2>4. heating' = heating /\ queue' = queue
      BY <2>1 DEF BodyLineFails
    <2>6. Len(wire') = 0 /\ wire' \in Seq(MotionCommand)
      BY <2>1
    <2>7. Len(stale') + Len(wire') = Len(stale) + Len(wire) + 1
      BY <2>1, <2>2, <2>6
    <2>5. unsent' \subseteq 1 .. Len(stale') + Len(wire') /\ wire' \in Seq(MotionCommand)
      BY <2>3, <2>6, <2>7
    <2> QED
      BY <2>1, <2>4, <2>5 DEF LineTypeOK
  <1>5. OneLifecycle' /\ (pc' = "resume" => resumeAt' # 0)
    BY DEF OneLifecycle, PolicyTypeOK, BodyLineFails, DropJob, LifecycleError
  <1> QED
    BY <1>1, <1>2, <1>3, <1>4, <1>5

\* The first queued line is a line.
LEMMA QueueHeadType ==
  ASSUME LineTypeOK, queue # <<>>
  PROVE  Head(queue).cmd \in MotionCommand /\ Head(queue).wait \subseteq Heater
  <1>1. Head(queue) \in Line
    BY TailType DEF LineTypeOK
  <1> QED
    BY <1>1 DEF Line

\* Sending a queued line preserves the invariant.
LEMMA PollGcodeSendStep ==
  ASSUME ServiceIInv, PollGcodeSend PROVE ServiceIInv'
  <1>1. FlagTypeOK'
    BY ZenonT(90) DEF FlagTypeOK, PollGcodeSend, GcodeReturn, SendOk, SendFails, Send
  <1>2. StatusTypeOK' /\ JobTypeOK'
    BY QueueHeadType, HeatAfterType DEF StatusTypeOK, JobTypeOK, PrintState,
       ActiveState, PollGcodeSend, GcodeReturn
  <1>3. PolicyTypeOK' /\ TurnTypeOK'
    BY QueueHeadType, HeatAfterType DEF PolicyTypeOK, TurnTypeOK, PollGcodeSend,
       GcodeReturn
  <1>4. LineTypeOK'
    <2>1. CASE UNCHANGED linkVars /\ UNCHANGED queueVars
      BY <2>1 DEF LineTypeOK
    <2>2. CASE ~(UNCHANGED linkVars /\ UNCHANGED queueVars)
      <3>1. (SendOk(Head(queue).cmd) \/ SendFails(Head(queue).cmd)) /\ queue # <<>>
        BY <2>2 DEF PollGcodeSend
      <3>2. queue' \in Seq(Line)
        <4>1. queue' = queue \/ queue' = Tail(queue) \/ queue' = <<>>
          BY DEF PollGcodeSend
        <4>2. Tail(queue) \in Seq(Line) /\ <<>> \in Seq(Line)
          BY <3>1, TailType DEF LineTypeOK
        <4> QED
          BY <4>1, <4>2 DEF LineTypeOK
      <3> QED
        BY <3>1, <3>2, QueueHeadType, SendType
    <2> QED
      BY <2>1, <2>2
  <1>5. OneLifecycle' /\ (pc' = "resume" => resumeAt' # 0)
    BY DEF OneLifecycle, PolicyTypeOK, PollGcodeSend, GcodeReturn
  <1> QED
    BY <1>1, <1>2, <1>3, <1>4, <1>5

\* send_command_list and send_job_startup preserves the invariant.
LEMMA PrepareSendStep ==
  ASSUME ServiceIInv, PrepareSend PROVE ServiceIInv'
  <1>1. FlagTypeOK'
    BY ZenonT(90) DEF FlagTypeOK, PrepareSend, LifecycleError, SendOk, SendFails, Send
  <1>2. StatusTypeOK' /\ JobTypeOK'
    BY ListTypes DEF StatusTypeOK, JobTypeOK, PrintState, ActiveState, PrepareSend,
       LifecycleError
  <1>3. PolicyTypeOK' /\ TurnTypeOK'
    BY ListTypes DEF PolicyTypeOK, TurnTypeOK, PrepareSend
  <1>4. LineTypeOK'
    <2>1. CASE UNCHANGED linkVars
      BY <2>1 DEF PrepareSend, LineTypeOK
    <2>2. ASSUME NEW c \in MotionCommand, SendOk(c) \/ SendFails(c)
          PROVE  LineTypeOK'
      BY <2>2, SendType DEF PrepareSend, LineTypeOK
    <2>3. \/ UNCHANGED linkVars
          \/ \E c \in MotionCommand : SendOk(c) \/ SendFails(c)
      BY ListTypes DEF PrepareSend, JobTypeOK
    <2> QED
      BY <2>1, <2>2, <2>3
  <1>5. OneLifecycle' /\ (pc' = "resume" => resumeAt' # 0)
    BY DEF OneLifecycle, PolicyTypeOK, PrepareSend, Streaming
  <1> QED
    BY <1>1, <1>2, <1>3, <1>4, <1>5

\* The MACRO command preserves the invariant.
LEMMA RunMacroStep ==
  ASSUME ServiceIInv, NEW lines, RunMacro(lines) PROVE ServiceIInv'
  <1>1. FlagTypeOK'
    BY ZenonT(90) DEF FlagTypeOK, RunMacro
  <1>2. StatusTypeOK' /\ JobTypeOK'
    BY DEF StatusTypeOK, JobTypeOK, PrintState, ActiveState,
       RunMacro
  <1>3. PolicyTypeOK' /\ TurnTypeOK'
    BY DEF PolicyTypeOK, TurnTypeOK, RunMacro
  <1>4. LineTypeOK'
    BY DEF LineTypeOK, RunMacro
  <1>5. OneLifecycle' /\ (pc' = "resume" => resumeAt' # 0)
    BY DEF OneLifecycle, PolicyTypeOK, RunMacro
  <1> QED
    BY <1>1, <1>2, <1>3, <1>4, <1>5

\* A macro that is not found preserves the invariant.
LEMMA RejectMacroStep ==
  ASSUME ServiceIInv, RejectMacro PROVE ServiceIInv'
  <1>1. FlagTypeOK'
    BY ZenonT(90) DEF FlagTypeOK, RejectMacro
  <1>2. StatusTypeOK' /\ JobTypeOK'
    BY DEF StatusTypeOK, JobTypeOK, PrintState, ActiveState,
       RejectMacro
  <1>3. PolicyTypeOK' /\ TurnTypeOK'
    BY DEF PolicyTypeOK, TurnTypeOK, RejectMacro
  <1>4. LineTypeOK'
    BY DEF LineTypeOK, RejectMacro
  <1>5. OneLifecycle' /\ (pc' = "resume" => resumeAt' # 0)
    BY DEF OneLifecycle, PolicyTypeOK, RejectMacro
  <1> QED
    BY <1>1, <1>2, <1>3, <1>4, <1>5

\* A wait of the macro preserves the invariant.
LEMMA MacroWaitsStep ==
  ASSUME ServiceIInv, MacroWaits PROVE ServiceIInv'
  <1>1. FlagTypeOK'
    BY ZenonT(90) DEF FlagTypeOK, MacroWaits, ApplyHeaterWait
  <1>2. StatusTypeOK' /\ JobTypeOK'
    BY DEF StatusTypeOK, JobTypeOK, PrintState, ActiveState,
       MacroWaits, ApplyHeaterWait
  <1>3. PolicyTypeOK' /\ TurnTypeOK'
    BY DEF PolicyTypeOK, TurnTypeOK, MacroWaits
  <1>4. LineTypeOK'
    BY DEF LineTypeOK, MacroWaits
  <1>5. OneLifecycle' /\ (pc' = "resume" => resumeAt' # 0)
    BY DEF OneLifecycle, PolicyTypeOK, MacroWaits
  <1> QED
    BY <1>1, <1>2, <1>3, <1>4, <1>5

\* The end of a macro's heater wait preserves the invariant.
LEMMA MacroHeatedStep ==
  ASSUME ServiceIInv, MacroHeated PROVE ServiceIInv'
  <1>1. FlagTypeOK'
    BY ZenonT(90) DEF FlagTypeOK, MacroHeated
  <1>2. StatusTypeOK' /\ JobTypeOK'
    BY DEF StatusTypeOK, JobTypeOK, PrintState, ActiveState,
       MacroHeated
  <1>3. PolicyTypeOK' /\ TurnTypeOK'
    BY DEF PolicyTypeOK, TurnTypeOK, MacroHeated
  <1>4. LineTypeOK'
    BY DEF LineTypeOK, MacroHeated
  <1>5. OneLifecycle' /\ (pc' = "resume" => resumeAt' # 0)
    BY DEF OneLifecycle, PolicyTypeOK, MacroHeated
  <1> QED
    BY <1>1, <1>2, <1>3, <1>4, <1>5

\* The end of a macro preserves the invariant.
LEMMA MacroEndsStep ==
  ASSUME ServiceIInv, MacroEnds PROVE ServiceIInv'
  <1>1. FlagTypeOK'
    BY ZenonT(90) DEF FlagTypeOK, MacroEnds
  <1>2. StatusTypeOK' /\ JobTypeOK'
    BY DEF StatusTypeOK, JobTypeOK, PrintState, ActiveState,
       MacroEnds
  <1>3. PolicyTypeOK' /\ TurnTypeOK'
    BY DEF PolicyTypeOK, TurnTypeOK, MacroEnds
  <1>4. LineTypeOK'
    BY DEF LineTypeOK, MacroEnds
  <1>5. OneLifecycle' /\ (pc' = "resume" => resumeAt' # 0)
    BY DEF OneLifecycle, PolicyTypeOK, MacroEnds
  <1> QED
    BY <1>1, <1>2, <1>3, <1>4, <1>5

\* A macro that is given up preserves the invariant.
LEMMA MacroGivesUpStep ==
  ASSUME ServiceIInv, MacroGivesUp PROVE ServiceIInv'
  <1>1. FlagTypeOK'
    BY ZenonT(90) DEF FlagTypeOK, MacroGivesUp
  <1>2. StatusTypeOK' /\ JobTypeOK'
    BY DEF StatusTypeOK, JobTypeOK, PrintState, ActiveState,
       MacroGivesUp
  <1>3. PolicyTypeOK' /\ TurnTypeOK'
    BY DEF PolicyTypeOK, TurnTypeOK, MacroGivesUp
  <1>4. LineTypeOK'
    BY DEF LineTypeOK, MacroGivesUp
  <1>5. OneLifecycle' /\ (pc' = "resume" => resumeAt' # 0)
    BY DEF OneLifecycle, PolicyTypeOK, MacroGivesUp
  <1> QED
    BY <1>1, <1>2, <1>3, <1>4, <1>5

\* The next line of a macro is a line.
LEMMA MacroHeadType ==
  ASSUME MacroTypeOK, macro.lines # <<>>
  PROVE  /\ Head(macro.lines).cmd \in MotionCommand
         /\ Head(macro.lines).wait \subseteq Heater
  <1>1. Head(macro.lines) \in Line
    BY TailType DEF MacroTypeOK
  <1> QED
    BY <1>1 DEF Line

\* Sending a line of a macro preserves the invariant.
LEMMA MacroSendsStep ==
  ASSUME ServiceIInv, MacroTypeOK, MacroSends PROVE ServiceIInv'
  <1>1. FlagTypeOK'
    BY ZenonT(90) DEF FlagTypeOK, MacroSends, SendOk, SendFails, Send
  <1>2. StatusTypeOK' /\ JobTypeOK'
    BY MacroHeadType DEF StatusTypeOK, JobTypeOK, PrintState, ActiveState, MacroSends
  <1>3. PolicyTypeOK' /\ TurnTypeOK'
    BY DEF PolicyTypeOK, TurnTypeOK, MacroSends, MacroTurn
  <1>4. LineTypeOK'
    <2>1. LET c == Head(macro.lines).cmd
          IN  (SendOk(c) \/ SendFails(c)) /\ c \in MotionCommand /\ queue' = queue
      BY MacroHeadType DEF MacroSends, MacroTurn
    <2> QED
      BY <2>1, SendType DEF LineTypeOK
  <1>5. OneLifecycle' /\ (pc' = "resume" => resumeAt' # 0)
    BY DEF OneLifecycle, PolicyTypeOK, MacroSends
  <1> QED
    BY <1>1, <1>2, <1>3, <1>4, <1>5

\* A poll that fails, and a macro that ends, leave the macro well formed.
LEMMA PollFailsType ==
  /\ NoMacro \in [lines : Seq(Line), failed : {"no", "response", "write"},
                  at : {"none", "line", "window", "heat", "heating"}]
  /\ \A how \in {"response", "write"} : MacroTypeOK /\ PollFails(how) => MacroTypeOK'
  <1>1. <<>> \in Seq(Line)
    OBVIOUS
  <1>2. NoMacro \in [lines : Seq(Line), failed : {"no", "response", "write"},
                     at : {"none", "line", "window", "heat", "heating"}]
    BY <1>1, Zenon DEF NoMacro
  <1>3. ASSUME NEW how \in {"response", "write"}, MacroTypeOK, PollFails(how)
        PROVE  MacroTypeOK'
    BY <1>3 DEF PollFails, MacroTypeOK
  <1> QED
    BY <1>2, <1>3

\* Only the MACRO command, the macro runner and a poll that fails change the
\* macro, and they leave it well formed.
LEMMA MacroTyped ==
  ASSUME MacroTypeOK, ServiceNext PROVE MacroTypeOK'
  <1>1. CASE NoCommand
    BY <1>1 DEF NoCommand, MacroTypeOK
  <1>2. CASE ClientCommand
    <2>1. CASE \E lines \in MacroFile : RunMacro(lines)
      BY <2>1, ConstantTypes DEF RunMacro, MacroTypeOK
    <2>2. CASE UNCHANGED macro
      BY <2>2 DEF MacroTypeOK
    <2> QED
      BY <1>2, <2>1, <2>2 DEF ClientCommand, AcceptJob, RejectJobFile, Abort,
         StartAbort,
         Pause, Resume, RunGcode, RejectMacro
  <1>3. CASE ReadLine
    <2>1. PollFails("response") \/ PollFails("write") \/ UNCHANGED macro
      BY <1>3 DEF ReadLine, ReadResponse, Executed, ReadFault, ReadGarbled,
         ReadReject, ReadProtoError, ReadDone, SerialErrorIfActive, SerialError
    <2> QED
      BY <2>1, PollFailsType DEF MacroTypeOK
  <1>4. CASE PollMotion
    <2>1. PollFails("response") \/ PollFails("write") \/ UNCHANGED macro
      BY <1>4 DEF PollMotion, CheckFaults, StartAbort, PollProbe, PollPausePolicy,
         PollResumeHeat, PollResumeWait, PollResumePolicy, PollAbortCleanup,
         PollFinishCleanup, RefreshStatus, PollStatus, SendStatusProbe
    <2> QED
      BY <2>1, PollFailsType DEF MacroTypeOK
  <1>5. CASE PollJob
    <2>1. UNCHANGED macro
      BY <1>5 DEF PollJob, JobBusy, PollGcodeWait, PollGcodeSend, PollGcodeDone,
         StreamNothing, StreamAfterError, StreamHeld, PrepareSend, PrepareWait,
         BodyWait, BodyLineSent, BodyLineFails, EndOfFile, ReadClosedStream
    <2> QED
      BY <2>1 DEF MacroTypeOK
  <1>6. CASE RunsMacro
    <2>1. CASE MacroWaits
      BY <2>1 DEF MacroWaits, MacroTypeOK
    <2>2. CASE MacroSends
      <3>1. Tail(macro.lines) \in Seq(Line)
        BY <2>2, TailType DEF MacroSends, MacroTypeOK
      <3> QED
        BY <2>2, <3>1, PollFailsType DEF MacroSends, MacroTypeOK
    <2>3. CASE MacroHeated
      BY <2>3 DEF MacroHeated, MacroTypeOK
    <2>4. CASE MacroEnds \/ MacroGivesUp
      BY <2>4, PollFailsType DEF MacroEnds, MacroGivesUp, MacroTypeOK
    <2> QED
      BY <1>6, <2>1, <2>2, <2>3, <2>4 DEF RunsMacro
  <1> QED
    BY <1>1, <1>2, <1>3, <1>4, <1>5, <1>6 DEF ServiceNext

\* The invariant holds when the service starts.
LEMMA ServiceInitInv == ServiceInit => ServiceIInv /\ MacroTypeOK
  <1> SUFFICES ASSUME ServiceInit PROVE ServiceIInv /\ MacroTypeOK
    OBVIOUS
  <1>1. FlagTypeOK /\ OneLifecycle
    BY DEF ServiceInit, FlagTypeOK, OneLifecycle
  <1>2. StatusTypeOK /\ JobTypeOK
    BY ConstantTypes DEF ServiceInit, StatusTypeOK, JobTypeOK, PrintState
  <1>3. PolicyTypeOK /\ TurnTypeOK
    BY ConstantTypes, PolicyTypes, ResumePolicyType
    DEF ServiceInit, PolicyTypeOK, TurnTypeOK
  <1>4. LineTypeOK /\ pc # "resume"
    BY DEF ServiceInit, LineTypeOK
  <1>5. MacroTypeOK
    BY PollFailsType DEF ServiceInit, MacroTypeOK
  <1> QED
    BY <1>1, <1>2, <1>3, <1>4, <1>5

\* The invariant is about the variables only.
LEMMA StutterInv ==
  ASSUME ServiceIInv, MacroTypeOK, UNCHANGED vars PROVE ServiceIInv' /\ MacroTypeOK'
  <1>1. FlagTypeOK'
    BY ZenonT(90) DEF FlagTypeOK, vars
  <1>2. StatusTypeOK' /\ JobTypeOK' /\ LineTypeOK'
    BY DEF StatusTypeOK, JobTypeOK, LineTypeOK, vars
  <1>3. PolicyTypeOK' /\ TurnTypeOK' /\ OneLifecycle' /\ (pc' = "resume" => resumeAt' # 0)
    BY DEF PolicyTypeOK, TurnTypeOK, OneLifecycle, vars
  <1>4. MacroTypeOK'
    BY DEF MacroTypeOK, vars
  <1> QED
    BY <1>1, <1>2, <1>3, <1>4

\* Every step of the loop preserves the invariant.
LEMMA ServiceStepInv ==
  ASSUME ServiceIInv, MacroTypeOK, ServiceNext PROVE ServiceIInv'
  <1>1. CASE NoCommand
    BY <1>1, NoCommandStep
  <1>2. CASE ClientCommand
    BY <1>2, AcceptJobStep, RejectJobFileStep, AbortStep, PauseStep, ResumeStep,
       RunGcodeStep, RunMacroStep, RejectMacroStep DEF ClientCommand
  <1>3. CASE ReadLine
    BY <1>3, ReadResponseStep, ReadFaultStep, ReadGarbledStep, ReadProtoErrorStep,
       ReadRejectStep, ReadDoneStep DEF ReadLine
  <1>4. CASE PollMotion
    BY <1>4, CheckFaultsStep, PollProbeStep, PollPausePolicyStep, PollResumeHeatStep,
       PollResumeWaitStep, PollResumePolicyStep, PollAbortCleanupStep,
       PollFinishCleanupStep, RefreshStatusStep, PollStatusStep DEF PollMotion
  <1>5. CASE PollJob
    BY <1>5, JobBusyStep, PollGcodeWaitStep, PollGcodeSendStep, PollGcodeDoneStep,
       StreamNothingStep, StreamAfterErrorStep, StreamHeldStep, PrepareSendStep,
       PrepareWaitStep, BodyWaitStep, BodyLineSentStep, BodyLineFailsStep,
       EndOfFileStep, ReadClosedStreamStep DEF PollJob
  <1>6. CASE RunsMacro
    BY <1>6, MacroWaitsStep, MacroSendsStep, MacroHeatedStep, MacroEndsStep,
       MacroGivesUpStep DEF RunsMacro
  <1> QED
    BY <1>1, <1>2, <1>3, <1>4, <1>5, <1>6 DEF ServiceNext

\* ServiceIInv is an inductive invariant of the service, together with the type
\* of the macro.
LEMMA ServiceInvariant == ServiceSpec => [](ServiceIInv /\ MacroTypeOK)
  <1>1. ServiceIInv /\ MacroTypeOK /\ [ServiceNext]_vars => (ServiceIInv /\ MacroTypeOK)'
    BY ServiceStepInv, MacroTyped, StutterInv
  <1> QED
    BY ServiceInitInv, <1>1, PTL DEF ServiceSpec

\* Every variable of the service stays in its range; no policy index runs past
\* the end of the list it walks.
THEOREM ServiceTypeCorrect == ServiceSpec => []ServiceTypeOK
  <1>1. ServiceIInv /\ MacroTypeOK => ServiceTypeOK
    BY DEF ServiceTypeOK
  <1> QED
    BY ServiceInvariant, <1>1, PTL

\* Whatever commands, faults, lost packets and failing writes arrive in whatever
\* order, the loop never works for two lifecycles at once.
THEOREM AlwaysOneLifecycle == ServiceSpec => []OneLifecycle
  <1>1. ServiceIInv /\ MacroTypeOK => OneLifecycle
    OBVIOUS
  <1> QED
    BY ServiceInvariant, <1>1, PTL

----------------------------------------------------------------------------
(* The service implements PrintLifecycle.                                 *)

\* A step of the promised lifecycle, or one that leaves it alone.
LifecycleStep == Lifecycle!LifecycleNext \/ UNCHANGED Lifecycle!lifecycleVars

\* A step that changes neither a cleanup nor the job may change what is shown.
LEMMA ShownOnly ==
  ASSUME UNCHANGED <<abortAt, finishAt, jobActive>>, OneLifecycle,
         \/ state' = state
         \/ state' \in {"preparing", "printing", "paused", "error"}
         \/ jobActive /\ state' = "pausing"
         \/ ~jobActive /\ finishAt = 0 /\ abortAt = 0 /\ state' = "idle"
  PROVE  LifecycleStep
  BY DEF LifecycleStep, Lifecycle!LifecycleNext, Lifecycle!lifecycleVars,
     Lifecycle!ShowWhilePrinting, Lifecycle!ShowWhileAborting, Lifecycle!ShowWhileIdle,
     OneLifecycle

\* A command, as the lifecycle sees it.
LEMMA CommandImplements ==
  ASSUME ServiceIInv, NoCommand \/ ClientCommand PROVE LifecycleStep
  <1>1. ASSUME NEW t \in JobTargets, AcceptJob(t) PROVE LifecycleStep
    BY <1>1 DEF LifecycleStep, Lifecycle!LifecycleNext, Lifecycle!StartJob, AcceptJob
  <1>2. CASE Abort
    BY <1>2 DEF LifecycleStep, Lifecycle!LifecycleNext, Lifecycle!BeginAbort, Abort,
       StartAbort
  <1>3. CASE NoCommand \/ RejectJobFile \/ RejectMacro
               \/ \E lines \in MacroFile : RunMacro(lines)
    BY <1>3, ShownOnly DEF NoCommand, RejectJobFile, RejectMacro, RunMacro
  <1>4. CASE Pause
    BY <1>4, ShownOnly DEF Pause
  <1>5. CASE Resume
    BY <1>5, ShownOnly DEF Resume
  <1>6. CASE \E q \in ManualGcode : RunGcode(q)
    BY <1>6, ShownOnly DEF RunGcode, RefreshedState
  <1> QED
    BY <1>1, <1>2, <1>3, <1>4, <1>5, <1>6 DEF ClientCommand

\* A line read from the controller only changes what is shown.
LEMMA ReadImplements ==
  ASSUME ServiceIInv, ReadLine PROVE LifecycleStep
  <1>1. CASE ReadResponse
    BY <1>1, ShownOnly DEF ReadResponse, Executed, Observe
  <1>2. ASSUME NEW code \in FaultCode, NEW e \in BOOLEAN, ReadFault(code, e)
        PROVE  LifecycleStep
    BY <1>2, ShownOnly DEF ReadFault, Observe, SerialError
  <1>3. CASE ReadGarbled \/ ReadDone
    BY <1>3, ShownOnly DEF ReadGarbled, ReadDone, SerialErrorIfActive, SerialError
  <1>4. CASE ReadProtoError
    BY <1>4, ShownOnly DEF ReadProtoError, Observe, SerialErrorIfActive, SerialError
  <1>5. CASE ReadReject
    BY <1>5, ShownOnly DEF ReadReject, Observe, SerialErrorIfActive, SerialError
  <1> QED
    BY <1>1, <1>2, <1>3, <1>4, <1>5 DEF ReadLine

\* The abort cleanup ends in idle, or in an error when a write fails.
LEMMA PollAbortImplements ==
  ASSUME ServiceIInv, PollAbortCleanup PROVE LifecycleStep
  <1>0. abortAt \in Nat
    BY PolicyTypes DEF PolicyTypeOK
  <1>1. CASE abortAt = 0 \/ Blocked(AbortPolicy, abortAt)
    BY <1>1, ShownOnly, <1>0 DEF PollAbortCleanup, Blocked
  <1>2. CASE abortAt # 0 /\ MoreToSend(AbortPolicy, abortAt)
    <2>1. CASE abortAt' = abortAt + 1 /\ UNCHANGED statusVars
      BY <1>2, <2>1, <1>0 DEF PollAbortCleanup, LifecycleStep, Lifecycle!lifecycleVars
    <2>2. CASE abortAt' = 0 /\ state' = "error"
      BY <1>2, <2>2, <1>0 DEF PollAbortCleanup, LifecycleStep, Lifecycle!LifecycleNext,
         Lifecycle!FailJob, OneLifecycle
    <2> QED
      BY <1>0, <1>2, <2>1, <2>2, PolicyTypes DEF PollAbortCleanup, LifecycleError,
         Blocked, MoreToSend, Drained
  <1>3. CASE abortAt # 0 /\ Drained(AbortPolicy, abortAt)
    <2>1. abortAt' = 0 /\ state' = "idle"
      BY <1>0, <1>3, PolicyTypes DEF PollAbortCleanup, Drained, Blocked, MoreToSend
    <2> QED
      BY <1>3, <2>1, <1>0 DEF PollAbortCleanup, LifecycleStep, Lifecycle!LifecycleNext,
         Lifecycle!EndAbort, OneLifecycle
  <1> QED BY <1>1, <1>2, <1>3 DEF Blocked

\* The finish cleanup ends the job as complete, or in an error when a write fails.
LEMMA PollFinishImplements ==
  ASSUME ServiceIInv, PollFinishCleanup PROVE LifecycleStep
  <1>0. finishAt \in Nat
    BY PolicyTypes DEF PolicyTypeOK
  <1>1. CASE finishAt = 0 \/ Blocked(FinishPolicy, finishAt)
    BY <1>1, ShownOnly, <1>0 DEF PollFinishCleanup, Blocked
  <1>2. CASE finishAt # 0 /\ MoreToSend(FinishPolicy, finishAt)
    <2>1. CASE finishAt' = finishAt + 1 /\ UNCHANGED <<statusVars, jobActive>>
      BY <1>2, <2>1, <1>0 DEF PollFinishCleanup, LifecycleStep, Lifecycle!lifecycleVars
    <2>2. CASE finishAt' = 0 /\ state' = "error" /\ UNCHANGED jobActive
      BY <1>2, <2>2, <1>0 DEF PollFinishCleanup, LifecycleStep,
         Lifecycle!LifecycleNext, Lifecycle!FailFinish, OneLifecycle
    <2> QED
      BY <1>0, <1>2, <2>1, <2>2, PolicyTypes DEF PollFinishCleanup, LifecycleError,
         Blocked, MoreToSend, Drained
  <1>3. CASE finishAt # 0 /\ Drained(FinishPolicy, finishAt)
    <2>1. finishAt' = 0 /\ state' = "complete" /\ jobActive' = FALSE
      BY <1>0, <1>3, PolicyTypes DEF PollFinishCleanup, Drained, Blocked, MoreToSend
    <2> QED
      BY <1>3, <2>1, <1>0 DEF PollFinishCleanup, LifecycleStep,
         Lifecycle!LifecycleNext, Lifecycle!EndFinish, OneLifecycle
  <1> QED BY <1>1, <1>2, <1>3 DEF Blocked

\* The polls of a turn, as the lifecycle sees them.
LEMMA PollMotionImplements ==
  ASSUME ServiceIInv, PollMotion PROVE LifecycleStep
  <1>1. CASE CheckFaults
    <2>1. CASE StartAbort
      BY <2>1 DEF LifecycleStep, Lifecycle!LifecycleNext, Lifecycle!BeginAbort,
         StartAbort
    <2> QED
      BY <1>1, <2>1, ShownOnly DEF CheckFaults
  <1>2. CASE PollProbe
    BY <1>2, ShownOnly DEF PollProbe, LifecycleError
  <1>3. CASE PollPausePolicy
    BY <1>3, ShownOnly DEF PollPausePolicy, LifecycleError
  <1>4. CASE PollResumeHeat \/ PollResumeWait
    BY <1>4, ShownOnly DEF PollResumeHeat, PollResumeWait, LifecycleError,
       ApplyHeaterWait
  <1>5. CASE PollResumePolicy
    BY <1>5, ShownOnly DEF PollResumePolicy, LifecycleError
  <1>6. CASE RefreshStatus \/ PollStatus
    BY <1>6, ShownOnly DEF RefreshStatus, PollStatus, RefreshedState
  <1> QED
    BY <1>1, <1>2, <1>3, <1>4, <1>5, <1>6, PollAbortImplements,
       PollFinishImplements DEF PollMotion

\* The streamer begins the finish, fails the job, or changes what is shown.
LEMMA PollJobImplements ==
  ASSUME ServiceIInv, PollJob PROVE LifecycleStep
  <1>1. CASE JobBusy \/ PollGcodeWait \/ StreamNothing \/ StreamHeld
    BY <1>1, ShownOnly DEF JobBusy, PollGcodeWait, StreamNothing, StreamHeld,
       ApplyHeaterWait
  <1>2. CASE PollGcodeSend \/ PollGcodeDone
    BY <1>2, ShownOnly DEF PollGcodeSend, PollGcodeDone, RefreshedState
  <1>3. CASE PrepareSend
    BY <1>3, ShownOnly DEF PrepareSend, LifecycleError
  <1>4. CASE PrepareWait \/ BodyWait
    BY <1>4, ShownOnly DEF PrepareWait, BodyWait, ApplyHeaterWait
  <1>5. ASSUME NEW l \in BodyLine, BodyLineSent(l) PROVE LifecycleStep
    BY <1>5, ShownOnly DEF BodyLineSent
  <1>6. CASE EndOfFile
    BY <1>6 DEF EndOfFile, ReadyForLine, Streaming, StreamerTurn, LifecycleStep,
       Lifecycle!LifecycleNext,
       Lifecycle!BeginFinish, OneLifecycle
  <1>7. CASE StreamAfterError \/ ReadClosedStream \/ \E l \in BodyLine : BodyLineFails(l)
    <2>1. /\ jobActive /\ jobActive' = FALSE /\ finishAt' = 0
          /\ abortAt' = abortAt /\ state' = "error"
      BY <1>7 DEF StreamAfterError, ReadClosedStream, BodyLineFails, DropJob,
         ReadyForLine, Streaming, LifecycleError
    <2> QED
      BY <2>1 DEF LifecycleStep, Lifecycle!LifecycleNext, Lifecycle!FailJob,
         OneLifecycle
  <1> QED
    BY <1>1, <1>2, <1>3, <1>4, <1>5, <1>6, <1>7 DEF PollJob

\* The macro runner only changes what is shown.
LEMMA MacroImplements ==
  ASSUME ServiceIInv, RunsMacro PROVE LifecycleStep
  BY ShownOnly DEF RunsMacro, MacroWaits, MacroSends, MacroHeated, MacroEnds,
     MacroGivesUp, ApplyHeaterWait

\* The service implements the lifecycle its clients are promised, for every
\* interleaving of commands, answers, faults and failing writes.
THEOREM ServiceImplementsLifecycle == ServiceSpec => ImplementsLifecycle
  <1>1. ServiceInit => Lifecycle!LifecycleInit
    BY DEF ServiceInit, Lifecycle!LifecycleInit
  <1>2. ServiceIInv /\ [ServiceNext]_vars
          => [Lifecycle!LifecycleNext]_(Lifecycle!lifecycleVars)
    <2>1. ASSUME ServiceIInv, UNCHANGED vars PROVE UNCHANGED Lifecycle!lifecycleVars
      BY <2>1 DEF vars, Lifecycle!lifecycleVars
    <2>2. ASSUME ServiceIInv, ServiceNext PROVE LifecycleStep
      BY <2>2, CommandImplements, ReadImplements, PollMotionImplements,
         PollJobImplements, MacroImplements DEF ServiceNext
    <2> QED
      BY <2>1, <2>2 DEF LifecycleStep
  <1> QED
    BY ServiceInvariant, <1>1, <1>2, PTL DEF ServiceSpec, ImplementsLifecycle,
       Lifecycle!LifecycleSpec

----------------------------------------------------------------------------
(* A fatal fault ends the job.                                            *)

\* The bounds on what clients and the environment may still do.
BudgetTypeOK ==
  budget \in [command : Nat, fault : 0 .. MaxFaults, garble : Nat, resync : 0 .. MaxResyncs,
              unsent : 0 .. MaxUnsent]

\* Spending one of the bounds leaves the others alone.
LEMMA SpendType ==
  ASSUME BudgetTypeOK,
         NEW what \in {"command", "fault", "garble", "resync", "unsent"}, Spend(what)
  PROVE  /\ BudgetTypeOK'
         /\ what # "fault" => budget'.fault = budget.fault
         /\ what = "fault" => budget.fault > 0 /\ budget'.fault = budget.fault - 1
         /\ what = "resync" => budget.resync > 0
         /\ what = "unsent" => budget.unsent > 0
  BY ServiceAssumption DEF BudgetTypeOK, Spend

\* Every step but the reading of a fault line leaves the bound on faults alone.
LEMMA BudgetStep ==
  ASSUME BudgetTypeOK, ServiceNext
  PROVE  /\ BudgetTypeOK'
         /\ \/ budget'.fault = budget.fault
            \/ \E code \in FaultCode, e \in BOOLEAN : ReadFault(code, e)
  <1> DEFINE Kept == BudgetTypeOK' /\ budget'.fault = budget.fault
  <1>0. ASSUME UNCHANGED budget PROVE Kept
    BY <1>0 DEF BudgetTypeOK
  <1>a. ASSUME NEW what \in {"command", "garble", "resync", "unsent"}, Spend(what)
        PROVE  Kept
    BY <1>a, SpendType
  <1>1. CASE NoCommand \/ ClientCommand
    BY <1>0, <1>a, <1>1 DEF NoCommand, ClientCommand, AcceptJob, RejectJobFile, Abort,
       Pause, Resume, RunGcode, RunMacro, RejectMacro
  <1>2. CASE ReadLine
    BY <1>0, <1>a, <1>2, SpendType DEF ReadLine, ReadResponse, Executed, ReadFault,
       ReadGarbled, ReadProtoError, ReadReject, ReadDone
  <1>3. CASE PollMotion
    BY <1>0, <1>a, <1>3 DEF PollMotion, CheckFaults, PollProbe, PollPausePolicy,
       PollResumeHeat, PollResumeWait, PollResumePolicy, PollAbortCleanup,
       PollFinishCleanup, RefreshStatus, PollStatus, SendStatusProbe, SendOk, SendFails
  <1>4. CASE PollJob
    BY <1>0, <1>a, <1>4 DEF PollJob, JobBusy, PollGcodeWait, PollGcodeSend,
       PollGcodeDone,
       StreamNothing, StreamAfterError, StreamHeld, PrepareSend, PrepareWait, BodyWait,
       BodyLineSent, BodyLineFails, EndOfFile, ReadClosedStream, SendOk, SendFails
  <1>5. CASE RunsMacro
    BY <1>0, <1>a, <1>5 DEF RunsMacro, MacroWaits, MacroSends, MacroHeated, MacroEnds,
       MacroGivesUp, SendOk, SendFails
  <1> QED
    BY <1>1, <1>2, <1>3, <1>4, <1>5 DEF ServiceNext

\* A fatal line was read: until the faults are looked at the job is in the
\* error state and awaits no heater, and afterwards the abort has begun and no
\* pause or resume is left to poll.
FatalIInv ==
  /\ BudgetTypeOK
  /\ fatalSeen # "no" => budget.fault < MaxFaults
  /\ fatalSeen = "settled" =>
       /\ pc \in {"read", "faults", "pause", "abort", "finish", "refresh"}
       /\ pc \in {"read", "faults"} =>
            jobActive /\ state = "error" /\ fault /\ error = "fatal" /\ heaterWait = {}
       /\ pc = "pause" =>
            /\ abortAt = 1 /\ ~jobActive
            /\ probe = "none" /\ pauseAt = 0 /\ resumeAt = 0

\* Only one fault is read, or every fault is fatal.
OnlyFatal == MaxFaults <= 1 \/ FaultCode \subseteq {"fatal"}

\* Every step of the loop preserves the invariant of a fatal fault.
LEMMA FatalStepInv ==
  ASSUME ServiceIInv, FatalIInv, OnlyFatal, ServiceNext PROVE FatalIInv'
  <1> DEFINE Settled == fatalSeen = "settled" =>
       /\ pc \in {"read", "faults", "pause", "abort", "finish", "refresh"}
       /\ pc \in {"read", "faults"} =>
            jobActive /\ state = "error" /\ fault /\ error = "fatal" /\ heaterWait = {}
       /\ pc = "pause" =>
            /\ abortAt = 1 /\ ~jobActive
            /\ probe = "none" /\ pauseAt = 0 /\ resumeAt = 0
  <1>a. budget.fault \in 0 .. MaxFaults /\ MaxFaults \in Nat
    BY ServiceAssumption DEF FatalIInv, BudgetTypeOK
  <1>b. BudgetTypeOK' /\ (fatalSeen' # "no" => budget'.fault < MaxFaults)
    <2>1. CASE \E code \in FaultCode, e \in BOOLEAN : ReadFault(code, e)
      <3>1. Spend("fault")
        BY <2>1 DEF ReadFault
      <3> QED
        BY <3>1, SpendType, <1>a DEF FatalIInv
    <2>2. CASE ~(\E code \in FaultCode, e \in BOOLEAN : ReadFault(code, e))
      <3>1. fatalSeen' = fatalSeen \/ fatalSeen' = "no"
        <4>1. CASE NoCommand \/ ClientCommand
          BY <4>1 DEF NoCommand, ClientCommand, AcceptJob, RejectJobFile, Abort,
             Pause, Resume, RunGcode, RunMacro, RejectMacro
        <4>2. CASE ReadLine
          BY <4>2, <2>2 DEF ReadLine, ReadResponse, Executed, ReadGarbled,
             ReadProtoError, ReadReject, ReadDone
        <4>3. CASE PollMotion
          BY <4>3 DEF PollMotion, CheckFaults, PollProbe, PollPausePolicy,
             PollResumeHeat, PollResumeWait, PollResumePolicy, PollAbortCleanup,
             PollFinishCleanup, RefreshStatus, PollStatus
        <4>4. CASE PollJob
          BY <4>4 DEF PollJob, JobBusy, PollGcodeWait, PollGcodeSend, PollGcodeDone,
             StreamNothing, StreamAfterError, StreamHeld, PrepareSend, PrepareWait,
             BodyWait,
             BodyLineSent, BodyLineFails, EndOfFile, ReadClosedStream
        <4>5. CASE RunsMacro
          BY <4>5 DEF RunsMacro, MacroWaits, MacroSends, MacroHeated, MacroEnds,
             MacroGivesUp
        <4> QED BY <4>1, <4>2, <4>3, <4>4, <4>5 DEF ServiceNext
      <3> QED
        BY <3>1, <2>2, BudgetStep DEF FatalIInv
    <2> QED
      BY <2>1, <2>2
  <1>1. CASE NoCommand \/ ClientCommand
    <2>1. pc = "command" /\ fatalSeen' = fatalSeen
      BY <1>1 DEF NoCommand, ClientCommand, AcceptJob, RejectJobFile, Abort,
         Pause, Resume, RunGcode, RunMacro, RejectMacro
    <2> QED
      BY <2>1, <1>b DEF FatalIInv
  <1>2. CASE ReadLine
    <2>0. pc = "read" /\ Settled
      BY <1>2 DEF FatalIInv, ReadLine, ReadResponse, ReadFault, ReadGarbled,
         ReadProtoError, ReadReject, ReadDone
    <2>1. CASE ReadResponse
      BY <2>0, <2>1, <1>b DEF FatalIInv, ReadResponse, Executed, Observe
    <2>2. ASSUME NEW code \in FaultCode, NEW e \in BOOLEAN, ReadFault(code, e)
          PROVE Settled'
      <3>1. CASE fatalSeen' = "settled" /\ code # "fatal"
        <4>1. fatalSeen = "settled"
          BY <2>2, <3>1 DEF ReadFault
        <4>2. budget.fault > 0
          BY <2>2, SpendType DEF ReadFault, FatalIInv
        <4> QED
          BY <4>1, <4>2, <3>1, <1>a DEF FatalIInv, OnlyFatal
      <3>2. CASE fatalSeen' = "settled" /\ code = "fatal"
        <4>1. HeaterReady /\ jobActive
          BY <2>0, <2>2, <3>2 DEF ReadFault, HeaterReady
        <4> QED
          BY <4>1, <2>0, <2>2, <3>2 DEF ReadFault, Observe, HeaterReady
      <3> QED
        BY <3>1, <3>2
    <2>3. CASE ReadGarbled
      BY <2>0, <2>3, <1>b DEF FatalIInv, ReadGarbled, SerialErrorIfActive, HeaterReady,
         ActiveState
    <2>4. CASE ReadProtoError
      BY <2>0, <2>4, <1>b DEF FatalIInv, ReadProtoError, Observe
    <2>5. CASE ReadDone
      BY <2>0, <2>5, <1>b DEF FatalIInv, ReadDone
    <2>6. CASE ReadReject
      BY <2>0, <2>6, <1>b DEF FatalIInv, ReadReject, Observe, SerialErrorIfActive,
         HeaterReady, ActiveState
    <2> QED
      BY <1>2, <1>b, <2>1, <2>2, <2>3, <2>4, <2>5, <2>6 DEF ReadLine, FatalIInv
  <1>3. CASE PollMotion
    <2>1. CASE CheckFaults
      <3>1. CASE fatalSeen = "settled"
        BY <2>1, <3>1, <1>b DEF CheckFaults, StartAbort, FatalIInv
      <3> QED
        BY <2>1, <3>1, <1>b DEF CheckFaults, FatalIInv
    <2>2. CASE PollProbe \/ PollPausePolicy \/ PollResumeHeat \/ PollResumePolicy
      BY <2>2, <1>b DEF PollProbe, PollPausePolicy, PollResumeHeat, PollResumePolicy,
         FatalIInv
    <2>3. CASE PollResumeWait
      BY <2>3, <1>b DEF PollResumeWait, FatalIInv
    <2>4. CASE PollAbortCleanup \/ PollFinishCleanup
      BY <2>4, <1>b DEF PollAbortCleanup, PollFinishCleanup, FatalIInv
    <2>5. CASE RefreshStatus \/ PollStatus
      BY <2>5, <1>b DEF RefreshStatus, PollStatus, FatalIInv
    <2> QED
      BY <1>3, <2>1, <2>2, <2>3, <2>4, <2>5 DEF PollMotion
  <1>4. CASE PollJob
    <2>1. pc \in {"job", "gcode"} /\ fatalSeen' = fatalSeen
      BY <1>4 DEF PollJob, JobBusy, PollGcodeWait, PollGcodeSend, PollGcodeDone,
         StreamNothing, StreamAfterError, StreamHeld, PrepareSend, PrepareWait,
         BodyWait,
         BodyLineSent, BodyLineFails, EndOfFile, ReadClosedStream, ReadyForLine,
         Streaming,
         StreamerTurn, GcodeTurn
    <2> QED
      BY <2>1, <1>b DEF FatalIInv
  <1>5. CASE RunsMacro
    <2>1. pc = "macro" /\ fatalSeen' = fatalSeen
      BY <1>5 DEF RunsMacro, MacroWaits, MacroSends, MacroHeated, MacroEnds,
         MacroGivesUp, MacroTurn
    <2> QED
      BY <2>1, <1>b DEF FatalIInv
  <1> QED
    BY <1>1, <1>2, <1>3, <1>4, <1>5 DEF ServiceNext

\* A fatal line read while a job is active and no heater is awaited has ended the
\* job when the pause policies are polled, if no line of another kind follows it.
THEOREM FatalFaultEndsTheJob == OnlyFatal /\ ServiceSpec => []FatalFaultAborts
  <1> SUFFICES ASSUME OnlyFatal PROVE ServiceSpec => []FatalFaultAborts
    OBVIOUS
  <1>1. ServiceInit => FatalIInv
    BY ServiceAssumption DEF ServiceInit, FatalIInv, BudgetTypeOK
  <1>2. ServiceIInv /\ FatalIInv /\ [ServiceNext]_vars => FatalIInv'
    BY FatalStepInv DEF FatalIInv, BudgetTypeOK, vars
  <1>3. FatalIInv => FatalFaultAborts
    BY DEF FatalIInv, FatalFaultAborts
  <1> QED
    BY ServiceInvariant, <1>1, <1>2, <1>3, PTL DEF ServiceSpec

\* What is queued stays in a set of lines that the commands and macros are in.
LEMMA LinesStay ==
  ASSUME NEW S, ManualGcode \subseteq Seq(S), MacroFile \subseteq Seq(S), MacroTypeOK,
         queue \in Seq(S), macro.lines \in Seq(S), ServiceNext
  PROVE  queue' \in Seq(S) /\ macro'.lines \in Seq(S)
  <1>0. <<>> \in Seq(S) /\ NoMacro.lines = <<>>
    BY DEF NoMacro
  <1>a. ASSUME NEW how, PollFails(how) PROVE macro'.lines = macro.lines
    BY <1>a DEF PollFails, MacroTypeOK
  <1>1. CASE NoCommand \/ ClientCommand
    <2>1. ASSUME NEW lines \in MacroFile, RunMacro(lines)
          PROVE  queue' = queue /\ macro'.lines \in Seq(S)
      BY <2>1 DEF RunMacro
    <2>2. ASSUME NEW q \in ManualGcode, RunGcode(q)
          PROVE  queue' \in Seq(S) /\ macro' = macro
      BY <2>2 DEF RunGcode
    <2>3. CASE Abort
      BY <1>0, <2>3 DEF Abort, StartAbort
    <2> QED
      BY <1>1, <2>1, <2>2, <2>3 DEF NoCommand, ClientCommand, AcceptJob,
         RejectJobFile, Pause, Resume, RejectMacro
  <1>2. CASE ReadLine
    BY <1>a, <1>2 DEF ReadLine, ReadResponse, Executed, ReadFault, ReadGarbled,
       ReadProtoError, ReadReject, ReadDone, SerialErrorIfActive, SerialError
  <1>3. CASE PollMotion
    BY <1>0, <1>a, <1>3 DEF PollMotion, CheckFaults, StartAbort, PollProbe,
       PollPausePolicy, PollResumeHeat, PollResumeWait, PollResumePolicy,
       PollAbortCleanup,
       PollFinishCleanup, RefreshStatus, PollStatus, SendStatusProbe
  <1>4. CASE PollJob
    <2>1. CASE PollGcodeSend
      BY <1>0, <2>1, TailType DEF PollGcodeSend
    <2> QED
      BY <1>4, <2>1 DEF PollJob, JobBusy, PollGcodeWait, PollGcodeDone,
         StreamNothing, StreamAfterError, StreamHeld, PrepareSend, PrepareWait,
         BodyWait,
         BodyLineSent, BodyLineFails, EndOfFile, ReadClosedStream
  <1>5. CASE RunsMacro
    <2>1. CASE MacroSends
      <3>1. Tail(macro.lines) \in Seq(S)
        BY <2>1, TailType DEF MacroSends
      <3> QED
        BY <1>0, <2>1, <3>1 DEF MacroSends, MacroTypeOK
    <2> QED
      BY <1>0, <1>5, <2>1 DEF RunsMacro, MacroWaits, MacroHeated, MacroEnds,
         MacroGivesUp, MacroTypeOK
  <1> QED
    BY <1>1, <1>2, <1>3, <1>4, <1>5 DEF ServiceNext

----------------------------------------------------------------------------
(* A paused job is still.                                                 *)

\* The commands, and the lines, that leave the head where it is.
StillCommand == {c \in MotionCommand : ~IsMove(c)}
StillLine    == [cmd : StillCommand, wait : SUBSET Heater]

\* The GCODE command and the macros do not move the head.
HandsOff == ManualGcode \subseteq Seq(StillLine) /\ MacroFile \subseteq Seq(StillLine)

\* A job is published as paused and nothing is left of its pause or resume.
Parked == state = "paused" /\ jobActive /\ finishAt = 0 /\ ~Busy

\* The inductive form of PausedIsStill: it also holds while a GCODE queue runs.
StillIInv ==
  /\ queue \in Seq(StillLine) /\ macro.lines \in Seq(StillLine)
  /\ Parked => wire \in Seq(StillCommand)

\* The recurring poll does not move the head.
LEMMA StillStatusPoll ==
  /\ StatusPoll \in Seq(StillCommand) /\ <<Head(StatusPoll)>> \in Seq(StillCommand)
  BY DEF StatusPoll, StillCommand, MotionCommand, IsMove

\* A parked job stays still, and a job is parked only when the line is empty.
LEMMA StillWire ==
  ASSUME HandsOff, ServiceIInv, MacroTypeOK, StillIInv, ServiceNext, Parked'
  PROVE  wire' \in Seq(StillCommand)
  <1>0. <<>> \in Seq(StillCommand)
    OBVIOUS
  <1>a. ASSUME Parked, UNCHANGED wire PROVE wire' \in Seq(StillCommand)
    BY <1>a DEF StillIInv
  <1>1. CASE NoCommand \/ ClientCommand
    <2>1. CASE Pause
      BY <2>1 DEF Pause, Parked, Busy
    <2> QED
      BY <1>1, <1>a, <2>1 DEF NoCommand, ClientCommand, AcceptJob, RejectJobFile,
         RejectMacro, RunMacro,
         Abort, StartAbort, Resume, Parked, Busy, RunGcode, RefreshedState
  <1>2. CASE ReadLine
    <2>1. CASE ReadResponse
      <3>1. Parked
        BY <2>1 DEF ReadResponse, Executed, Observe, Parked, Busy
      <3> QED
        BY <2>1, <3>1, TailType DEF ReadResponse, StillIInv
    <2>2. CASE ReadProtoError
      BY <1>0, <2>2 DEF ReadProtoError
    <2>3. CASE ReadDone \/ ReadGarbled
      BY <1>a, <2>3 DEF ReadDone, ReadGarbled, SerialErrorIfActive, SerialError,
         Parked, Busy
    <2>4. ASSUME NEW code \in FaultCode, NEW e \in BOOLEAN, ReadFault(code, e) PROVE FALSE
      BY <2>4 DEF ReadFault, Observe, SerialError, Parked
    <2>5. CASE ReadReject
      BY <1>a, <2>5 DEF ReadReject, Observe, SerialErrorIfActive, SerialError, Parked,
         Busy
    <2> QED
      BY <1>2, <2>1, <2>2, <2>3, <2>4, <2>5 DEF ReadLine
  <1>3. CASE PollMotion
    <2>1. CASE CheckFaults
      BY <1>a, <2>1 DEF CheckFaults, StartAbort, Parked, Busy
    <2>2. CASE PollProbe
      BY <2>2 DEF PollProbe, Parked, Busy, LifecycleError
    <2>3. CASE PollPausePolicy
      <3>1. pauseAt' = 0 /\ state' = "paused"
        BY DEF Parked, Busy
      <3>1a. pauseAt \in Nat
        BY PolicyTypes DEF PolicyTypeOK
      <3>2. wire' = <<>>
        BY <2>3, <3>1, <3>1a DEF PollPausePolicy, LifecycleError, Drained
      <3> QED
        BY <1>0, <3>2
    <2>4. CASE PollResumeHeat
      BY <2>4 DEF PollResumeHeat, Parked, Busy, LifecycleError
    <2>5. CASE PollResumeWait
      BY <1>a, <2>5 DEF PollResumeWait, Parked, Busy, ApplyHeaterWait
    <2>6. CASE PollResumePolicy
      <3>1. resumeAt \in Nat
        BY ResumePolicyType DEF PolicyTypeOK
      <3> QED
        BY <2>6, <3>1 DEF PollResumePolicy, Parked, Busy, LifecycleError
    <2>7. CASE PollAbortCleanup
      <3>1. abortAt = 0 
        BY <2>7 DEF PollAbortCleanup, Parked, OneLifecycle
      <3> QED
        BY <1>a, <2>7, <3>1 DEF PollAbortCleanup, Parked, Busy
    <2>8. CASE PollFinishCleanup
      <3>1. finishAt \in Nat
        BY PolicyTypes DEF PolicyTypeOK
      <3>2. finishAt' = 0 /\ state' = "paused"
        BY DEF Parked
      <3>3. finishAt = 0
        BY <2>8, <3>1, <3>2 DEF PollFinishCleanup, LifecycleError, Blocked, MoreToSend,
           Drained
      <3> QED
        BY <1>a, <2>8, <3>3 DEF PollFinishCleanup, Parked, Busy
    <2>9. CASE RefreshStatus
      BY <1>a, <2>9 DEF RefreshStatus, RefreshedState, Parked, Busy
    <2>10. CASE PollStatus
      BY <1>a, <2>10, StillStatusPoll DEF PollStatus, SendStatusProbe, Parked, Busy
    <2> QED
      BY <1>3, <2>1, <2>2, <2>3, <2>4, <2>5, <2>6, <2>7, <2>8, <2>9, <2>10
         DEF PollMotion
  <1>4. CASE PollJob
    <2>1. CASE PollGcodeSend
      <3>1. queue # <<>> /\ Head(queue) \in StillLine
        BY <2>1, TailType DEF PollGcodeSend, StillIInv
      <3>2. Head(queue).cmd \in StillCommand
        BY <3>1 DEF StillLine
      <3>3. Parked
        BY <2>1 DEF PollGcodeSend, Parked, Busy
      <3>4. wire \in Seq(StillCommand)
        BY <3>3 DEF StillIInv
      <3>5. wire' = wire \/ wire' = Append(wire, Head(queue).cmd)
        BY <2>1 DEF PollGcodeSend, SendOk, SendFails, Send
      <3> QED
        BY <3>2, <3>4, <3>5
    <2>2. CASE JobBusy \/ PollGcodeWait \/ StreamNothing \/ StreamHeld
      BY <1>a, <2>2 DEF JobBusy, PollGcodeWait, StreamNothing, StreamHeld,
         ApplyHeaterWait, Parked, Busy
    <2>3. CASE PollGcodeDone
      BY <1>a, <2>3 DEF PollGcodeDone, RefreshedState, Parked, Busy
    <2>4. CASE PrepareSend \/ PrepareWait \/ BodyWait
      BY <2>4 DEF PrepareSend, PrepareWait, BodyWait, Streaming, LifecycleError,
         ApplyHeaterWait, Parked
    <2>5. CASE \E l \in BodyLine : BodyLineSent(l) \/ BodyLineFails(l)
      BY <2>5 DEF BodyLineSent, BodyLineFails, LifecycleError, Parked
    <2>6. CASE StreamAfterError \/ EndOfFile \/ ReadClosedStream
      BY <2>6 DEF StreamAfterError, EndOfFile, ReadClosedStream, LifecycleError, Parked
    <2> QED
      BY <1>4, <2>1, <2>2, <2>3, <2>4, <2>5, <2>6 DEF PollJob
  <1>5. CASE RunsMacro
    <2>1. CASE MacroSends
      <3>1. macro.lines # <<>> /\ Head(macro.lines) \in StillLine
        BY <2>1, TailType DEF MacroSends, StillIInv
      <3>2. Head(macro.lines).cmd \in StillCommand
        BY <3>1 DEF StillLine
      <3>3. Parked
        BY <2>1 DEF MacroSends, Parked, Busy
      <3>4. wire \in Seq(StillCommand)
        BY <3>3 DEF StillIInv
      <3>5. wire' = Append(wire, Head(macro.lines).cmd)
        BY <2>1 DEF MacroSends, SendOk, SendFails, Send
      <3> QED
        BY <3>2, <3>4, <3>5
    <2> QED
      BY <1>a, <1>5, <2>1 DEF RunsMacro, MacroWaits, MacroHeated, MacroEnds,
         MacroGivesUp, ApplyHeaterWait, Parked, Busy
  <1> QED
    BY <1>1, <1>2, <1>3, <1>4, <1>5 DEF ServiceNext

\* While the GCODE command and the macros do not move the head, nothing on the line
\* moves it when a job is published as paused and its parking is over.
THEOREM PausedJobIsStill == HandsOff /\ ServiceSpec => []PausedIsStill
  <1> SUFFICES ASSUME HandsOff PROVE ServiceSpec => []PausedIsStill
    OBVIOUS
  <1>1. ServiceInit => StillIInv
    BY DEF ServiceInit, StillIInv, NoMacro, Parked
  <1>2. ServiceIInv /\ MacroTypeOK /\ StillIInv /\ [ServiceNext]_vars => StillIInv'
    <2>1. ASSUME StillIInv, UNCHANGED vars PROVE StillIInv'
      BY <2>1 DEF StillIInv, Parked, Busy, vars
    <2>2. ASSUME ServiceIInv, MacroTypeOK, StillIInv, ServiceNext PROVE StillIInv'
      BY <2>2, LinesStay, StillWire DEF StillIInv, HandsOff
    <2> QED
      BY <2>1, <2>2
  <1>3. StillIInv => PausedIsStill
    BY DEF StillIInv, PausedIsStill, Parked, StillCommand
  <1> QED
    BY ServiceInvariant, <1>1, <1>2, <1>3, PTL DEF ServiceSpec

----------------------------------------------------------------------------
(* An abort leaves the machine cold.                                      *)

\* The commands, and the lines, that turn no heater on and wait for none.
ColdCommand == MotionCommand \ {"headOn", "bedOn"}
ColdLine    == [cmd : ColdCommand, wait : {{}}]

\* The GCODE command and the macros heat nothing, and the flow is never
\* resynchronised.
NoHeatByHand ==
  /\ MaxResyncs = 0
  /\ ManualGcode \subseteq Seq(ColdLine) /\ MacroFile \subseteq Seq(ColdLine)

\* Heater h is off once everything in flight has been executed, and the last
\* command for it that is not executed yet is in flight.
GoesCold(h) ==
  \/ \E k \in 1 .. Len(wire) :
       wire[k] = TurnsOff[h] /\ \A j \in (k + 1) .. Len(wire) : wire[j] # TurnsOn[h]
  \/ /\ stale = <<>> /\ h \notin heating
     /\ \A k \in 1 .. Len(wire) : wire[k] # TurnsOn[h]

\* While the abort cleanup is pending nothing else works for the job, and the
\* heaters whose M104 S0 or M140 S0 it has sent go cold.
AbortGoesCold ==
  abortAt # 0 =>
    /\ state \in {"aborting", "error"} /\ heaterWait = {}
    /\ probe = "none" /\ pauseAt = 0 /\ resumeAt = 0
    /\ abortAt >= 4 => GoesCold("head")
    /\ abortAt >= 5 => GoesCold("bed")

ColdIInv ==
  /\ BudgetTypeOK
  /\ queue \in Seq(ColdLine) /\ macro.lines \in Seq(ColdLine)
  /\ AbortGoesCold

\* Turning a heater off makes it go cold.
LEMMA ColdAfterOff ==
  ASSUME LineTypeOK, NEW h \in Heater, Send(TurnsOff[h]) PROVE GoesCold(h)'
  <1>1. wire \in Seq(MotionCommand) /\ wire' = Append(wire, TurnsOff[h])
    BY DEF LineTypeOK, Send
  <1>2. /\ Len(wire') = Len(wire) + 1 /\ Len(wire) \in Nat
        /\ wire'[Len(wire')] = TurnsOff[h]
    BY <1>1
  <1>3. Len(wire') \in 1 .. Len(wire') /\ \A j \in (Len(wire') + 1) .. Len(wire') : FALSE
    BY <1>2
  <1> QED
    BY <1>2, <1>3 DEF GoesCold

\* ... and a command that turns no heater on leaves it so.
LEMMA ColdAfterSend ==
  ASSUME LineTypeOK, NEW h \in Heater, GoesCold(h), NEW c \in ColdCommand, Send(c)
  PROVE  GoesCold(h)'
  <1>1. /\ wire \in Seq(MotionCommand) /\ wire' = Append(wire, c)
        /\ stale' = stale /\ heating' = heating
    BY DEF LineTypeOK, Send
  <1>2. /\ Len(wire') = Len(wire) + 1 /\ Len(wire) \in Nat
        /\ \A j \in 1 .. Len(wire) : wire'[j] = wire[j]
        /\ wire'[Len(wire) + 1] = c
    BY <1>1
  <1>3. c # TurnsOn[h]
    BY DEF ColdCommand, TurnsOn, Heater
  <1>4. CASE /\ stale = <<>> /\ h \notin heating
             /\ \A k \in 1 .. Len(wire) : wire[k] # TurnsOn[h]
    BY <1>1, <1>2, <1>3, <1>4 DEF GoesCold
  <1>5. ASSUME NEW k \in 1 .. Len(wire), wire[k] = TurnsOff[h],
               \A j \in (k + 1) .. Len(wire) : wire[j] # TurnsOn[h]
        PROVE  GoesCold(h)'
    <2>1. k \in 1 .. Len(wire') /\ wire'[k] = TurnsOff[h]
      BY <1>2, <1>5
    <2>2. \A j \in (k + 1) .. Len(wire') : wire'[j] # TurnsOn[h]
      BY <1>2, <1>3, <1>5
    <2> QED
      BY <2>1, <2>2 DEF GoesCold
  <1> QED
    BY <1>4, <1>5 DEF GoesCold

\* Executing a command keeps a heater that goes cold going cold.
LEMMA ColdAfterRead ==
  ASSUME LineTypeOK, NEW h \in Heater, GoesCold(h), ReadResponse PROVE GoesCold(h)'
  <1>0. wire \in Seq(MotionCommand) /\ Len(wire) \in Nat
    BY DEF LineTypeOK
  <1>a. TurnsOn[h] # TurnsOff[h]
    BY DEF TurnsOn, TurnsOff, Heater
  <1>1. CASE stale # <<>>
    BY <1>1 DEF ReadResponse, GoesCold
  <1>2. CASE stale = <<>>
    <2>1. /\ stale' = <<>> /\ wire # <<>> /\ wire' = Tail(wire)
          /\ heating' = HeatAfter(heating, Head(wire))
      BY <1>2 DEF ReadResponse, Executed
    <2>2. /\ Len(wire') = Len(wire) - 1 /\ Len(wire) > 0 /\ wire[1] = Head(wire)
          /\ \A j \in 1 .. Len(wire') : wire'[j] = wire[j + 1]
      BY <1>0, <2>1
    <2>3. CASE h \notin heating /\ \A k \in 1 .. Len(wire) : wire[k] # TurnsOn[h]
      <3>1. h \notin heating'
        BY <1>0, <2>1, <2>2, <2>3 DEF HeatAfter
      <3>2. \A k \in 1 .. Len(wire') : wire'[k] # TurnsOn[h]
        BY <1>0, <2>2, <2>3
      <3> QED
        BY <2>1, <3>1, <3>2 DEF GoesCold
    <2>4. ASSUME NEW k \in 1 .. Len(wire), wire[k] = TurnsOff[h],
                 \A j \in (k + 1) .. Len(wire) : wire[j] # TurnsOn[h]
          PROVE  GoesCold(h)'
      <3>1. CASE k = 1
        <4>1. h \notin heating'
          BY <1>a, <2>1, <2>2, <2>4, <3>1 DEF HeatAfter
        <4>2. \A j \in 1 .. Len(wire') : wire'[j] # TurnsOn[h]
          BY <1>0, <2>2, <2>4, <3>1
        <4> QED
          BY <2>1, <4>1, <4>2 DEF GoesCold
      <3>2. CASE k # 1
        <4>1. k - 1 \in 1 .. Len(wire') /\ wire'[k - 1] = TurnsOff[h]
          BY <1>0, <2>2, <2>4, <3>2
        <4>2. \A j \in ((k - 1) + 1) .. Len(wire') : wire'[j] # TurnsOn[h]
          BY <1>0, <2>2, <2>4, <3>2
        <4> QED
          BY <4>1, <4>2 DEF GoesCold
      <3> QED
        BY <3>1, <3>2
    <2> QED
      BY <1>2, <2>3, <2>4 DEF GoesCold
  <1> QED
    BY <1>1, <1>2

\* A step that sends at most one command that heats nothing.
LEMMA ColdKept ==
  ASSUME ServiceIInv, AbortGoesCold,
         UNCHANGED <<abortAt, heaterWait, probe, pauseAt, resumeAt>>,
         state' \in {state, "error"},
         \/ UNCHANGED <<wire, stale, heating>>
         \/ ReadResponse
         \/ \E c \in ColdCommand : Send(c)
  PROVE  AbortGoesCold'
  <1>1. ASSUME NEW h \in Heater, GoesCold(h) PROVE GoesCold(h)'
    <2>1. CASE UNCHANGED <<wire, stale, heating>>
      BY <1>1, <2>1 DEF GoesCold
    <2> QED
      BY <1>1, <2>1, ColdAfterRead, ColdAfterSend
  <1>2. "head" \in Heater /\ "bed" \in Heater
    BY DEF Heater
  <1> QED
    BY <1>1, <1>2 DEF AbortGoesCold

\* The status poll, sent on an idle line, heats nothing either.
LEMMA ColdAfterPoll ==
  ASSUME NEW h \in Heater, GoesCold(h), wire = <<>>, SendStatusProbe PROVE GoesCold(h)'
  <1>1. stale' = <<>> /\ h \notin heating'
    BY DEF GoesCold, SendStatusProbe
  <1>2. \A k \in 1 .. Len(wire') : wire'[k] # TurnsOn[h]
    BY DEF SendStatusProbe, StatusPoll, TurnsOn, Heater
  <1> QED
    BY <1>1, <1>2 DEF GoesCold

\* The abort cleanup turns the heaters off in its third and fourth command.
LEMMA AbortCleanupCools ==
  ASSUME ServiceIInv, AbortGoesCold, PollAbortCleanup PROVE AbortGoesCold'
  <1>0. abortAt \in Nat /\ abortAt <= 7
    BY PolicyTypes DEF PolicyTypeOK
  <1>1. CASE UNCHANGED abortAt
    BY <1>0, <1>1, ColdKept DEF PollAbortCleanup
  <1>2. CASE abortAt # 0 /\ MoreToSend(AbortPolicy, abortAt) /\ abortAt' = abortAt + 1
    <2>1. abortAt \in 1 .. 6 /\ AbortPolicy[abortAt] \in ColdCommand
      BY <1>0, <1>2, PolicyTypes DEF MoreToSend, AbortPolicy, ColdCommand, MotionCommand
    <2>2. /\ Send(AbortPolicy[abortAt])
          /\ UNCHANGED <<state, heaterWait, probe, pauseAt, resumeAt>>
      BY <1>0, <1>2, PolicyTypes DEF PollAbortCleanup, SendOk, MoreToSend, Drained
    <2>3. /\ abortAt = 3 => AbortPolicy[abortAt] = TurnsOff["head"]
          /\ abortAt = 4 => AbortPolicy[abortAt] = TurnsOff["bed"]
      BY DEF AbortPolicy, TurnsOff
    <2>4. "head" \in Heater /\ "bed" \in Heater
      BY DEF Heater
    <2>5. abortAt' >= 4 => GoesCold("head")'
      <3>1. CASE abortAt = 3
        BY <3>1, <2>2, <2>3, <2>4, ColdAfterOff
      <3>2. CASE abortAt >= 4
        BY <3>2, <2>1, <2>2, <2>4, ColdAfterSend DEF AbortGoesCold
      <3> QED
        BY <2>1, <1>2, <3>1, <3>2
    <2>6. abortAt' >= 5 => GoesCold("bed")'
      <3>1. CASE abortAt = 4
        BY <3>1, <2>2, <2>3, <2>4, ColdAfterOff
      <3>2. CASE abortAt >= 5
        BY <3>2, <2>1, <2>2, <2>4, ColdAfterSend DEF AbortGoesCold
      <3> QED
        BY <2>1, <1>2, <3>1, <3>2
    <2> QED
      BY <1>2, <2>2, <2>5, <2>6 DEF AbortGoesCold
  <1>3. CASE abortAt' = 0
    BY <1>3 DEF AbortGoesCold
  <1> QED
    BY <1>0, <1>1, <1>2, <1>3 DEF PollAbortCleanup

\* Every step of the loop keeps an abort on its way to a cold machine.
LEMMA ColdStepInv ==
  ASSUME NoHeatByHand, ServiceIInv, MacroTypeOK, ColdIInv, ServiceNext PROVE ColdIInv'
  <1>0. abortAt \in Nat
    BY PolicyTypes DEF PolicyTypeOK
  <1>a. BudgetTypeOK' /\ queue' \in Seq(ColdLine) /\ macro'.lines \in Seq(ColdLine)
    BY BudgetStep, LinesStay DEF ColdIInv, NoHeatByHand
  <1> SUFFICES AbortGoesCold'
    BY <1>a DEF ColdIInv
  <1>b. ASSUME StartAbort PROVE AbortGoesCold'
    BY <1>b DEF StartAbort, AbortGoesCold
  <1>1. CASE NoCommand \/ ClientCommand
    <2>1. CASE Abort
      BY <2>1, <1>b DEF Abort
    <2>2. CASE NoCommand \/ RejectJobFile \/ RejectMacro
                 \/ \E lines \in MacroFile : RunMacro(lines)
      BY <2>2, ColdKept DEF NoCommand, RejectJobFile, RejectMacro, RunMacro, ColdIInv
    <2>3. CASE Pause \/ Resume
      BY <2>3 DEF Pause, Resume, ColdIInv, AbortGoesCold
    <2>4. ASSUME NEW q \in ManualGcode, RunGcode(q) PROVE AbortGoesCold'
      <3>1. CASE abortAt = 0
        BY <2>4, <3>1 DEF RunGcode, AbortGoesCold
      <3>2. CASE abortAt # 0
        BY <2>4, <3>2, ColdKept DEF RunGcode, RefreshedState, ColdIInv
      <3> QED
        BY <3>1, <3>2
    <2>5. ASSUME NEW t \in JobTargets, AcceptJob(t) PROVE AbortGoesCold'
      BY <2>5 DEF AcceptJob, AbortGoesCold
    <2> QED
      BY <1>1, <2>1, <2>2, <2>3, <2>4, <2>5 DEF ClientCommand
  <1>2. CASE ReadLine
    <2>1. CASE ReadResponse
      <3>1. CASE abortAt = 0
        BY <2>1, <3>1 DEF ReadResponse, Executed, AbortGoesCold
      <3>2. CASE abortAt # 0
        <4>1. UNCHANGED <<abortAt, heaterWait, probe, pauseAt, resumeAt, state>>
          BY <2>1, <3>2 DEF ReadResponse, Executed, Observe, ColdIInv, AbortGoesCold
        <4> QED
          BY <2>1, <4>1, ColdKept DEF ColdIInv
      <3> QED
        BY <3>1, <3>2
    <2>2. ASSUME NEW code \in FaultCode, NEW e \in BOOLEAN, ReadFault(code, e)
          PROVE  AbortGoesCold'
      <3>1. CASE abortAt = 0
        BY <2>2, <3>1 DEF ReadFault, AbortGoesCold
      <3>2. CASE abortAt # 0
        BY <2>2, <3>2, ColdKept DEF ReadFault, Observe, HeaterReady, ColdIInv,
           AbortGoesCold
      <3> QED
        BY <3>1, <3>2
    <2>3. CASE ReadGarbled
      <3>1. CASE abortAt = 0
        BY <2>3, <3>1 DEF ReadGarbled, AbortGoesCold
      <3>2. CASE abortAt # 0
        BY <2>3, <3>2, ColdKept DEF ReadGarbled, SerialErrorIfActive, SerialError,
           ColdIInv, AbortGoesCold
      <3> QED
        BY <3>1, <3>2
    <2>4. CASE ReadProtoError
      <3>1. Spend("resync")
        BY <2>4 DEF ReadProtoError
      <3> QED
        BY <3>1, SpendType DEF ColdIInv, BudgetTypeOK, NoHeatByHand
    <2>5. CASE ReadDone
      BY <2>5, ColdKept DEF ReadDone, ColdIInv
    <2>6. CASE ReadReject
      BY <2>6, ColdKept DEF ReadReject, Observe, SerialErrorIfActive, SerialError,
         ColdIInv,
         AbortGoesCold
    <2> QED
      BY <1>2, <2>1, <2>2, <2>3, <2>4, <2>5, <2>6 DEF ReadLine
  <1>3. CASE PollMotion
    <2>1. CASE CheckFaults
      BY <2>1, <1>b, ColdKept DEF CheckFaults, ColdIInv
    <2>2. CASE PollProbe \/ PollPausePolicy \/ PollResumeHeat
      <3>1. abortAt = 0 /\ abortAt' = abortAt
        BY <2>2 DEF PollProbe, PollPausePolicy, PollResumeHeat, ColdIInv, AbortGoesCold
      <3> QED
        BY <3>1 DEF AbortGoesCold
    <2>3. CASE PollResumePolicy
      <3>1. abortAt = 0 /\ abortAt' = abortAt
        BY <2>3 DEF PollResumePolicy, ColdIInv, AbortGoesCold
      <3> QED
        BY <3>1 DEF AbortGoesCold
    <2>4. CASE PollResumeWait
      <3>1. CASE abortAt = 0
        BY <2>4, <3>1 DEF PollResumeWait, AbortGoesCold
      <3>2. CASE abortAt # 0
        BY <2>4, <3>2, ColdKept DEF PollResumeWait, ColdIInv, AbortGoesCold
      <3> QED
        BY <3>1, <3>2
    <2>5. CASE PollAbortCleanup
      BY <2>5, AbortCleanupCools DEF ColdIInv
    <2>6. CASE PollFinishCleanup
      <3>1. CASE abortAt = 0
        BY <2>6, <3>1 DEF PollFinishCleanup, AbortGoesCold
      <3>2. CASE abortAt # 0
        BY <2>6, <3>2, ColdKept DEF PollFinishCleanup, ColdIInv, OneLifecycle
      <3> QED
        BY <3>1, <3>2
    <2>7. CASE RefreshStatus
      <3>1. CASE abortAt = 0
        BY <2>7, <3>1 DEF RefreshStatus, AbortGoesCold
      <3>2. CASE abortAt # 0
        BY <2>7, <3>2, ColdKept DEF RefreshStatus, RefreshedState, ColdIInv
      <3> QED
        BY <3>1, <3>2
    <2>8. CASE PollStatus
      <3>1. CASE UNCHANGED linkVars
        BY <2>8, <3>1, ColdKept DEF PollStatus, ColdIInv
      <3>2. CASE wire = <<>> /\ SendStatusProbe
        <4>1. "head" \in Heater /\ "bed" \in Heater
          BY DEF Heater
        <4> QED
          BY <2>8, <3>2, <4>1, ColdAfterPoll DEF PollStatus, ColdIInv, AbortGoesCold
      <3> QED
        BY <2>8, <3>1, <3>2 DEF PollStatus
    <2> QED
      BY <1>3, <2>1, <2>2, <2>3, <2>4, <2>5, <2>6, <2>7, <2>8 DEF PollMotion
  <1>4. CASE PollJob
    <2>1. CASE abortAt = 0
      <3>1. abortAt' = 0
        BY <1>4, <2>1 DEF PollJob, JobBusy, PollGcodeWait, PollGcodeSend, PollGcodeDone,
           StreamNothing, StreamAfterError, StreamHeld, PrepareSend, PrepareWait,
           BodyWait,
           BodyLineSent, BodyLineFails, EndOfFile, ReadClosedStream
      <3> QED
        BY <3>1 DEF AbortGoesCold
    <2>2. CASE abortAt # 0
      <3>0. heaterWait = {} /\ ~jobActive
        BY <2>2 DEF ColdIInv, AbortGoesCold, OneLifecycle
      <3>1. CASE JobBusy \/ PollGcodeDone \/ StreamNothing
        BY <2>2, <3>0, <3>1, ColdKept DEF JobBusy, PollGcodeDone, StreamNothing,
           RefreshedState, ColdIInv
      <3>2. CASE PollGcodeSend
        <4>1. Head(queue) \in ColdLine
          BY <3>2, TailType DEF PollGcodeSend, ColdIInv
        <4>2. Head(queue).cmd \in ColdCommand /\ Head(queue).wait = {}
          BY <4>1 DEF ColdLine
        <4>3. UNCHANGED <<abortAt, heaterWait, probe, pauseAt, resumeAt, state>>
          BY <3>2, <4>2 DEF PollGcodeSend
        <4>4. UNCHANGED <<wire, stale, heating>> \/ Send(Head(queue).cmd)
          BY <3>2 DEF PollGcodeSend, SendOk, SendFails
        <4> QED
          BY <4>2, <4>3, <4>4, ColdKept DEF ColdIInv
      <3>3. CASE PollGcodeWait
        BY <3>0, <3>3 DEF PollGcodeWait
      <3> QED
        BY <1>4, <3>0, <3>1, <3>2, <3>3 DEF PollJob, StreamAfterError, StreamHeld,
           PrepareSend,
           PrepareWait, BodyWait, BodyLineSent, BodyLineFails, EndOfFile,
           ReadClosedStream,
           ReadyForLine, Streaming
    <2> QED
      BY <2>1, <2>2
  <1>5. CASE RunsMacro
    <2>1. CASE MacroSends
      <3>1. Head(macro.lines) \in ColdLine
        BY <2>1, TailType DEF MacroSends, ColdIInv
      <3>2. Head(macro.lines).cmd \in ColdCommand /\ Head(macro.lines).wait = {}
        BY <3>1 DEF ColdLine
      <3>3. /\ UNCHANGED <<abortAt, heaterWait, probe, pauseAt, resumeAt, state>>
            /\ Send(Head(macro.lines).cmd)
        BY <2>1, <3>2 DEF MacroSends, SendOk, SendFails
      <3> QED
        BY <3>2, <3>3, ColdKept DEF ColdIInv
    <2>2. CASE MacroEnds \/ MacroGivesUp
      BY <2>2, ColdKept DEF MacroEnds, MacroGivesUp, ColdIInv
    <2>3. CASE MacroWaits \/ MacroHeated
      <3>1. CASE abortAt = 0
        BY <2>3, <3>1 DEF MacroWaits, MacroHeated, AbortGoesCold
      <3>2. CASE abortAt # 0
        BY <2>3, <3>2, ColdKept DEF MacroWaits, MacroHeated, HeaterReady,
           ApplyHeaterWait, ColdIInv, AbortGoesCold
      <3> QED
        BY <3>1, <3>2
    <2> QED
      BY <1>5, <2>1, <2>2, <2>3 DEF RunsMacro
  <1> QED
    BY <1>1, <1>2, <1>3, <1>4, <1>5 DEF ServiceNext

\* When the abort cleanup is over the machine is cold and has nothing left to do,
\* for every stage of the print, every window and every failing write.
THEOREM AbortsEndCold == NoHeatByHand /\ ServiceSpec => AbortEndsCold
  <1> SUFFICES ASSUME NoHeatByHand PROVE ServiceSpec => AbortEndsCold
    OBVIOUS
  <1>1. ServiceInit => ColdIInv
    BY ServiceAssumption DEF ServiceInit, ColdIInv, BudgetTypeOK, AbortGoesCold, NoMacro
  <1>2. ServiceIInv /\ MacroTypeOK /\ ColdIInv /\ [ServiceNext]_vars => ColdIInv'
    <2>1. ASSUME ColdIInv, UNCHANGED vars PROVE ColdIInv'
      BY <2>1 DEF ColdIInv, BudgetTypeOK, AbortGoesCold, GoesCold, vars
    <2> QED
      BY <2>1, ColdStepInv
  <1>3. ServiceIInv /\ ColdIInv /\ [ServiceNext]_vars
          => [abortAt # 0 /\ abortAt' = 0 /\ state' = "idle"
                => heating = {} /\ wire = <<>> /\ stale = <<>>]_vars
    <2> SUFFICES ASSUME ServiceIInv, ColdIInv, ServiceNext, abortAt # 0, abortAt' = 0,
                        state' = "idle"
                 PROVE  heating = {} /\ wire = <<>> /\ stale = <<>>
      OBVIOUS
    <2>0. abortAt \in Nat
      BY PolicyTypes DEF PolicyTypeOK
    <2>1. PollAbortCleanup
      BY DEF ServiceNext, NoCommand, ClientCommand, AcceptJob, RejectJobFile, Abort,
         StartAbort,
         Pause, Resume, RunGcode, RunMacro, RejectMacro, ReadLine, ReadResponse,
         Executed,
         ReadFault, ReadGarbled, ReadProtoError, ReadReject, ReadDone, PollMotion,
         CheckFaults,
         PollProbe,
         PollPausePolicy, PollResumeHeat, PollResumeWait, PollResumePolicy,
         PollFinishCleanup,
         RefreshStatus, PollStatus, PollJob, JobBusy, PollGcodeWait, PollGcodeSend,
         PollGcodeDone,
         StreamNothing, StreamAfterError, StreamHeld, PrepareSend, PrepareWait,
         BodyWait,
         BodyLineSent, BodyLineFails, EndOfFile, ReadClosedStream, RunsMacro,
         MacroWaits,
         MacroSends, MacroHeated, MacroEnds, MacroGivesUp
    <2>2. Drained(AbortPolicy, abortAt)
      BY <2>0, <2>1 DEF PollAbortCleanup, LifecycleError
    <2>3. wire = <<>> /\ abortAt >= 5 /\ abortAt >= 4
      BY <2>0, <2>2, PolicyTypes DEF Drained
    <2>4. GoesCold("head") /\ GoesCold("bed")
      BY <2>3 DEF ColdIInv, AbortGoesCold
    <2>5. stale = <<>> /\ "head" \notin heating /\ "bed" \notin heating
      BY <2>3, <2>4 DEF GoesCold
    <2> QED
      BY <2>3, <2>5 DEF LineTypeOK, Heater
  <1> QED
    BY ServiceInvariant, <1>1, <1>2, <1>3, PTL DEF ServiceSpec, AbortEndsCold

----------------------------------------------------------------------------
(* A pause saves a fresh position.                                        *)

\* Nothing that is sent is lost, and nothing but the job moves the head.
SteadyLine == MaxResyncs = 0 /\ MaxUnsent = 0 /\ HandsOff

\* Once everything in flight is executed the last position report is newer than
\* the last move.
FreshSoon ==
  \/ \E k \in 1 .. Len(wire) :
       wire[k] = "position" /\ \A j \in (k + 1) .. Len(wire) : ~IsMove(wire[j])
  \/ /\ stale = <<>> /\ positionIsFresh
     /\ \A k \in 1 .. Len(wire) : ~IsMove(wire[k])

\* A position report is on its way.
ReportDue == \E k \in 1 .. Len(wire) : wire[k] = "position"

\* A probe belongs to a running job; once sent it is answered or its answer is on
\* its way, and outside the finish cleanup that answer will be fresh.  A finish
\* cleanup that finds the line empty finds no probe.
ProbeIInv ==
  /\ probe # "none" => jobActive
  /\ probe = "sent" => reportSince \/ ReportDue
  /\ probe = "sent" /\ finishAt = 0 => FreshSoon
  /\ pc \in {"abort", "finish"} /\ finishAt # 0 /\ wire = <<>> => probe = "none"

FreshIInv ==
  /\ BudgetTypeOK
  /\ queue \in Seq(StillLine) /\ macro.lines \in Seq(StillLine)
  /\ ProbeIInv

\* Sending a command that does not move the head keeps the next answer fresh.
LEMMA FreshAfterSend ==
  ASSUME LineTypeOK, NEW c \in StillCommand, Send(c)
  PROVE  /\ ReportDue => ReportDue'
         /\ FreshSoon => FreshSoon'
         /\ wire' # <<>>
         /\ c = "position" => FreshSoon' /\ ReportDue'
  <1>1. /\ wire \in Seq(MotionCommand) /\ wire' = Append(wire, c) /\ stale' = stale
        /\ positionIsFresh' = positionIsFresh
    BY DEF LineTypeOK, Send
  <1>2. /\ Len(wire') = Len(wire) + 1 /\ Len(wire) \in Nat
        /\ \A j \in 1 .. Len(wire) : wire'[j] = wire[j]
        /\ wire'[Len(wire) + 1] = c
    BY <1>1
  <1>3. ~IsMove(c)
    BY DEF StillCommand
  <1>4. ReportDue => ReportDue'
    BY <1>2 DEF ReportDue
  <1>5. ASSUME FreshSoon PROVE FreshSoon'
    <2>1. CASE stale = <<>> /\ positionIsFresh /\ \A k \in 1 .. Len(wire) : ~IsMove(wire[k])
      BY <1>1, <1>2, <1>3, <2>1 DEF FreshSoon
    <2>2. ASSUME NEW k \in 1 .. Len(wire), wire[k] = "position",
                 \A j \in (k + 1) .. Len(wire) : ~IsMove(wire[j])
          PROVE  FreshSoon'
      <3>1. k \in 1 .. Len(wire') /\ wire'[k] = "position"
        BY <1>2, <2>2
      <3>2. \A j \in (k + 1) .. Len(wire') : ~IsMove(wire'[j])
        BY <1>2, <1>3, <2>2
      <3> QED
        BY <3>1, <3>2 DEF FreshSoon
    <2> QED
      BY <1>5, <2>1, <2>2 DEF FreshSoon
  <1>6. ASSUME c = "position" PROVE FreshSoon' /\ ReportDue'
    <2>1. Len(wire') \in 1 .. Len(wire') /\ wire'[Len(wire')] = "position"
      BY <1>2, <1>6
    <2>2. \A j \in (Len(wire') + 1) .. Len(wire') : FALSE
      BY <1>2
    <2> QED
      BY <2>1, <2>2 DEF FreshSoon, ReportDue
  <1> QED
    BY <1>1, <1>2, <1>4, <1>5, <1>6

\* Executing a command keeps the next answer fresh, and the report that was due
\* is read or still due.
LEMMA FreshAfterRead ==
  ASSUME LineTypeOK, ReadResponse
  PROVE  /\ FreshSoon => FreshSoon'
         /\ ReportDue => ReportDue' \/ (probe # "none" => reportSince')
         /\ reportSince => reportSince'
  <1>0. wire \in Seq(MotionCommand) /\ Len(wire) \in Nat
    BY DEF LineTypeOK
  <1>a. reportSince => reportSince'
    BY DEF ReadResponse, Executed
  <1>1. CASE stale # <<>>
    <2>1. UNCHANGED wire
      BY <1>1 DEF ReadResponse
    <2> QED
      BY <1>1, <1>a, <2>1 DEF FreshSoon, ReportDue
  <1>2. CASE stale = <<>>
    <2>1. /\ stale' = <<>> /\ wire # <<>> /\ wire' = Tail(wire)
          /\ positionIsFresh' =
               (Head(wire) = "position" \/ (positionIsFresh /\ ~IsMove(Head(wire))))
          /\ reportSince' = (reportSince \/ (Head(wire) = "position" /\ probe # "none"))
      BY <1>2 DEF ReadResponse, Executed
    <2>2. /\ Len(wire') = Len(wire) - 1 /\ Len(wire) > 0 /\ wire[1] = Head(wire)
          /\ \A j \in 1 .. Len(wire') : wire'[j] = wire[j + 1]
      BY <1>0, <2>1
    <2>3. ASSUME NEW k \in 1 .. Len(wire), k # 1
          PROVE  k - 1 \in 1 .. Len(wire') /\ wire'[k - 1] = wire[k]
      BY <1>0, <2>2, <2>3
    <2>4. ASSUME ReportDue PROVE ReportDue' \/ (probe # "none" => reportSince')
      <3>1. PICK k \in 1 .. Len(wire) : wire[k] = "position"
        BY <2>4 DEF ReportDue
      <3>2. CASE k = 1
        BY <3>1, <3>2, <2>1, <2>2
      <3>3. CASE k # 1
        BY <3>1, <3>3, <2>3 DEF ReportDue
      <3> QED
        BY <3>2, <3>3
    <2>5. ASSUME /\ stale = <<>> /\ positionIsFresh
                 /\ \A k \in 1 .. Len(wire) : ~IsMove(wire[k])
          PROVE  FreshSoon'
      <3>0. positionIsFresh /\ ~IsMove(Head(wire))
        BY <1>0, <2>2, <2>5
      <3>1. positionIsFresh'
        BY <2>1, <3>0
      <3>2. \A k \in 1 .. Len(wire') : ~IsMove(wire'[k])
        BY <1>0, <2>2, <2>5
      <3> QED
        BY <2>1, <3>1, <3>2 DEF FreshSoon
    <2>6. ASSUME NEW k \in 1 .. Len(wire), wire[k] = "position",
                 \A j \in (k + 1) .. Len(wire) : ~IsMove(wire[j])
          PROVE  FreshSoon'
      <3>1. CASE k = 1
        <4>1. positionIsFresh'
          BY <2>1, <2>2, <2>6, <3>1
        <4>2. \A j \in 1 .. Len(wire') : ~IsMove(wire'[j])
          BY <1>0, <2>2, <2>6, <3>1
        <4> QED
          BY <2>1, <4>1, <4>2 DEF FreshSoon
      <3>2. CASE k # 1
        <4>1. k - 1 \in 1 .. Len(wire') /\ wire'[k - 1] = "position"
          BY <2>3, <2>6, <3>2
        <4>2. \A j \in ((k - 1) + 1) .. Len(wire') : ~IsMove(wire'[j])
          BY <1>0, <2>2, <2>6, <3>2
        <4> QED
          BY <4>1, <4>2 DEF FreshSoon
      <3> QED
        BY <3>1, <3>2
    <2> QED
      BY <1>a, <2>4, <2>5, <2>6 DEF FreshSoon
  <1> QED
    BY <1>1, <1>2

\* A step that leaves the probe alone, and does at most one of: read a line, send a
\* command that does not move the head.
LEMMA ProbeKept ==
  ASSUME ServiceIInv, ProbeIInv, UNCHANGED <<probe, finishAt>>,
         jobActive' = jobActive \/ probe = "none",
         pc' \notin {"abort", "finish"} \/ (pc \in {"abort", "finish"} /\ UNCHANGED wire),
         \/ UNCHANGED <<wire, stale, positionIsFresh, reportSince>>
         \/ ReadResponse
         \/ UNCHANGED reportSince /\ \E c \in StillCommand : Send(c)
  PROVE  ProbeIInv'
  <1>1. probe # "none" => jobActive'
    BY DEF ProbeIInv
  <1>2. /\ FreshSoon => FreshSoon'
        /\ probe = "sent" => reportSince' \/ ReportDue'
    <2>1. CASE UNCHANGED <<wire, stale, positionIsFresh, reportSince>>
      BY <2>1 DEF FreshSoon, ReportDue, ProbeIInv
    <2>2. CASE ReadResponse
      BY <2>2, FreshAfterRead DEF ProbeIInv
    <2>3. CASE UNCHANGED reportSince /\ \E c \in StillCommand : Send(c)
      BY <2>3, FreshAfterSend DEF ProbeIInv
    <2> QED
      BY <2>1, <2>2, <2>3
  <1> QED
    BY <1>1, <1>2 DEF ProbeIInv

\* A write never fails on a steady line.
LEMMA WritesSucceed ==
  ASSUME SteadyLine, BudgetTypeOK PROVE ~Spend("unsent") /\ ~Spend("resync")
  BY SpendType DEF SteadyLine, BudgetTypeOK

\* Without a probe there is nothing to show.
LEMMA NoProbe ==
  ASSUME probe' = "none" PROVE ProbeIInv'
  BY DEF ProbeIInv

\* The step in which the probe is polled.
LEMMA PollProbeFresh ==
  ASSUME SteadyLine, BudgetTypeOK, ServiceIInv, ProbeIInv, PollProbe PROVE ProbeIInv'
  <1>1. CASE probe' = "none"
    BY <1>1, NoProbe
  <1>2. CASE UNCHANGED <<probe, linkVars, pauseVars>> /\ probe = "wanted"
    <2>1. ~GateOpen(StreamWindow)
      BY <1>2, WritesSucceed DEF PollProbe, SendFails
    <2>2. wire # <<>>
      BY <2>1, ServiceAssumption DEF GateOpen
    <2> QED
      BY <1>2, <2>2 DEF ProbeIInv, PollProbe
  <1>3. CASE UNCHANGED <<probe, linkVars, pauseVars>> /\ probe = "sent"
    <2>1. ~ProbeAnswered
      BY <1>3 DEF PollProbe
    <2>2. wire # <<>>
      BY <1>3, <2>1 DEF ProbeIInv, ReportDue, ProbeAnswered
    <2> QED
      BY <1>3, <2>2 DEF ProbeIInv, ReportDue, FreshSoon, PollProbe
  <1>4. CASE probe' = "sent" /\ Send("position")
    <2>1. "position" \in StillCommand
      BY DEF StillCommand, MotionCommand, IsMove
    <2> QED
      BY <1>4, <2>1, FreshAfterSend DEF ProbeIInv, PollProbe
  <1> QED
    BY <1>1, <1>2, <1>3, <1>4, WritesSucceed DEF PollProbe, SendOk, SendFails,
       PolicyTypeOK

\* The recurring poll on an empty line.
LEMMA StatusProbeFresh ==
  ASSUME ServiceIInv, ProbeIInv, PollStatus PROVE ProbeIInv'
  <1>1. CASE UNCHANGED linkVars
    BY <1>1, ProbeKept DEF PollStatus, AfterPoll
  <1>2. CASE wire = <<>> /\ SendStatusProbe
    <2>1. FreshSoon => stale' = <<>> /\ positionIsFresh'
      BY <1>2 DEF FreshSoon, SendStatusProbe
    <2>2. \A k \in 1 .. Len(wire') : ~IsMove(wire'[k])
      BY <1>2 DEF SendStatusProbe, StatusPoll, IsMove
    <2>3. FreshSoon => FreshSoon'
      BY <2>1, <2>2 DEF FreshSoon
    <2>4. ~ReportDue
      BY <1>2 DEF ReportDue
    <2> QED
      BY <1>2, <2>3, <2>4 DEF PollStatus, AfterPoll, ProbeIInv
  <1> QED
    BY <1>1, <1>2 DEF PollStatus

\* Every step of the loop preserves what is known of a pending probe.
LEMMA FreshStepInv ==
  ASSUME SteadyLine, ServiceIInv, MacroTypeOK, FreshIInv, ServiceNext PROVE FreshIInv'
  <1>0. BudgetTypeOK /\ ProbeIInv
    BY DEF FreshIInv
  <1>a. BudgetTypeOK' /\ queue' \in Seq(StillLine) /\ macro'.lines \in Seq(StillLine)
    BY BudgetStep, LinesStay DEF FreshIInv, SteadyLine, HandsOff
  <1> SUFFICES ProbeIInv'
    BY <1>a DEF FreshIInv
  <1>1. CASE NoCommand \/ ClientCommand
    <2>1. CASE Abort
      BY <2>1, NoProbe DEF Abort, StartAbort
    <2>2. CASE Pause
      BY <1>0, <2>2 DEF Pause, ProbeIInv, Busy
    <2>3. ASSUME NEW t \in JobTargets, AcceptJob(t) PROVE probe' = "none"
      BY <2>3 DEF AcceptJob, Busy
    <2>4. CASE NoCommand \/ RejectJobFile \/ RejectMacro \/ Resume
      BY <1>0, <2>4, ProbeKept DEF NoCommand, RejectJobFile, RejectMacro, Resume
    <2>5. CASE (\E lines \in MacroFile : RunMacro(lines))
                 \/ \E q \in ManualGcode : RunGcode(q)
      BY <1>0, <2>5, ProbeKept DEF RunMacro, RunGcode
    <2> QED
      BY <1>1, <2>1, <2>2, <2>3, <2>4, <2>5, NoProbe DEF ClientCommand
  <1>2. CASE ReadLine
    <2>1. CASE ReadResponse
      <3>1. UNCHANGED <<probe, finishAt, jobActive>> /\ pc' = "read"
        BY <2>1 DEF ReadResponse, Executed
      <3> QED
        BY <1>0, <2>1, <3>1, ProbeKept
    <2>2. ASSUME NEW code \in FaultCode, NEW e \in BOOLEAN, ReadFault(code, e)
          PROVE  ProbeIInv'
      BY <1>0, <2>2, ProbeKept DEF ReadFault, SerialError
    <2>3. CASE ReadGarbled \/ ReadDone
      BY <1>0, <2>3, ProbeKept DEF ReadGarbled, ReadDone, SerialErrorIfActive,
         SerialError
    <2>4. CASE ReadProtoError
      BY <1>0, <2>4, WritesSucceed DEF ReadProtoError
    <2>5. CASE ReadReject
      BY <1>0, <2>5, ProbeKept DEF ReadReject, Observe, SerialErrorIfActive, SerialError
    <2> QED
      BY <1>2, <2>1, <2>2, <2>3, <2>4, <2>5 DEF ReadLine
  <1>3. CASE PollMotion
    <2>1. CASE CheckFaults
      BY <1>0, <2>1, NoProbe, ProbeKept DEF CheckFaults, StartAbort
    <2>2. CASE PollPausePolicy \/ PollResumeHeat \/ PollResumeWait
      BY <2>2, NoProbe DEF PollPausePolicy, PollResumeHeat, PollResumeWait
    <2>3. CASE PollResumePolicy
      BY <2>3, NoProbe DEF PollResumePolicy, OneLifecycle
    <2>4. CASE PollAbortCleanup
      <3>1. CASE abortAt = 0
        BY <1>0, <2>4, <3>1, ProbeKept DEF PollAbortCleanup
      <3>2. CASE abortAt # 0
        BY <1>0, <2>4, <3>2, NoProbe DEF PollAbortCleanup, ProbeIInv, OneLifecycle
      <3> QED
        BY <3>1, <3>2
    <2>5. CASE PollFinishCleanup
      <3>1. CASE UNCHANGED <<finishAt, linkVars, jobActive>>
        BY <1>0, <2>5, <3>1, ProbeKept DEF PollFinishCleanup
      <3>2. CASE /\ finishAt # 0 /\ finishAt' = finishAt + 1
                 /\ \E c \in MotionCommand : Send(c)
                 /\ UNCHANGED <<pc, jobActive>>
        <4>1. PICK c \in MotionCommand : Send(c)
          BY <3>2
        <4>2. /\ wire \in Seq(MotionCommand) /\ wire' = Append(wire, c) /\ wire' # <<>>
          BY <4>1 DEF Send, LineTypeOK
        <4>3. ReportDue => ReportDue'
          BY <4>2 DEF ReportDue
        <4>4. finishAt' # 0
          BY <3>2, PolicyTypes DEF PolicyTypeOK
        <4> QED
          BY <1>0, <2>5, <3>2, <4>2, <4>3, <4>4 DEF ProbeIInv, PollFinishCleanup
      <3>3. CASE finishAt # 0 /\ Drained(FinishPolicy, finishAt)
        BY <1>0, <2>5, <3>3, NoProbe DEF ProbeIInv, PollFinishCleanup, Drained
      <3>4. finishAt # 0 /\ MoreToSend(FinishPolicy, finishAt)
              => FinishPolicy[finishAt] \in MotionCommand
        <4>1. finishAt \in Nat
          BY PolicyTypes DEF PolicyTypeOK
        <4> QED
          BY <4>1, PolicyElement, PolicyTypes
      <3> QED
        BY <1>0, <2>5, <3>1, <3>2, <3>3, <3>4, WritesSucceed DEF PollFinishCleanup,
           SendOk, SendFails
    <2>6. CASE RefreshStatus
      BY <1>0, <2>6, ProbeKept DEF RefreshStatus
    <2> QED
      BY <1>0, <1>3, <2>1, <2>2, <2>3, <2>4, <2>5, <2>6, PollProbeFresh,
         StatusProbeFresh DEF PollMotion
  <1>4. CASE PollJob
    <2>1. CASE JobBusy
      BY <1>0, <2>1, ProbeKept DEF JobBusy
    <2>2. CASE PollGcodeWait \/ PollGcodeDone
      BY <1>0, <2>2, ProbeKept DEF PollGcodeWait, PollGcodeDone, GcodeReturn, GcodeTurn
    <2>3. CASE PollGcodeSend
      <3>1. Head(queue) \in StillLine
        BY <2>3, TailType DEF PollGcodeSend, FreshIInv
      <3>2. Head(queue).cmd \in StillCommand
        BY <3>1 DEF StillLine
      <3>3. UNCHANGED linkVars \/ Send(Head(queue).cmd)
        BY <2>3 DEF PollGcodeSend, SendOk, SendFails
      <3>4. /\ pc' \notin {"abort", "finish"}
            /\ UNCHANGED <<probe, finishAt, jobActive, reportSince>>
        BY <2>3 DEF PollGcodeSend, GcodeReturn, GcodeTurn
      <3> QED
        BY <1>0, <3>2, <3>3, <3>4, ProbeKept
    <2>4. CASE ~Busy /\ UNCHANGED probe
      BY <2>4, NoProbe DEF Busy
    <2> QED
      BY <1>4, <2>1, <2>2, <2>3, <2>4 DEF PollJob, StreamNothing, StreamAfterError,
         StreamHeld,
         PrepareSend, PrepareWait, BodyWait, BodyLineSent, BodyLineFails, EndOfFile,
         ReadClosedStream, ReadyForLine, Streaming, StreamerTurn
  <1>5. CASE RunsMacro
    <2>1. CASE MacroSends
      <3>1. Head(macro.lines) \in StillLine
        BY <2>1, TailType DEF MacroSends, FreshIInv
      <3>2. Head(macro.lines).cmd \in StillCommand
        BY <3>1 DEF StillLine
      <3>3. /\ Send(Head(macro.lines).cmd)
            /\ UNCHANGED <<probe, finishAt, jobActive, reportSince>>
        BY <2>1 DEF MacroSends, SendOk, SendFails
      <3>4. pc' \notin {"abort", "finish"}
        BY <2>1 DEF MacroSends, MacroTurn
      <3> QED
        BY <1>0, <3>2, <3>3, <3>4, ProbeKept
    <2> QED
      BY <1>0, <1>5, <2>1, ProbeKept DEF RunsMacro, MacroWaits, MacroHeated, MacroEnds,
         MacroGivesUp
  <1> QED
    BY <1>1, <1>2, <1>3, <1>4, <1>5 DEF ServiceNext

\* On a steady line the position a pause saves was reported after the last move
\* was executed, whatever was in flight when the pause came.
THEOREM PausesSaveFreshPositions == SteadyLine /\ ServiceSpec => PausePositionFresh
  <1> SUFFICES ASSUME SteadyLine PROVE ServiceSpec => PausePositionFresh
    OBVIOUS
  <1>1. ServiceInit => FreshIInv
    BY ServiceAssumption DEF ServiceInit, FreshIInv, BudgetTypeOK, ProbeIInv, NoMacro
  <1>2. ServiceIInv /\ MacroTypeOK /\ FreshIInv /\ [ServiceNext]_vars => FreshIInv'
    <2>1. ASSUME FreshIInv, UNCHANGED vars PROVE FreshIInv'
      BY <2>1 DEF FreshIInv, BudgetTypeOK, ProbeIInv, FreshSoon, ReportDue, vars
    <2> QED
      BY <2>1, FreshStepInv
  <1>3. ServiceIInv /\ FreshIInv /\ [ServiceNext]_vars
          => [pauseAt = 0 /\ pauseAt' = 1 /\ finishAt = 0 /\ state # "error"
                => positionIsFresh]_vars
    <2> SUFFICES ASSUME ServiceIInv, FreshIInv, ServiceNext, pauseAt = 0, pauseAt' = 1,
                        finishAt = 0
                 PROVE  positionIsFresh
      OBVIOUS
    <2>1. PollProbe
      BY DEF ServiceNext, NoCommand, ClientCommand, AcceptJob, RejectJobFile, Abort,
         StartAbort,
         Pause, Resume, RunGcode, RunMacro, RejectMacro, ReadLine, ReadResponse,
         Executed,
         ReadFault, ReadGarbled, ReadProtoError, ReadReject, ReadDone, PollMotion,
         CheckFaults,
         PollPausePolicy, PollResumeHeat, PollResumeWait, PollResumePolicy,
         PollAbortCleanup, PollFinishCleanup,
         RefreshStatus, PollStatus, PollJob, JobBusy, PollGcodeWait, PollGcodeSend,
         PollGcodeDone,
         StreamNothing, StreamAfterError, StreamHeld, PrepareSend, PrepareWait,
         BodyWait,
         BodyLineSent, BodyLineFails, EndOfFile, ReadClosedStream, RunsMacro,
         MacroWaits,
         MacroSends, MacroHeated, MacroEnds, MacroGivesUp
    <2>2. probe = "sent" /\ wire = <<>>
      BY <2>1 DEF PollProbe, ProbeAnswered
    <2>3. FreshSoon
      BY <2>2 DEF FreshIInv, ProbeIInv
    <2> QED
      BY <2>2, <2>3 DEF FreshSoon
  <1> QED
    BY ServiceInvariant, <1>1, <1>2, <1>3, PTL DEF ServiceSpec, PausePositionFresh

----------------------------------------------------------------------------
(* A resume waits for the nozzle.                                         *)

\* The lines that wait for nothing, or for the nozzle among others.
NozzleLine == [cmd : MotionCommand, wait : {w \in SUBSET Heater : w = {} \/ "head" \in w}]

\* The GCODE command and the macros never wait for the bed alone.
NoBedWaits == ManualGcode \subseteq Seq(NozzleLine) /\ MacroFile \subseteq Seq(NozzleLine)

\* The nozzle is among the heaters a heated resume waits for, once it has sent its
\* heat command; and its policy runs only when the wait is over.
ResumeIInv ==
  /\ queue \in Seq(NozzleLine) /\ macro.lines \in Seq(NozzleLine)
  /\ resumeAt > 1 /\ pausedNozzle /\ heaterWait # {} => "head" \in heaterWait
  /\ pc = "resume" => heaterWait = {}

\* Every step of the loop keeps the nozzle among what a heated resume waits for, and
\* the wait ends with the nozzle reported warm.
LEMMA ResumeStepInv ==
  ASSUME NoBedWaits, ServiceIInv, MacroTypeOK, ResumeIInv, ServiceNext
  PROVE  /\ ResumeIInv'
         /\ \/ resumeAt' = 0
            \/ finishAt # 0 \/ abortAt # 0
            \/ resumeAt > 1 /\ pausedNozzle /\ heaterWait # {} /\ heaterWait' = {}
                 => "head" \in warm'
  <1> DEFINE Awaited == resumeAt > 1 /\ pausedNozzle /\ heaterWait # {}
                          => "head" \in heaterWait
             Warmed  == resumeAt > 1 /\ pausedNozzle /\ heaterWait # {} /\ heaterWait' = {}
                          => "head" \in warm'
             Goal    == /\ Awaited' /\ (pc' = "resume" => heaterWait' = {})
                        /\ (resumeAt' = 0 \/ finishAt # 0 \/ abortAt # 0 \/ Warmed)
  <1>0. Awaited /\ (pc = "resume" => heaterWait = {}) /\ resumeAt \in Nat
    BY ResumePolicyType DEF ResumeIInv, PolicyTypeOK
  <1>a. queue' \in Seq(NozzleLine) /\ macro'.lines \in Seq(NozzleLine)
    BY LinesStay DEF ResumeIInv, NoBedWaits
  <1> SUFFICES Goal
    BY <1>a DEF ResumeIInv
  <1>b. ASSUME UNCHANGED <<resumeAt, pausedNozzle, heaterWait>>, pc' # "resume" PROVE Goal
    BY <1>0, <1>b
  <1>c. ASSUME resumeAt' = 0, pc' # "resume" PROVE Goal
    BY <1>c
  <1>d. ASSUME UNCHANGED <<resumeAt, pausedNozzle>>, pc' # "resume", heaterWait' = {},
               heaterWait \subseteq warm' \/ finishAt # 0 \/ abortAt # 0
        PROVE Goal
    BY <1>0, <1>d
  <1>e. ASSUME UNCHANGED <<resumeAt, pausedNozzle>>, pc' # "resume",
               NEW s, NEW t, NEW w, Observe(s, t, w) PROVE Goal
    BY <1>b, <1>d, <1>e DEF Observe
  <1>f. ASSUME UNCHANGED <<resumeAt, pausedNozzle>>, pc' # "resume", "head" \in heaterWait'
        PROVE Goal
    BY <1>f
  <1>1. CASE NoCommand \/ ClientCommand
    <2>1. CASE Pause \/ Resume
      BY <2>1 DEF Pause, Resume, Busy, SavePauseState
    <2>2. ASSUME NEW t \in JobTargets, AcceptJob(t) PROVE Goal
      BY <1>c, <2>2 DEF AcceptJob, Busy
    <2> QED
      BY <1>1, <1>b, <1>c, <2>1, <2>2 DEF NoCommand, ClientCommand, RejectJobFile,
         Abort,
         StartAbort, RunGcode, RunMacro, RejectMacro
  <1>2. CASE ReadLine
    <2>1. CASE ReadResponse
      BY <1>e, <2>1 DEF ReadResponse, Executed
    <2>2. ASSUME NEW code \in FaultCode, NEW e \in BOOLEAN, ReadFault(code, e) PROVE Goal
      BY <1>b, <1>e, <2>2 DEF ReadFault, SerialError
    <2>3. CASE ReadGarbled \/ ReadDone
      BY <1>b, <1>d, <2>3 DEF ReadGarbled, ReadDone, SerialErrorIfActive, SerialError,
         HeaterReady
    <2>4. CASE ReadProtoError
      BY <1>b, <1>d, <1>e, <2>4 DEF ReadProtoError, SerialErrorIfActive, SerialError,
         HeaterReady
    <2>5. CASE ReadReject
      BY <1>b, <1>d, <1>e, <2>5 DEF ReadReject, SerialErrorIfActive, SerialError,
         HeaterReady
    <2> QED
      BY <1>2, <2>1, <2>2, <2>3, <2>4, <2>5 DEF ReadLine
  <1>3. CASE PollMotion
    <2>1. CASE CheckFaults
      BY <1>b, <1>c, <2>1 DEF CheckFaults, StartAbort
    <2>2. CASE PollProbe
      BY <1>c, <2>2 DEF PollProbe, OneLifecycle
    <2>3. CASE PollPausePolicy
      BY <1>b, <2>3 DEF PollPausePolicy
    <2>4. CASE PollResumeHeat
      BY <1>0, <2>4 DEF PollResumeHeat
    <2>5. CASE PollResumeWait
      BY <1>0, <1>b, <2>5 DEF PollResumeWait, HeaterReady
    <2>6. CASE PollResumePolicy
      BY <1>0, <2>6 DEF PollResumePolicy
    <2>7. CASE PollAbortCleanup
      BY <1>b, <1>d, <2>7 DEF PollAbortCleanup
    <2>8. CASE PollFinishCleanup
      BY <1>b, <1>d, <2>8 DEF PollFinishCleanup
    <2>9. CASE RefreshStatus \/ PollStatus
      BY <1>b, <2>9 DEF RefreshStatus, PollStatus, AfterPoll
    <2> QED
      BY <1>3, <2>1, <2>2, <2>3, <2>4, <2>5, <2>6, <2>7, <2>8, <2>9 DEF PollMotion
  <1>4. CASE PollJob
    <2>1. CASE JobBusy \/ PollGcodeDone
      BY <1>b, <2>1 DEF JobBusy, PollGcodeDone, GcodeTurn
    <2>2. CASE PollGcodeWait
      BY <1>b, <1>d, <2>2 DEF PollGcodeWait, GcodeReturn, GcodeTurn, HeaterReady
    <2>3. CASE PollGcodeSend
      <3>1. Head(queue) \in NozzleLine
        BY <2>3, TailType DEF PollGcodeSend, ResumeIInv
      <3>2. Head(queue).wait = {} \/ "head" \in Head(queue).wait
        BY <3>1 DEF NozzleLine
      <3>3. pc' # "resume" /\ UNCHANGED <<resumeAt, pausedNozzle>> /\ heaterWait = {}
        BY <2>3 DEF PollGcodeSend, GcodeReturn, GcodeTurn
      <3>4. heaterWait' = {} \/ heaterWait' = Head(queue).wait
        BY <2>3 DEF PollGcodeSend
      <3> QED
        BY <1>b, <1>f, <3>2, <3>3, <3>4
    <2>4. CASE ~Busy /\ UNCHANGED resumeAt /\ pc' # "resume"
      BY <1>c, <2>4 DEF Busy
    <2> QED
      BY <1>4, <2>1, <2>2, <2>3, <2>4 DEF PollJob, StreamNothing, StreamAfterError,
         StreamHeld,
         PrepareSend, PrepareWait, BodyWait, BodyLineSent, BodyLineFails, EndOfFile,
         ReadClosedStream, ReadyForLine, Streaming, StreamerTurn
  <1>5. CASE RunsMacro
    <2>1. CASE MacroSends
      <3>1. Head(macro.lines) \in NozzleLine
        BY <2>1, TailType DEF MacroSends, ResumeIInv
      <3>2. Head(macro.lines).wait = {} \/ "head" \in Head(macro.lines).wait
        BY <3>1 DEF NozzleLine
      <3>3. pc' # "resume" /\ UNCHANGED <<resumeAt, pausedNozzle>>
        BY <2>1 DEF MacroSends, MacroTurn
      <3>4. heaterWait' = heaterWait
              \/ (Head(macro.lines).wait # {} /\ heaterWait' = Head(macro.lines).wait)
        BY <2>1 DEF MacroSends
      <3> QED
        BY <1>b, <1>f, <3>2, <3>3, <3>4
    <2>2. CASE MacroHeated
      BY <1>d, <2>2 DEF MacroHeated, HeaterReady
    <2> QED
      BY <1>b, <1>5, <2>1, <2>2 DEF RunsMacro, MacroWaits, MacroEnds, MacroGivesUp
  <1> QED
    BY <1>1, <1>2, <1>3, <1>4, <1>5 DEF ServiceNext

\* While neither GCODE commands nor macros wait for the bed alone, the wait for the
\* nozzle that a resume starts is ended only by a report of a warm nozzle.
THEOREM ResumesWaitForHeat == NoBedWaits /\ ServiceSpec => ResumeWaitsForHeat
  <1> SUFFICES ASSUME NoBedWaits PROVE ServiceSpec => ResumeWaitsForHeat
    OBVIOUS
  <1>1. ServiceInit => ResumeIInv
    BY DEF ServiceInit, ResumeIInv, NoMacro
  <1>2. ServiceIInv /\ MacroTypeOK /\ ResumeIInv /\ [ServiceNext]_vars => ResumeIInv'
    <2>1. ASSUME ResumeIInv, UNCHANGED vars PROVE ResumeIInv'
      BY <2>1 DEF ResumeIInv, vars
    <2> QED
      BY <2>1, ResumeStepInv
  <1>3. ServiceIInv /\ MacroTypeOK /\ ResumeIInv /\ [ServiceNext]_vars
          => [resumeAt > 1 /\ resumeAt' # 0 /\ pausedNozzle /\ finishAt = 0 /\ abortAt = 0
                /\ heaterWait # {} /\ heaterWait' = {} => "head" \in warm']_vars
    BY ResumeStepInv
  <1> QED
    BY ServiceInvariant, <1>1, <1>2, <1>3, PTL DEF ServiceSpec, ResumeWaitsForHeat
=============================================================================
