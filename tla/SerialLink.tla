----------------------------- MODULE SerialLink -----------------------------
(***************************************************************************)
(* FlowControl composed with a serial line that can damage packets and     *)
(* responses and with the motion controller at its other end.              *)
(*                                                                         *)
(* The controller is the Connect build of Marlin and is not part of this   *)
(* repository.  It is modelled from the responses flow_control.c parses:   *)
(* it executes a packet that carries the number it expects and answers o,  *)
(* it answers any other packet with r and the number it expects or with a  *)
(* ProtoError line, and it announces planner space with q.                 *)
(***************************************************************************)
EXTENDS FlowControl, FiniteSets, Sequences, SequencesExt

CONSTANTS
  StreamWindow,   \* DENEB_PRINTSVC_STREAM_WINDOW: packets in flight (4)
  ProtoErrors,    \* kinds of controller: does it answer a wrong number with ProtoError?
  MaxDamaged,     \* bound on packets damaged on the way to the controller
  MaxLost,        \* bound on responses damaged on the way to the host
  MaxClears       \* bound on deneb_flow_clear_inflight calls

ASSUME LinkAssumption ==
  /\ StreamWindow \in Nat \ {0}
  /\ ProtoErrors \subseteq BOOLEAN
  /\ MaxDamaged \in Nat /\ MaxLost \in Nat /\ MaxClears \in Nat

VARIABLES
  protoErrors,    \* the kind of this controller
  toController,   \* packets on the wire: [sequence, id, damaged]
  toHost,         \* responses on the wire: [kind, sequence, free]
  expected,       \* the number the controller executes next
  reportedFull,   \* the controller's last space report was 0
  executed,       \* history: ids (send orders) of the commands executed
  budget          \* how many faults of each kind may still happen

linkVars == <<toController, toHost, expected, reportedFull, executed, budget>>
vars == <<flowVars, linkVars, protoErrors>>

LinkInit ==
  /\ FlowInit /\ protoErrors \in ProtoErrors
  /\ toController = <<>> /\ toHost = <<>>
  /\ expected = 0
  /\ reportedFull = FALSE
  /\ executed = <<>>
  /\ budget = [damage |-> MaxDamaged, lose |-> MaxLost, clear |-> MaxClears]

----------------------------------------------------------------------------
(* The host. *)

Inflight == Cardinality({i \in Slot : Pending(i)})

\* The gate in front of every streamed, policy and startup command.
GateOpen == ~HasPendingBarrier /\ CanSend /\ Inflight < StreamWindow

\* deneb_motion_sender_send_gcode on an open serial port.
HostSend(c) ==
  /\ GateOpen
  /\ PreparePacket(c)
  /\ toController' = Append(toController,
       [sequence |-> nextSequence, id |-> sentCount, damaged |-> FALSE])
  /\ UNCHANGED <<protoErrors, toHost, expected, reportedFull, executed, budget>>

\* What deneb_motion_sender_resend_pending writes: the pending packets in send
\* order, each found again by its number.  (The two 0xff bytes written first end
\* a half-read frame.)
PendingPackets ==
  LET pending    == {i \in Slot : Pending(i)}
      before(i)  == {j \in pending : slots[j].sendOrder < slots[i].sendOrder}
      emitted(k) == CHOOSE i \in pending : Cardinality(before(i)) = k - 1
      found(i)   == CHOOSE j \in Slot : FindsSlot(j, slots[i].sequence)
  IN  [k \in 1 .. Cardinality(pending) |->
         [sequence |-> slots[emitted(k)].sequence,
          id |-> slots[found(emitted(k))].sendOrder, damaged |-> FALSE]]

\* One turn of deneb_motion_runtime_poll's loop: a line is read, given to
\* deneb_flow_handle_response and its result acted on.
HostReceive ==
  /\ toHost # <<>>
  /\ LET m == Head(toHost) IN
       \/ /\ m.kind = "o" /\ HandleAck(m.sequence, m.free)
          /\ UNCHANGED toController
       \/ /\ m.kind = "r" /\ HandleReject(m.sequence, m.free)
          /\ toController' =
               IF RejectTriggersResend(m.sequence) /\ WithinResendLimit(m.sequence)
               THEN toController \o PendingPackets'
               ELSE toController
       \/ /\ m.kind = "q" /\ HandleSpaceReport(m.free)
          /\ UNCHANGED toController
       \/ /\ m.kind = "proto" /\ ResyncToExpected(m.sequence)
          /\ UNCHANGED toController
  /\ toHost' = Tail(toHost)
  /\ UNCHANGED <<protoErrors, expected, reportedFull, executed, budget>>

\* A job is accepted, aborted or dropped while packets are on the wire.
HostClear ==
  /\ budget.clear > 0
  /\ ClearInflight
  /\ budget' = [budget EXCEPT !.clear = @ - 1]
  /\ UNCHANGED <<protoErrors, toController, toHost, expected, reportedFull, executed>>

----------------------------------------------------------------------------
(* The controller and the wire. *)

Answer(kind, s, free) ==
  toHost' = Append(toHost, [kind |-> kind, sequence |-> s, free |-> free])

\* Mutant: the answer names the number expected next.
ControllerExecuteAnswersNext ==
  /\ toController # <<>>
  /\ ~Head(toController).damaged /\ Head(toController).sequence = expected
  /\ executed' = Append(executed, Head(toController).id)
  /\ expected' = Successor(expected)
  /\ \E free \in 0 .. MaxFree :
       Answer("o", Successor(expected), free) /\ reportedFull' = (free = 0)
  /\ toController' = Tail(toController)
  /\ UNCHANGED <<flowVars, protoErrors, budget>>

ControllerExecute ==
  /\ toController # <<>>
  /\ ~Head(toController).damaged /\ Head(toController).sequence = expected
  /\ executed' = Append(executed, Head(toController).id)
  /\ expected' = Successor(expected)
  /\ \E free \in 0 .. MaxFree :
       Answer("o", expected, free) /\ reportedFull' = (free = 0)
  /\ toController' = Tail(toController)
  /\ UNCHANGED <<flowVars, protoErrors, budget>>

ControllerReject ==
  /\ toController # <<>>
  /\ Head(toController).damaged \/ Head(toController).sequence # expected
  /\ IF protoErrors /\ ~Head(toController).damaged
     THEN Answer("proto", expected, 0)
     ELSE Answer("r", expected, IF reportedFull THEN 0 ELSE MaxFree)
  /\ toController' = Tail(toController)
  /\ UNCHANGED <<flowVars, protoErrors, expected, reportedFull, executed, budget>>

ControllerReportsSpace ==
  /\ reportedFull
  /\ Answer("q", expected, MaxFree)
  /\ reportedFull' = FALSE
  /\ UNCHANGED <<flowVars, protoErrors, toController, expected, executed, budget>>

\* A packet's CRC16 no longer matches.
DamagePacket ==
  /\ budget.damage > 0
  /\ \E k \in DOMAIN toController :
       /\ ~toController[k].damaged
       /\ toController' = [toController EXCEPT ![k].damaged = TRUE]
  /\ budget' = [budget EXCEPT !.damage = @ - 1]
  /\ UNCHANGED <<flowVars, protoErrors, toHost, expected, reportedFull, executed>>

\* A response whose CRC8 does not match (parse_sync_packet answers -1, counted
\* and dropped) or that is lost altogether.
LoseResponse ==
  /\ budget.lose > 0
  /\ \E k \in DOMAIN toHost : toHost' = RemoveAt(toHost, k)
  /\ budget' = [budget EXCEPT !.lose = @ - 1]
  /\ UNCHANGED <<flowVars, protoErrors, toController, expected, reportedFull, executed>>

----------------------------------------------------------------------------
LinkNext ==
  \/ \E c \in Command : HostSend(c)
  \/ HostReceive \/ HostClear
  \/ ControllerExecute \/ ControllerReject \/ ControllerReportsSpace
  \/ DamagePacket \/ LoseResponse

LinkSpec == LinkInit /\ [][LinkNext]_vars

\* The service polls the port on every turn of its main loop and the
\* controller keeps working; nothing obliges anyone to send.
LinkFairSpec ==
  /\ LinkSpec
  /\ WF_vars(HostReceive)
  /\ WF_vars(ControllerExecute) /\ WF_vars(ControllerReject)
  /\ WF_vars(ControllerReportsSpace)

----------------------------------------------------------------------------
\* No command reaches the machine twice or after a later one, whatever is
\* damaged, rejected, replayed, cleared or resynchronised; and, but for a
\* resynchronisation, none is left out (resend_pending, clear_inflight).
ExecutedInOrder ==
  /\ \A k \in 1 .. Len(executed) - 1 : executed[k] < executed[k + 1]
  /\ ~protoErrors => \A k \in DOMAIN executed : executed[k] = k - 1

\* A slot is only acknowledged when its command was executed: the cumulative
\* acknowledgement and the reject's implicit one never run ahead.
AcknowledgedWereExecuted ==
  ~protoErrors =>
  \A i \in Slot : slots[i].occupied /\ slots[i].acknowledged
                    => \E k \in DOMAIN executed : executed[k] = slots[i].sendOrder

\* The assumption under which FlowControl is proved: an acknowledgement that
\* arrives names a recent packet or one no slot remembers.
AcksAreAnswerable ==
  toHost # <<>> /\ Head(toHost).kind = "o" => Answerable(Head(toHost).sequence)

\* Every command handed to the link is executed in the end: a damaged packet is
\* retried until it gets through.
EverySentExecuted ==
  \A id \in 0 .. MaxSends - 1 :
    (sentCount > id) ~> (\E k \in DOMAIN executed : executed[k] = id)

=============================================================================
