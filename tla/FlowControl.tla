---------------------------- MODULE FlowControl ----------------------------
(***************************************************************************)
(* The host side of the serial packet protocol of deneb-printsvc           *)
(* (printsvc/src/flow_control.c): a fixed array of packet slots, sequence  *)
(* numbers that wrap at Modulo, cumulative acknowledgements, and the       *)
(* reject/resend and resynchronisation paths.                              *)
(*                                                                         *)
(* The controller is not part of this module.  Its responses are inputs of *)
(* the actions; SerialLink composes this module with a controller and a    *)
(* lossy link and checks that Answerable, the only thing assumed of an     *)
(* acknowledgement here, is what such a controller sends.                  *)
(***************************************************************************)
EXTENDS Integers

CONSTANTS
  Window,       \* DENEB_FLOW_WINDOW: the number of slots (32)
  Modulo,       \* DENEB_FLOW_SEQUENCE_MODULO: sequence numbers wrap here (255)
  ResendLimit,  \* DENEB_FLOW_RESEND_ATTEMPT_LIMIT (8)
  Command,      \* the G-code commands the service can send
  Barrier,      \* those command_is_barrier accepts: G28, G90, M400, M109, ...
  MaxFree,      \* largest planner free space the controller reports
  MaxSends      \* bound on sent_count, the number of packets ever sent

ASSUME FlowAssumption ==
  /\ Window \in Nat \ {0}
  /\ Modulo \in Nat
  /\ 2 * Window <= Modulo
  /\ ResendLimit \in Nat
  /\ Command # {} /\ Barrier \subseteq Command
  /\ MaxFree \in Nat
  /\ MaxSends \in Nat

VARIABLES
  slots,            \* the slot array
  nextSequence,     \* next_sequence
  freeKnown,        \* controller_free_space_known
  freeSpace,        \* controller_free_space
  handlingResend,   \* handling_resend
  sentCount         \* sent_count

flowVars ==
  <<slots, nextSequence, freeKnown, freeSpace, handlingResend, sentCount>>

Slot  == 0 .. Window - 1
SeqNo == 0 .. Modulo - 1

SlotRecord ==
  [occupied : BOOLEAN, acknowledged : BOOLEAN, barrier : BOOLEAN,
   sequence : SeqNo, command : Command, sendOrder : Nat,
   resendAttempts : 0 .. ResendLimit + 1]

\* A slot after memset.  Its command is never read while occupied is FALSE.
EmptySlot ==
  [occupied |-> FALSE, acknowledged |-> FALSE, barrier |-> FALSE,
   sequence |-> 0, command |-> CHOOSE c \in Command : TRUE,
   sendOrder |-> 0, resendAttempts |-> 0]

----------------------------------------------------------------------------
(* Lookups over the slot array. *)

Occupied(i) == slots[i].occupied
Pending(i)  == slots[i].occupied /\ ~slots[i].acknowledged

\* slot_for_sequence: the first occupied slot that carries s.  Acknowledged
\* slots stay occupied until they are reused, so s may be carried twice.
FindsSlot(i, s) ==
  /\ Occupied(i) /\ slots[i].sequence = s
  /\ \A j \in Slot : j < i => ~(Occupied(j) /\ slots[j].sequence = s)

\* pending_slot_for_sequence: that slot, unless it is acknowledged.
FindsPendingSlot(i, s) == FindsSlot(i, s) /\ ~slots[i].acknowledged

\* The slots first_free_slot chooses from: unoccupied ones before
\* acknowledged ones, none when the controller last reported no space.
FreeSlots ==
  IF freeKnown /\ freeSpace = 0 THEN {}
  ELSE IF \E i \in Slot : ~Occupied(i) THEN {i \in Slot : ~Occupied(i)}
  ELSE {i \in Slot : slots[i].acknowledged}

IsFirstFreeSlot(i) == i \in FreeSlots /\ \A j \in FreeSlots : i <= j

\* deneb_flow_can_send and deneb_flow_has_pending_barrier.
CanSend           == FreeSlots # {}
HasPendingBarrier == \E i \in Slot : Pending(i) /\ slots[i].barrier

\* Mutant: the wrap is missing.
SuccessorUnwrapped(s) == s + 1

\* next_sequence: 254 is followed by 0.
Successor(s) == IF s + 1 >= Modulo THEN 0 ELSE s + 1

\* The wrapping distance sequence_is_not_newer computes.
Distance(ack, s) == IF ack >= s THEN ack - s ELSE ack + Modulo - s

\* sequence_is_not_newer.
IsNotNewer(s, ack) == Distance(ack, s) < Window

\* Mutant: only the named packet is acknowledged.
CoveredAlone(i, s, inclusive) ==
  Pending(i) /\ slots[i].sequence = s /\ inclusive

\* acknowledge_through: every pending slot at or before s in the window; s
\* itself only when inclusive.
CoveredBy(i, s, inclusive) ==
  /\ Pending(i)
  /\ IF slots[i].sequence = s THEN inclusive
                              ELSE IsNotNewer(slots[i].sequence, s)

AcknowledgeThrough(s, inclusive) ==
  [i \in Slot |-> IF CoveredBy(i, s, inclusive)
                  THEN [slots[i] EXCEPT !.acknowledged = TRUE]
                  ELSE slots[i]]

\* request_resend's attempt counter; only "more than the limit" is observed.
NextAttempt(n) == IF n > ResendLimit THEN n ELSE n + 1

CountAttempt(table, i) ==
  [table EXCEPT ![i] =
     [@ EXCEPT !.resendAttempts = NextAttempt(slots[i].resendAttempts)]]

----------------------------------------------------------------------------
FlowInit ==
  /\ slots = [i \in Slot |-> EmptySlot]
  /\ nextSequence = 0
  /\ freeKnown = FALSE
  /\ freeSpace = 0
  /\ handlingResend = FALSE
  /\ sentCount = 0

\* deneb_flow_prepare_packet, the success path.  (-2, no slot, changes
\* nothing; -1, a command that cannot be encoded, needs more than 255
\* characters and every caller's buffer holds 255.)
PreparePacket(c) ==
  /\ sentCount < MaxSends
  /\ \E i \in Slot :
       /\ IsFirstFreeSlot(i)
       /\ slots' = [slots EXCEPT ![i] =
            [occupied |-> TRUE, acknowledged |-> FALSE,
             barrier |-> c \in Barrier, sequence |-> nextSequence,
             command |-> c, sendOrder |-> sentCount, resendAttempts |-> 0]]
  /\ nextSequence' = Successor(nextSequence)
  /\ freeSpace' = IF freeKnown /\ freeSpace > 0 THEN freeSpace - 1 ELSE freeSpace
  /\ sentCount' = sentCount + 1
  /\ UNCHANGED <<freeKnown, handlingResend>>

\* Every well-formed sync line reports the planner's free space.
ReportSpace(free) == freeKnown' = TRUE /\ freeSpace' = free

\* oSSPPCC: packet s was executed.
HandleAck(s, free) ==
  /\ ReportSpace(free)
  /\ handlingResend' = FALSE
  /\ slots' = IF \E i \in Slot : FindsSlot(i, s)
              THEN AcknowledgeThrough(s, TRUE)
              ELSE slots
  /\ UNCHANGED <<nextSequence, sentCount>>

\* The condition under which rSSPPCC is taken for a request to resend.
RejectTriggersResend(s) ==
  ~handlingResend /\ \E i \in Slot : FindsPendingSlot(i, s)

\* request_resend's answer: 2, replay, within the limit and -1 beyond it.
WithinResendLimit(s) ==
  \E i \in Slot : FindsSlot(i, s) /\ slots[i].resendAttempts < ResendLimit

\* Mutant: the rejected packet counts as acknowledged.
HandleRejectInclusive(s, free) ==
  /\ ReportSpace(free)
  /\ \/ /\ RejectTriggersResend(s)
        /\ slots' = AcknowledgeThrough(s, TRUE)
        /\ handlingResend' = TRUE
     \/ /\ ~RejectTriggersResend(s)
        /\ UNCHANGED <<slots, handlingResend>>
  /\ UNCHANGED <<nextSequence, sentCount>>

\* rSSPPCC: the controller wants s again.
HandleReject(s, free) ==
  /\ ReportSpace(free)
  /\ \/ /\ RejectTriggersResend(s)
        /\ \E i \in Slot :
             /\ FindsPendingSlot(i, s)
             /\ slots' = CountAttempt(AcknowledgeThrough(s, FALSE), i)
        /\ handlingResend' = TRUE
     \/ /\ ~RejectTriggersResend(s)
        /\ UNCHANGED <<slots, handlingResend>>
  /\ UNCHANGED <<nextSequence, sentCount>>

\* qSSPPCC: only the free space changes.
HandleSpaceReport(free) ==
  /\ ReportSpace(free)
  /\ UNCHANGED <<slots, nextSequence, handlingResend, sentCount>>

\* The plain-text forms of other Marlin builds: "Resend: N" and "rs N" ...
HandleTextResend(s) ==
  /\ ~handlingResend
  /\ \E i \in Slot : FindsPendingSlot(i, s) /\ slots' = CountAttempt(slots, i)
  /\ handlingResend' = TRUE
  /\ UNCHANGED <<nextSequence, freeKnown, freeSpace, sentCount>>

\* ... "ok N", which acknowledges one slot and not the ones before it ...
HandleTextOk(s) ==
  /\ \E i \in Slot :
       /\ FindsSlot(i, s)
       /\ slots' = [slots EXCEPT ![i] = [@ EXCEPT !.acknowledged = TRUE]]
  /\ UNCHANGED <<nextSequence, freeKnown, freeSpace, handlingResend, sentCount>>

\* ... and a bare "ok", which acknowledges the first pending slot by index.
HandleBareOk ==
  /\ \E i \in Slot :
       /\ Pending(i) /\ \A j \in Slot : j < i => ~Pending(j)
       /\ slots' = [slots EXCEPT ![i] = [@ EXCEPT !.acknowledged = TRUE]]
  /\ UNCHANGED <<nextSequence, freeKnown, freeSpace, handlingResend, sentCount>>

\* Mutant: clearing the window restarts the numbering.
ClearInflightRenumbers ==
  /\ slots' = [i \in Slot |-> EmptySlot]
  /\ freeKnown' = FALSE
  /\ freeSpace' = 0
  /\ nextSequence' = 0
  /\ UNCHANGED <<handlingResend, sentCount>>

\* deneb_flow_clear_inflight: a job is accepted, aborted or dropped.
ClearInflight ==
  /\ slots' = [i \in Slot |-> EmptySlot]
  /\ freeKnown' = FALSE
  /\ freeSpace' = 0
  /\ UNCHANGED <<nextSequence, handlingResend, sentCount>>

\* Mutant: the slots survive the resynchronisation.
ResyncKeepsSlots(e) ==
  /\ nextSequence' = e
  /\ handlingResend' = FALSE
  /\ UNCHANGED <<slots, freeKnown, freeSpace, sentCount>>

\* "Error:ProtoError:Sequence number is unexpected (received, expected): r,e":
\* handle_response answers 3 and motion_runtime calls
\* deneb_flow_resync_to_expected at once.
ResyncToExpected(e) ==
  /\ slots' = [i \in Slot |-> EmptySlot]
  /\ freeKnown' = FALSE
  /\ freeSpace' = 0
  /\ nextSequence' = e
  /\ handlingResend' = FALSE
  /\ UNCHANGED sentCount

----------------------------------------------------------------------------
(* What the host assumes of an acknowledgement: it names a packet among    *)
(* the last Modulo - Window + 1 sent, or one no slot remembers.            *)

\* How many packets ago s was (or will have been) sent: 1 for the last one,
\* Modulo for the number the next packet will carry.
AgeFrom(n, s) == IF n > s THEN n - s ELSE n + Modulo - s
Age(s) == AgeFrom(nextSequence, s)

Answerable(s) ==
  \/ Age(s) <= Modulo - Window + 1
  \/ \A i \in Slot : Occupied(i) => slots[i].sequence # s

\* The Connect protocol: CRC-protected o, r and q lines and ProtoError.
SyncStep ==
  \/ \E c \in Command : PreparePacket(c)
  \/ \E s \in SeqNo, free \in 0 .. MaxFree :
       \/ Answerable(s) /\ HandleAck(s, free)
       \/ HandleReject(s, free)
  \/ \E free \in 0 .. MaxFree : HandleSpaceReport(free)
  \/ ClearInflight
  \/ \E e \in SeqNo : ResyncToExpected(e)

TextStep ==
  \/ \E s \in SeqNo : HandleTextResend(s) \/ HandleTextOk(s)
  \/ HandleBareOk

\* Everything flow_control.c accepts.
FlowSpec == FlowInit /\ [][SyncStep \/ TextStep]_flowVars

\* The sync protocol alone, which the Connect controller speaks.
SyncSpec == FlowInit /\ [][SyncStep]_flowVars

----------------------------------------------------------------------------
\* Every number stays below the wrap, every report within the space a line can
\* carry and every resend counter within one of its limit.
FlowTypeOK ==
  /\ slots \in [Slot -> SlotRecord]
  /\ nextSequence \in SeqNo
  /\ freeKnown \in BOOLEAN
  /\ freeSpace \in 0 .. MaxFree
  /\ handlingResend \in BOOLEAN
  /\ sentCount \in Nat

\* slot_for_sequence returns the packet still waiting for an answer and never
\* a stale acknowledged slot with the same wrapped number: a stale hit would
\* make a reject be ignored or replay an old command.
LookupSound ==
  \A i \in Slot : Pending(i) => FindsSlot(i, slots[i].sequence)

\* resend_pending replays the pending slots by send_order.  What it replays is
\* exactly the last packets sent, with consecutive wrapped numbers and no gap,
\* so a controller that takes the first one can take them all.
ResendRunUnbroken ==
  \A i \in Slot : Pending(i) =>
    /\ Age(slots[i].sequence) = sentCount - slots[i].sendOrder
    /\ \A k \in slots[i].sendOrder .. sentCount - 1 :
         \E j \in Slot : Pending(j) /\ slots[j].sendOrder = k

----------------------------------------------------------------------------
(* The inductive strengthening.                                            *)

\* Orders of occupied slots lie in the past, and no two slots share one.
OrderInv ==
  /\ \A i \in Slot : Occupied(i) => slots[i].sendOrder < sentCount
  /\ \A i, j \in Slot : Occupied(i) /\ Occupied(j) /\ i # j
                          => slots[i].sendOrder # slots[j].sendOrder

\* A pending packet is one of the last Window packets sent.
WindowInv ==
  \A i \in Slot : Pending(i) => Age(slots[i].sequence) <= Window

\* Until every slot has been used once the array fills from the left, and its
\* numbers are the last ones sent.
FillInv ==
  \A u \in Slot : ~Occupied(u) =>
    /\ \A j \in Slot : j > u => ~Occupied(j)
    /\ \A j \in Slot : Occupied(j) /\ (\A v \in Slot : v < u => Occupied(v))
                          => Age(slots[j].sequence) = u - j

\* The invariant of the sync protocol that is inductive: LookupSound rests on
\* FillInv while slots are unused and on the run of ages afterwards.
FlowIInv ==
  FlowTypeOK /\ LookupSound /\ ResendRunUnbroken /\ OrderInv /\ WindowInv /\ FillInv
=============================================================================
