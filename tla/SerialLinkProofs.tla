------------------------- MODULE SerialLinkProofs --------------------------
(***************************************************************************)
(* Proofs about the host's flow control (FlowControl) and about its        *)
(* composition with the serial line and the motion controller              *)
(* (SerialLink), for every window, modulus and command set that            *)
(* FlowAssumption allows.                                                  *)
(***************************************************************************)
EXTENDS SerialLink, FiniteSetTheorems, SequenceTheorems, TLAPS

\* A slot after memset is a slot.
LEMMA EmptySlotType == EmptySlot \in SlotRecord
  <1>1. (CHOOSE c \in Command : TRUE) \in Command
    BY FlowAssumption
  <1>2. 0 \in SeqNo /\ 0 \in 0 .. ResendLimit + 1
    BY FlowAssumption DEF SeqNo
  <1> QED
    BY <1>1, <1>2 DEF EmptySlot, SlotRecord

\* next_sequence stays below the wrap.
LEMMA SuccessorType ==
  ASSUME NEW s \in SeqNo PROVE Successor(s) \in SeqNo
  BY FlowAssumption DEF Successor, SeqNo

\* Marking a slot acknowledged, and counting a resend attempt, keep its type.
LEMMA AckType ==
  ASSUME NEW r \in SlotRecord
  PROVE  [r EXCEPT !.acknowledged = TRUE] \in SlotRecord
  BY DEF SlotRecord

\* Counting one resend attempt keeps the type of a slot.
LEMMA AttemptType ==
  ASSUME NEW r \in SlotRecord, NEW n \in 0 .. ResendLimit + 1
  PROVE  [r EXCEPT !.resendAttempts = NextAttempt(n)] \in SlotRecord
  <1>1. NextAttempt(n) \in 0 .. ResendLimit + 1
    BY FlowAssumption DEF NextAttempt
  <1> QED
    BY <1>1 DEF SlotRecord

\* So does acknowledge_through of the array.
LEMMA AcknowledgeThroughType ==
  ASSUME FlowTypeOK, NEW s \in SeqNo, NEW inc \in BOOLEAN
  PROVE  AcknowledgeThrough(s, inc) \in [Slot -> SlotRecord]
  BY AckType DEF AcknowledgeThrough, FlowTypeOK

\* And request_resend.
LEMMA CountAttemptType ==
  ASSUME FlowTypeOK, NEW table \in [Slot -> SlotRecord], NEW i \in Slot
  PROVE  CountAttempt(table, i) \in [Slot -> SlotRecord]
  <1>1. slots[i].resendAttempts \in 0 .. ResendLimit + 1
    BY DEF FlowTypeOK, SlotRecord
  <1>2. [table[i] EXCEPT !.resendAttempts = NextAttempt(slots[i].resendAttempts)]
          \in SlotRecord
    BY <1>1, AttemptType
  <1> QED
    BY <1>2 DEF CountAttempt

\* And the acknowledgement of one slot by a plain-text ok.
LEMMA AckOneType ==
  ASSUME FlowTypeOK, NEW i \in Slot
  PROVE  [slots EXCEPT ![i] = [@ EXCEPT !.acknowledged = TRUE]]
           \in [Slot -> SlotRecord]
  BY AckType DEF FlowTypeOK

\* deneb_flow_init establishes the type invariant.
LEMMA FlowInitType == FlowInit => FlowTypeOK
  <1> SUFFICES ASSUME FlowInit PROVE FlowTypeOK
    OBVIOUS
  <1>1. slots \in [Slot -> SlotRecord]
    BY EmptySlotType DEF FlowInit
  <1>2. nextSequence \in SeqNo /\ freeSpace \in 0 .. MaxFree /\ sentCount \in Nat
    BY FlowAssumption DEF FlowInit, SeqNo
  <1> QED
    BY <1>1, <1>2 DEF FlowInit, FlowTypeOK

\* The sync protocol keeps the type invariant.
LEMMA SyncStepType ==
  ASSUME FlowTypeOK, SyncStep PROVE FlowTypeOK'
  <1>1. ASSUME NEW c \in Command, PreparePacket(c) PROVE FlowTypeOK'
    <2>1. PICK i \in Slot :
            slots' = [slots EXCEPT ![i] =
              [occupied |-> TRUE, acknowledged |-> FALSE,
               barrier |-> c \in Barrier, sequence |-> nextSequence,
               command |-> c, sendOrder |-> sentCount, resendAttempts |-> 0]]
      BY <1>1 DEF PreparePacket
    <2>2. [occupied |-> TRUE, acknowledged |-> FALSE,
           barrier |-> c \in Barrier, sequence |-> nextSequence,
           command |-> c, sendOrder |-> sentCount, resendAttempts |-> 0]
             \in SlotRecord
      BY FlowAssumption DEF FlowTypeOK, SlotRecord
    <2>3. slots' \in [Slot -> SlotRecord]
      BY <2>1, <2>2 DEF FlowTypeOK
    <2>4. nextSequence' \in SeqNo
      BY <1>1, SuccessorType DEF PreparePacket, FlowTypeOK
    <2>5. freeSpace' \in 0 .. MaxFree /\ sentCount' \in Nat
      BY <1>1, FlowAssumption DEF PreparePacket, FlowTypeOK
    <2> QED
      BY <1>1, <2>3, <2>4, <2>5 DEF PreparePacket, FlowTypeOK
  <1>2. ASSUME NEW s \in SeqNo, NEW free \in 0 .. MaxFree, HandleAck(s, free)
        PROVE  FlowTypeOK'
    BY <1>2, AcknowledgeThroughType DEF HandleAck, ReportSpace, FlowTypeOK
  <1>3. ASSUME NEW s \in SeqNo, NEW free \in 0 .. MaxFree, HandleReject(s, free)
        PROVE  FlowTypeOK'
    <2>1. CASE RejectTriggersResend(s)
      <3>1. PICK i \in Slot : slots' = CountAttempt(AcknowledgeThrough(s, FALSE), i)
        BY <1>3, <2>1 DEF HandleReject
      <3>2. AcknowledgeThrough(s, FALSE) \in [Slot -> SlotRecord]
        BY AcknowledgeThroughType
      <3>3. slots' \in [Slot -> SlotRecord]
        BY <3>1, <3>2, CountAttemptType
      <3> QED
        BY <1>3, <2>1, <3>3 DEF HandleReject, ReportSpace, FlowTypeOK
    <2>2. CASE ~RejectTriggersResend(s)
      BY <1>3, <2>2 DEF HandleReject, ReportSpace, FlowTypeOK
    <2> QED
      BY <2>1, <2>2
  <1>4. ASSUME NEW free \in 0 .. MaxFree, HandleSpaceReport(free)
        PROVE  FlowTypeOK'
    BY <1>4 DEF HandleSpaceReport, ReportSpace, FlowTypeOK
  <1> DEFINE Cleared == [i \in Slot |-> EmptySlot]
  <1>a. Cleared \in [Slot -> SlotRecord] /\ 0 \in 0 .. MaxFree
    BY EmptySlotType, FlowAssumption
  <1>5. ASSUME ClearInflight PROVE FlowTypeOK'
    <2>1. slots' = Cleared
      BY <1>5 DEF ClearInflight
    <2> QED
      BY <1>5, <1>a, <2>1 DEF ClearInflight, FlowTypeOK
  <1>6. ASSUME NEW e \in SeqNo, ResyncToExpected(e) PROVE FlowTypeOK'
    <2>1. slots' = Cleared
      BY <1>6 DEF ResyncToExpected
    <2> QED
      BY <1>6, <1>a, <2>1 DEF ResyncToExpected, FlowTypeOK
  <1> QED
    BY <1>1, <1>2, <1>3, <1>4, <1>5, <1>6 DEF SyncStep

\* And so do the plain-text responses.
LEMMA TextStepType ==
  ASSUME FlowTypeOK, TextStep PROVE FlowTypeOK'
  <1>1. ASSUME NEW s \in SeqNo, HandleTextResend(s) PROVE FlowTypeOK'
    BY <1>1, CountAttemptType DEF HandleTextResend, FlowTypeOK
  <1>2. ASSUME NEW s \in SeqNo, HandleTextOk(s) PROVE FlowTypeOK'
    BY <1>2, AckOneType DEF HandleTextOk, FlowTypeOK
  <1>3. ASSUME HandleBareOk PROVE FlowTypeOK'
    BY <1>3, AckOneType DEF HandleBareOk, FlowTypeOK
  <1> QED
    BY <1>1, <1>2, <1>3 DEF TextStep

\* Whatever line the controller sends, in the sync or in the plain-text form,
\* the slot array, the sequence number and the space report stay well formed.
THEOREM FlowTypeCorrect == FlowSpec => []FlowTypeOK
  <1>1. FlowTypeOK /\ UNCHANGED flowVars => FlowTypeOK'
    BY DEF FlowTypeOK, flowVars
  <1>2. FlowTypeOK /\ [SyncStep \/ TextStep]_flowVars => FlowTypeOK'
    BY <1>1, SyncStepType, TextStepType
  <1> QED
    BY FlowInitType, <1>2, PTL DEF FlowSpec

----------------------------------------------------------------------------
(* Arithmetic of wrapped sequence numbers. *)

\* The last packet has age 1, the next number age Modulo.
LEMMA AgeRange ==
  ASSUME FlowTypeOK, NEW s \in SeqNo
  PROVE  Age(s) \in 1 .. Modulo
  BY FlowAssumption DEF Age, AgeFrom, SeqNo, FlowTypeOK

\* Numbers of the same age are the same.
LEMMA AgeInjective ==
  ASSUME FlowTypeOK, NEW s \in SeqNo, NEW t \in SeqNo, Age(s) = Age(t)
  PROVE  s = t
  BY FlowAssumption DEF Age, AgeFrom, SeqNo, FlowTypeOK

\* The next number is the oldest.
LEMMA AgeOfNext ==
  ASSUME FlowTypeOK PROVE Age(nextSequence) = Modulo
  BY FlowAssumption DEF Age, AgeFrom, SeqNo, FlowTypeOK

\* Sending one packet makes every number one packet older; the number just
\* used becomes the youngest.
LEMMA AgeAfterSend ==
  ASSUME FlowTypeOK, nextSequence' = Successor(nextSequence), NEW s \in SeqNo
  PROVE  AgeFrom(nextSequence', s) = IF Age(s) = Modulo THEN 1 ELSE Age(s) + 1
  BY FlowAssumption DEF Age, AgeFrom, SeqNo, FlowTypeOK, Successor

\* acknowledge_through compares wrapped numbers; for a packet in the window
\* and an answerable acknowledgement that is a comparison of ages.
LEMMA CoverageByAge ==
  ASSUME FlowTypeOK, NEW q \in SeqNo, NEW s \in SeqNo,
         Age(q) <= Window, Age(s) <= Modulo - Window + 1
  PROVE  /\ (q = s \/ IsNotNewer(q, s)) <=> Age(q) >= Age(s)
         /\ (q # s /\ IsNotNewer(q, s)) <=> Age(q) > Age(s)
  BY FlowAssumption DEF Age, AgeFrom, SeqNo, FlowTypeOK, IsNotNewer, Distance

----------------------------------------------------------------------------
(* Steps that only acknowledge keep the invariant. *)

\* The fields of a slot, one by one.
LEMMA SlotFieldTypes ==
  ASSUME FlowTypeOK, NEW i \in Slot
  PROVE  /\ slots[i] \in SlotRecord
         /\ slots[i].occupied \in BOOLEAN
         /\ slots[i].acknowledged \in BOOLEAN
         /\ slots[i].sequence \in SeqNo
         /\ slots[i].sendOrder \in Nat
  BY DEF FlowTypeOK, SlotRecord

\* Every slot keeps its packet.
KeepsPackets ==
  \A i \in Slot : /\ slots'[i].occupied = slots[i].occupied
                  /\ slots'[i].sequence = slots[i].sequence
                  /\ slots'[i].sendOrder = slots[i].sendOrder

\* Exactly the pending packets younger than a stay pending.
AcksFromAge(a) ==
  \A i \in Slot : Pending(i)' <=> Pending(i) /\ Age(slots[i].sequence) < a

\* A step that acknowledges exactly the packets from an age on keeps FlowIInv.
LEMMA AckKeepsInv ==
  ASSUME FlowIInv, FlowTypeOK', KeepsPackets, NEW a \in Int, AcksFromAge(a),
         UNCHANGED <<nextSequence, sentCount>>
  PROVE  FlowIInv'
  <1>1. \A s : Age(s)' = Age(s)
    BY DEF Age
  <1>2. \A i \in Slot : Occupied(i)' <=> Occupied(i)
    BY DEF KeepsPackets, Occupied
  <1>3. OrderInv'
    BY <1>2 DEF FlowIInv, OrderInv, KeepsPackets
  <1>4. WindowInv'
    BY <1>1 DEF FlowIInv, WindowInv, KeepsPackets, AcksFromAge
  <1>5. FillInv'
    BY <1>1, <1>2 DEF FlowIInv, FillInv, KeepsPackets
  <1>6. LookupSound'
    BY <1>2 DEF FlowIInv, LookupSound, KeepsPackets, AcksFromAge, FindsSlot
  <1>7. ResendRunUnbroken'
    <2> SUFFICES ASSUME NEW i \in Slot, Pending(i)'
                 PROVE  /\ Age(slots[i].sequence)' = sentCount' - slots[i].sendOrder'
                        /\ \A k \in slots'[i].sendOrder .. sentCount' - 1 :
                             \E j \in Slot : Pending(j)' /\ slots'[j].sendOrder = k
      BY DEF ResendRunUnbroken
    <2>1. Pending(i) /\ Age(slots[i].sequence) < a
      BY DEF AcksFromAge
    <2>2. Age(slots[i].sequence) = sentCount - slots[i].sendOrder
      BY <2>1 DEF FlowIInv, ResendRunUnbroken
    <2>3. ASSUME NEW k \in slots[i].sendOrder .. sentCount - 1
          PROVE  \E j \in Slot : Pending(j)' /\ slots'[j].sendOrder = k
      <3>1. PICK j \in Slot : Pending(j) /\ slots[j].sendOrder = k
        BY <2>1 DEF FlowIInv, ResendRunUnbroken
      <3>2. Age(slots[j].sequence) = sentCount - k
        BY <3>1 DEF FlowIInv, ResendRunUnbroken
      <3>3. Age(slots[j].sequence) < a
        BY <2>1, <2>2, <3>2, SlotFieldTypes DEF FlowIInv, FlowTypeOK
      <3> QED
        BY <3>1, <3>3 DEF AcksFromAge, KeepsPackets
    <2> QED
      BY <1>1, <2>2, <2>3 DEF KeepsPackets
  <1> QED
    BY <1>3, <1>4, <1>5, <1>6, <1>7 DEF FlowIInv

\* acknowledge_through changes no packet, and pending are the ones not covered.
LEMMA CoveredKeepsPackets ==
  ASSUME FlowTypeOK, NEW s \in SeqNo, NEW inc \in BOOLEAN,
         slots' = AcknowledgeThrough(s, inc)
  PROVE  /\ KeepsPackets
         /\ \A i \in Slot : Pending(i)' <=> Pending(i) /\ ~CoveredBy(i, s, inc)
  <1> SUFFICES ASSUME NEW i \in Slot
               PROVE  /\ slots'[i].occupied = slots[i].occupied
                      /\ slots'[i].sequence = slots[i].sequence
                      /\ slots'[i].sendOrder = slots[i].sendOrder
                      /\ Pending(i)' <=> Pending(i) /\ ~CoveredBy(i, s, inc)
    BY DEF KeepsPackets
  <1>1. slots'[i] = IF CoveredBy(i, s, inc)
                    THEN [slots[i] EXCEPT !.acknowledged = TRUE] ELSE slots[i]
    BY DEF AcknowledgeThrough
  <1>2. CASE CoveredBy(i, s, inc)
    BY <1>1, <1>2, SlotFieldTypes DEF Pending, SlotRecord
  <1>3. CASE ~CoveredBy(i, s, inc)
    BY <1>1, <1>3, SlotFieldTypes DEF Pending
  <1> QED
    BY <1>2, <1>3 DEF CoveredBy

\* An o line that names an answerable packet keeps FlowIInv, and acknowledges exactly the
\* packets up to the one it names.
LEMMA AckStep ==
  ASSUME FlowIInv, NEW s \in SeqNo, NEW free \in 0 .. MaxFree,
         Answerable(s), HandleAck(s, free)
  PROVE  /\ FlowIInv' /\ KeepsPackets
         /\ (\E i \in Slot : FindsSlot(i, s)) => AcksFromAge(Age(s))
         /\ (\E i \in Slot : FindsSlot(i, s)) \/ slots' = slots
  <1>0. FlowTypeOK /\ FlowTypeOK'
    BY SyncStepType DEF FlowIInv, SyncStep
  <1>1. CASE \E i \in Slot : FindsSlot(i, s)
    <2>1. slots' = AcknowledgeThrough(s, TRUE)
      BY <1>1 DEF HandleAck
    <2>2. Age(s) <= Modulo - Window + 1
      BY <1>1 DEF Answerable, FindsSlot
    <2>3. \A i \in Slot : Pending(i) =>
            (CoveredBy(i, s, TRUE) <=> Age(slots[i].sequence) >= Age(s))
      BY <1>0, <2>2, CoverageByAge, SlotFieldTypes DEF FlowIInv, WindowInv, CoveredBy
    <2>4. Age(s) \in Int /\ \A i \in Slot : Age(slots[i].sequence) \in Int
      BY <1>0, AgeRange, SlotFieldTypes
    <2>5. AcksFromAge(Age(s))
      <3> SUFFICES ASSUME NEW i \in Slot
                   PROVE  Pending(i)' <=> Pending(i) /\ Age(slots[i].sequence) < Age(s)
        BY DEF AcksFromAge
      <3>1. Pending(i)' <=> Pending(i) /\ ~CoveredBy(i, s, TRUE)
        BY <1>0, <2>1, CoveredKeepsPackets
      <3>2. Age(slots[i].sequence) >= Age(s) <=> ~(Age(slots[i].sequence) < Age(s))
        BY <2>4
      <3> QED
        BY <2>3, <3>1, <3>2 DEF CoveredBy, Pending
    <2> QED
      BY <1>0, <1>1, <2>1, <2>4, <2>5, CoveredKeepsPackets, AckKeepsInv DEF HandleAck
  <1>2. CASE ~\E i \in Slot : FindsSlot(i, s)
    <2>1. slots' = slots
      BY <1>2 DEF HandleAck
    <2>2. KeepsPackets
      BY <2>1 DEF KeepsPackets
    <2>3. AcksFromAge(Modulo + 1)
      BY <1>0, <2>1, AgeRange, SlotFieldTypes, FlowAssumption DEF AcksFromAge, Pending
    <2> QED
      BY <1>0, <1>2, <2>1, <2>2, <2>3, AckKeepsInv, FlowAssumption DEF HandleAck
  <1> QED
    BY <1>1, <1>2

\* An r line keeps FlowIInv, whatever number it names, and when it makes the host resend
\* it acknowledges exactly the packets before the one it names.
LEMMA RejectStep ==
  ASSUME FlowIInv, NEW s \in SeqNo, NEW free \in 0 .. MaxFree,
         HandleReject(s, free)
  PROVE  /\ FlowIInv' /\ KeepsPackets
         /\ RejectTriggersResend(s) => AcksFromAge(Age(s) + 1)
         /\ RejectTriggersResend(s) \/ slots' = slots
  <1>0. FlowTypeOK /\ FlowTypeOK'
    BY SyncStepType DEF FlowIInv, SyncStep
  <1>1. CASE RejectTriggersResend(s)
    <2> DEFINE T == AcknowledgeThrough(s, FALSE)
    <2>1. PICK n \in Slot : /\ FindsPendingSlot(n, s)
                            /\ slots' = CountAttempt(T, n)
      BY <1>1 DEF HandleReject
    <2>2. Pending(n) /\ slots[n].sequence = s
      BY <2>1 DEF FindsPendingSlot, FindsSlot, Occupied, Pending
    <2>3. Age(s) <= Modulo - Window + 1
      BY <1>0, <2>2, AgeRange, FlowAssumption DEF FlowIInv, WindowInv
    <2>4. \A i \in Slot : Pending(i) =>
            (CoveredBy(i, s, FALSE) <=> Age(slots[i].sequence) > Age(s))
      BY <1>0, <2>3, CoverageByAge, SlotFieldTypes DEF FlowIInv, WindowInv, CoveredBy
    <2>5. Age(s) \in Int /\ \A i \in Slot : Age(slots[i].sequence) \in Int
      BY <1>0, AgeRange, SlotFieldTypes
    <2>6. T \in [Slot -> SlotRecord]
      BY <1>0, AcknowledgeThroughType
    <2>7. \A i \in Slot : /\ slots'[i].occupied = T[i].occupied
                          /\ slots'[i].acknowledged = T[i].acknowledged
                          /\ slots'[i].sequence = T[i].sequence
                          /\ slots'[i].sendOrder = T[i].sendOrder
      BY <2>1, <2>6 DEF CountAttempt, SlotRecord
    <2>8. \A i \in Slot :
            T[i] = IF CoveredBy(i, s, FALSE)
                   THEN [slots[i] EXCEPT !.acknowledged = TRUE] ELSE slots[i]
      BY DEF AcknowledgeThrough
    <2>9. KeepsPackets
      <3> SUFFICES ASSUME NEW i \in Slot
                   PROVE  /\ slots'[i].occupied = slots[i].occupied
                          /\ slots'[i].sequence = slots[i].sequence
                          /\ slots'[i].sendOrder = slots[i].sendOrder
        BY DEF KeepsPackets
      <3> HIDE DEF T
      <3> QED
        BY <1>0, <2>7, <2>8, SlotFieldTypes DEF SlotRecord
    <2>10. \A i \in Slot : Pending(i)' <=> Pending(i) /\ ~CoveredBy(i, s, FALSE)
      <3> SUFFICES ASSUME NEW i \in Slot
                   PROVE  Pending(i)' <=> Pending(i) /\ ~CoveredBy(i, s, FALSE)
        OBVIOUS
      <3> HIDE DEF T
      <3>1. CASE CoveredBy(i, s, FALSE)
        BY <3>1, <1>0, <2>7, <2>8, SlotFieldTypes DEF SlotRecord, Pending
      <3>2. CASE ~CoveredBy(i, s, FALSE)
        BY <3>2, <1>0, <2>7, <2>8, SlotFieldTypes DEF SlotRecord, Pending
      <3> QED
        BY <3>1, <3>2 DEF CoveredBy
    <2>11. AcksFromAge(Age(s) + 1)
      <3> SUFFICES ASSUME NEW i \in Slot
                   PROVE  Pending(i)' <=> Pending(i) /\ Age(slots[i].sequence) < Age(s) + 1
        BY DEF AcksFromAge
      <3>1. Age(slots[i].sequence) > Age(s) <=> ~(Age(slots[i].sequence) < Age(s) + 1)
        BY <2>5
      <3> QED
        BY <2>4, <2>10, <3>1 DEF CoveredBy, Pending
    <2> QED
      BY <1>0, <1>1, <2>5, <2>9, <2>11, AckKeepsInv DEF HandleReject
  <1>2. CASE ~RejectTriggersResend(s)
    <2>1. slots' = slots
      BY <1>2 DEF HandleReject
    <2>2. KeepsPackets
      BY <2>1 DEF KeepsPackets
    <2>3. AcksFromAge(Modulo + 1)
      BY <1>0, <2>1, AgeRange, SlotFieldTypes, FlowAssumption DEF AcksFromAge, Pending
    <2> QED
      BY <1>0, <1>2, <2>1, <2>2, <2>3, AckKeepsInv, FlowAssumption DEF HandleReject
  <1> QED
    BY <1>1, <1>2 DEF RejectTriggersResend

\* A step that leaves the slots and the numbers alone.
LEMMA SpaceStep ==
  ASSUME FlowIInv, FlowTypeOK', UNCHANGED <<slots, nextSequence, sentCount>>
  PROVE  FlowIInv'
  <1>1. KeepsPackets
    BY DEF KeepsPackets
  <1>2. AcksFromAge(Modulo + 1)
    BY AgeRange, SlotFieldTypes, FlowAssumption DEF FlowIInv, AcksFromAge, Pending
  <1> QED
    BY <1>1, <1>2, AckKeepsInv, FlowAssumption

\* ClearInflight and ResyncToExpected empty the array.
LEMMA EmptyArray ==
  ASSUME FlowTypeOK, slots = [i \in Slot |-> EmptySlot]
  PROVE  FlowIInv
  <1>1. \A i \in Slot : ~Occupied(i) /\ ~Pending(i)
    BY DEF Occupied, Pending, EmptySlot
  <1> QED
    BY <1>1 DEF FlowIInv, LookupSound, ResendRunUnbroken, OrderInv, WindowInv, FillInv

----------------------------------------------------------------------------
(* Sending a packet. *)

\* The pending packets sit in different slots and are the last ones sent, so
\* while some slot is not pending the oldest of them is younger than Window.
LEMMA RoomInWindow ==
  ASSUME FlowIInv, NEW f \in Slot, ~Pending(f), NEW i \in Slot, Pending(i)
  PROVE  Age(slots[i].sequence) < Window
  <1>0. FlowTypeOK
    BY DEF FlowIInv
  <1> DEFINE o == slots[i].sendOrder
             K == o .. sentCount - 1
             T == Slot \ {f}
             g == [k \in K |-> CHOOSE j \in Slot : Pending(j) /\ slots[j].sendOrder = k]
  <1>1. o \in Nat /\ sentCount \in Nat /\ o < sentCount
    BY <1>0, SlotFieldTypes DEF FlowIInv, OrderInv, Pending, Occupied, FlowTypeOK
  <1>2. Age(slots[i].sequence) = sentCount - o
    BY DEF FlowIInv, ResendRunUnbroken
  <1>3. \A k \in K : g[k] \in Slot /\ Pending(g[k]) /\ slots[g[k]].sendOrder = k
    <2> SUFFICES ASSUME NEW k \in K
                 PROVE  g[k] \in Slot /\ Pending(g[k]) /\ slots[g[k]].sendOrder = k
      OBVIOUS
    <2>1. \E j \in Slot : Pending(j) /\ slots[j].sendOrder = k
      BY DEF FlowIInv, ResendRunUnbroken
    <2> QED
      BY <2>1
  <1>4. g \in [K -> T]
    <2>1. \A k \in K : g[k] \in T
      <3> HIDE DEF g, K
      <3> QED
        BY <1>3
    <2> QED
      BY <2>1
  <1>5. \A x, y \in K : g[x] = g[y] => x = y
    BY <1>3
  <1>6. IsFiniteSet(K) /\ Cardinality(K) = sentCount - o
    <2>1. o \in Int /\ sentCount - 1 \in Int /\ ~(o > sentCount - 1)
      BY <1>1
    <2>2. /\ IsFiniteSet(K)
          /\ Cardinality(K) = IF o > sentCount - 1 THEN 0 ELSE (sentCount - 1) - o + 1
      <3> HIDE DEF o
      <3> QED
        BY <2>1, FS_Interval
    <2>3. (sentCount - 1) - o + 1 = sentCount - o
      BY <1>1
    <2> QED
      BY <2>1, <2>2, <2>3
  <1>7. IsFiniteSet(Slot) /\ Cardinality(Slot) = Window
    BY FS_Interval, FlowAssumption DEF Slot
  <1>8. IsFiniteSet(T) /\ Cardinality(T) = Window - 1
    BY <1>7, FS_RemoveElement
  <1>9. ~(Cardinality(T) < Cardinality(K))
    <2> HIDE DEF g, K, T
    <2> QED
      BY <1>4, <1>5, <1>6, <1>8, FS_PigeonHole
  <1> QED
    BY <1>1, <1>2, <1>6, <1>8, <1>9, FlowAssumption

\* deneb_flow_prepare_packet keeps FlowIInv: the slot it reuses held no packet a
\* lookup may still need.
LEMMA SendStep ==
  ASSUME FlowIInv, NEW c \in Command, PreparePacket(c)
  PROVE  FlowIInv'
  <1>0. FlowTypeOK /\ FlowTypeOK'
    BY SyncStepType DEF FlowIInv, SyncStep
  <1> DEFINE new == [occupied |-> TRUE, acknowledged |-> FALSE,
                     barrier |-> c \in Barrier, sequence |-> nextSequence,
                     command |-> c, sendOrder |-> sentCount, resendAttempts |-> 0]
  <1>1. PICK f \in Slot : IsFirstFreeSlot(f) /\ slots' = [slots EXCEPT ![f] = new]
    BY DEF PreparePacket
  <1>2. sentCount' = sentCount + 1 /\ nextSequence' = Successor(nextSequence)
    BY DEF PreparePacket
  <1>3. slots'[f] = new /\ \A j \in Slot : j # f => slots'[j] = slots[j]
    BY <1>0, <1>1 DEF FlowTypeOK
  <1>4. /\ Pending(f)' /\ Occupied(f)' /\ slots'[f].sequence = nextSequence
        /\ slots'[f].sendOrder = sentCount
        /\ \A j \in Slot : j # f => /\ Pending(j)' <=> Pending(j)
                                    /\ Occupied(j)' <=> Occupied(j)
                                    /\ slots'[j].sequence = slots[j].sequence
                                    /\ slots'[j].sendOrder = slots[j].sendOrder
    BY <1>3 DEF Pending, Occupied
  <1>5. ~Pending(f)
    BY <1>0, <1>1, SlotFieldTypes DEF IsFirstFreeSlot, FreeSlots, Pending, Occupied
  <1>6. \A j \in Slot : Pending(j) => Age(slots[j].sequence) < Window
    BY <1>5, RoomInWindow
  <1>7. /\ \A s \in SeqNo : Age(s) \in 1 .. Modulo
        /\ \A s \in SeqNo :
             AgeFrom(nextSequence', s) = IF Age(s) = Modulo THEN 1 ELSE Age(s) + 1
        /\ Age(nextSequence) = Modulo /\ nextSequence \in SeqNo
    BY <1>0, <1>2, AgeRange, AgeAfterSend, AgeOfNext DEF FlowTypeOK
  <1>8. \A j \in Slot : Pending(j) =>
          /\ slots[j].sequence # nextSequence
          /\ AgeFrom(nextSequence', slots[j].sequence) = Age(slots[j].sequence) + 1
    <2> SUFFICES ASSUME NEW j \in Slot, Pending(j)
                 PROVE  /\ slots[j].sequence # nextSequence
                        /\ AgeFrom(nextSequence', slots[j].sequence)
                             = Age(slots[j].sequence) + 1
      OBVIOUS
    <2>1. slots[j].sequence \in SeqNo
      BY <1>0, SlotFieldTypes
    <2>2. Age(slots[j].sequence) \in 1 .. Modulo /\ Age(slots[j].sequence) < Modulo
      BY <1>6, <1>7, <2>1, FlowAssumption
    <2> QED
      BY <1>7, <2>1, <2>2, FlowAssumption
  <1>9. AgeFrom(nextSequence', nextSequence) = 1
    BY <1>7
  <1>10. \A j \in Slot : Occupied(j) /\ j < f => slots[j].sequence # nextSequence
    <2>1. CASE Occupied(f)
      <3>1. \A j \in Slot : Occupied(j)
        BY <1>1, <2>1 DEF IsFirstFreeSlot, FreeSlots
      <3>2. \A j \in Slot : j < f => Pending(j)
        BY <1>1, <3>1 DEF IsFirstFreeSlot, FreeSlots, Pending, Occupied, Slot
      <3> QED
        BY <1>8, <3>2
    <2>2. CASE ~Occupied(f)
      <3>1. \A j \in Slot : j < f => Occupied(j)
        BY <1>1, <2>2 DEF IsFirstFreeSlot, FreeSlots, Slot
      <3>2. \A j \in Slot : Occupied(j) => Age(slots[j].sequence) = f - j
        BY <2>2, <3>1 DEF FlowIInv, FillInv
      <3>3. \A j \in Slot : j < f => f - j < Modulo
        BY FlowAssumption DEF Slot
      <3> QED
        BY <1>7, <3>2, <3>3, FlowAssumption DEF Slot
    <2> QED
      BY <2>1, <2>2 DEF Occupied
  <1>11. OrderInv'
    <2>1. \A j \in Slot : Occupied(j) => slots[j].sendOrder < sentCount
      BY DEF FlowIInv, OrderInv
    <2>2. \A j \in Slot : slots[j].sendOrder \in Nat
      BY <1>0, SlotFieldTypes
    <2>3. \A i \in Slot : Occupied(i)' => slots'[i].sendOrder < sentCount'
      BY <1>0, <1>2, <1>4, <2>1, <2>2 DEF FlowTypeOK
    <2>4. \A i, j \in Slot : Occupied(i)' /\ Occupied(j)' /\ i # j
                               => slots'[i].sendOrder # slots'[j].sendOrder
      <3> SUFFICES ASSUME NEW i \in Slot, NEW j \in Slot, Occupied(i)', Occupied(j)', i # j
                   PROVE  slots'[i].sendOrder # slots'[j].sendOrder
        OBVIOUS
      <3>1. CASE i = f
        BY <1>0, <1>4, <2>1, <2>2, <3>1 DEF FlowTypeOK
      <3>2. CASE j = f
        BY <1>0, <1>4, <2>1, <2>2, <3>2 DEF FlowTypeOK
      <3>3. CASE i # f /\ j # f
        BY <1>4, <3>3 DEF FlowIInv, OrderInv
      <3> QED
        BY <3>1, <3>2, <3>3
    <2> QED
      BY <2>3, <2>4 DEF OrderInv
  <1>12. WindowInv'
    <2> SUFFICES ASSUME NEW i \in Slot, Pending(i)'
                 PROVE  AgeFrom(nextSequence', slots'[i].sequence) <= Window
      BY DEF WindowInv, Age
    <2>1. CASE i = f
      BY <1>4, <1>9, <2>1, FlowAssumption
    <2>2. CASE i # f
      <3>1. Pending(i) /\ slots'[i].sequence = slots[i].sequence
        BY <1>4, <2>2
      <3>2. Age(slots[i].sequence) \in Int
        BY <1>0, <1>7, SlotFieldTypes
      <3> QED
        BY <1>6, <1>8, <3>1, <3>2, FlowAssumption
    <2> QED
      BY <2>1, <2>2
  <1>13. LookupSound'
    <2> SUFFICES ASSUME NEW i \in Slot, Pending(i)', NEW j \in Slot, j < i, Occupied(j)'
                 PROVE  slots'[j].sequence # slots'[i].sequence
      BY DEF LookupSound, FindsSlot, Pending, Occupied
    <2>1. CASE i = f
      <3>1. j # f
        BY <2>1 DEF Slot
      <3> QED
        BY <1>4, <1>10, <2>1, <3>1
    <2>2. CASE i # f /\ j = f
      BY <1>4, <1>8, <2>2
    <2>3. CASE i # f /\ j # f
      BY <1>4, <2>3 DEF FlowIInv, LookupSound, FindsSlot
    <2> QED
      BY <2>1, <2>2, <2>3
  <1>14. ResendRunUnbroken'
    <2> SUFFICES ASSUME NEW i \in Slot, Pending(i)'
                 PROVE  /\ AgeFrom(nextSequence', slots'[i].sequence)
                             = sentCount' - slots'[i].sendOrder
                        /\ \A k \in slots'[i].sendOrder .. sentCount' - 1 :
                             \E j \in Slot : Pending(j)' /\ slots'[j].sendOrder = k
      BY DEF ResendRunUnbroken, Age
    <2>1. sentCount \in Nat /\ slots[i].sendOrder \in Nat
      BY <1>0, SlotFieldTypes DEF FlowTypeOK
    <2>2. CASE i = f
      <3>1. AgeFrom(nextSequence', slots'[i].sequence) = sentCount' - slots'[i].sendOrder
        BY <1>2, <1>4, <1>9, <2>1, <2>2
      <3>2. \A k \in slots'[i].sendOrder .. sentCount' - 1 : k = sentCount
        BY <1>2, <1>4, <2>1, <2>2
      <3> QED
        BY <1>4, <3>1, <3>2
    <2>3. CASE i # f
      <3>1. /\ Pending(i) /\ slots'[i].sequence = slots[i].sequence
            /\ slots'[i].sendOrder = slots[i].sendOrder
        BY <1>4, <2>3
      <3>2. Age(slots[i].sequence) = sentCount - slots[i].sendOrder
        BY <3>1 DEF FlowIInv, ResendRunUnbroken
      <3>3. AgeFrom(nextSequence', slots'[i].sequence) = sentCount' - slots'[i].sendOrder
        BY <1>2, <1>8, <2>1, <3>1, <3>2
      <3>4. ASSUME NEW k \in slots'[i].sendOrder .. sentCount' - 1
            PROVE  \E j \in Slot : Pending(j)' /\ slots'[j].sendOrder = k
        <4>1. CASE k = sentCount
          BY <1>4, <4>1
        <4>2. CASE k # sentCount
          <5>1. k \in slots[i].sendOrder .. sentCount - 1
            BY <1>2, <2>1, <3>1, <4>2
          <5>2. PICK j \in Slot : Pending(j) /\ slots[j].sendOrder = k
            BY <3>1, <5>1 DEF FlowIInv, ResendRunUnbroken
          <5>3. j # f
            BY <1>5, <5>2
          <5> QED
            BY <1>4, <5>2, <5>3
        <4> QED
          BY <4>1, <4>2
      <3> QED
        BY <3>3, <3>4
    <2> QED
      BY <2>2, <2>3
  <1>15. FillInv'
    <2> SUFFICES ASSUME NEW u \in Slot, ~Occupied(u)'
                 PROVE  /\ \A j \in Slot : j > u => ~Occupied(j)'
                        /\ \A j \in Slot :
                             Occupied(j)' /\ (\A v \in Slot : v < u => Occupied(v)')
                               => AgeFrom(nextSequence', slots'[j].sequence) = u - j
      BY DEF FillInv, Age
    <2>1. u # f /\ ~Occupied(u)
      BY <1>4
    <2>2. ~Occupied(f) /\ f < u
      BY <1>1, <2>1 DEF IsFirstFreeSlot, FreeSlots, Slot
    <2>3. \A j \in Slot : j > f => ~Occupied(j)
      BY <2>2 DEF FlowIInv, FillInv
    <2>4. \A j \in Slot : j > u => ~Occupied(j)'
      BY <1>4, <2>2, <2>3 DEF Slot
    <2>5. ASSUME NEW j \in Slot, Occupied(j)', \A v \in Slot : v < u => Occupied(v)'
          PROVE  AgeFrom(nextSequence', slots'[j].sequence) = u - j
      <3>1. u = f + 1
        <4>1. CASE u > f + 1
          <5>1. PICK w \in Slot : w = f + 1
            BY <4>1, FlowAssumption DEF Slot
          <5>2. w < u /\ w > f /\ w # f
            BY <4>1, <5>1 DEF Slot
          <5>3. Occupied(w)'
            BY <2>5, <5>2
          <5> QED
            BY <1>4, <2>3, <5>2, <5>3
        <4> QED
          BY <2>2, <4>1 DEF Slot
      <3>2. CASE j = f
        BY <1>4, <1>9, <3>1, <3>2 DEF Slot
      <3>3. CASE j # f
        <4>1. Occupied(j) /\ slots'[j].sequence = slots[j].sequence /\ j < f
          BY <1>4, <2>3, <2>5, <3>3 DEF Slot
        <4>2. \A v \in Slot : v < f => Occupied(v)
          BY <1>4, <2>2, <2>5 DEF Slot
        <4>3. Age(slots[j].sequence) = f - j
          BY <2>2, <4>1, <4>2 DEF FlowIInv, FillInv
        <4>4. f - j < Modulo
          BY <4>1, FlowAssumption DEF Slot
        <4>5. AgeFrom(nextSequence', slots[j].sequence) = f - j + 1
          BY <1>0, <1>7, <4>3, <4>4, SlotFieldTypes, FlowAssumption DEF Slot
        <4> QED
          BY <3>1, <4>1, <4>5 DEF Slot
      <3> QED
        BY <3>2, <3>3
    <2> QED
      BY <2>4, <2>5
  <1> QED
    BY <1>0, <1>11, <1>12, <1>13, <1>14, <1>15 DEF FlowIInv

\* Every step of the sync protocol keeps FlowIInv.
LEMMA SyncStepKeepsInv ==
  ASSUME FlowIInv, [SyncStep]_flowVars PROVE FlowIInv'
  <1>0. FlowTypeOK
    BY DEF FlowIInv
  <1>1. ASSUME NEW c \in Command, PreparePacket(c) PROVE FlowIInv'
    BY <1>1, SendStep
  <1>2. ASSUME NEW s \in SeqNo, NEW free \in 0 .. MaxFree, Answerable(s), HandleAck(s, free)
        PROVE  FlowIInv'
    BY <1>2, AckStep
  <1>3. ASSUME NEW s \in SeqNo, NEW free \in 0 .. MaxFree, HandleReject(s, free)
        PROVE  FlowIInv'
    BY <1>3, RejectStep
  <1>4. ASSUME NEW free \in 0 .. MaxFree, HandleSpaceReport(free) PROVE FlowIInv'
    <2>1. FlowTypeOK'
      BY <1>0, <1>4, SyncStepType DEF SyncStep
    <2> QED
      BY <1>4, <2>1, SpaceStep DEF HandleSpaceReport
  <1> DEFINE Cleared == [i \in Slot |-> EmptySlot]
  <1>a. (FlowTypeOK /\ slots = Cleared => FlowIInv)'
    BY EmptyArray, PTL
  <1>5. ASSUME ClearInflight PROVE FlowIInv'
    <2>1. FlowTypeOK'
      BY <1>0, <1>5, SyncStepType DEF SyncStep
    <2> QED
      BY <1>5, <1>a, <2>1 DEF ClearInflight
  <1>6. ASSUME NEW e \in SeqNo, ResyncToExpected(e) PROVE FlowIInv'
    <2>1. FlowTypeOK'
      BY <1>0, <1>6, SyncStepType DEF SyncStep
    <2> QED
      BY <1>6, <1>a, <2>1 DEF ResyncToExpected
  <1>7. CASE UNCHANGED flowVars
    <2>1. FlowTypeOK'
      BY <1>0, <1>7 DEF FlowTypeOK, flowVars
    <2> QED
      BY <1>7, <2>1, SpaceStep DEF flowVars
  <1> QED
    BY <1>1, <1>2, <1>3, <1>4, <1>5, <1>6, <1>7 DEF SyncStep

\* FlowIInv is an inductive invariant of the sync protocol.
LEMMA FlowInvariant == SyncSpec => []FlowIInv
  <1>1. FlowInit => FlowIInv
    BY FlowInitType, EmptyArray DEF FlowInit
  <1>2. FlowIInv /\ [SyncStep]_flowVars => FlowIInv'
    BY SyncStepKeepsInv
  <1> QED
    BY <1>1, <1>2, PTL DEF SyncSpec

\* With the Connect protocol, slot_for_sequence always finds the packet that
\* is waiting for the answer, however often the numbers have wrapped and
\* whichever stale slots are still occupied.
THEOREM LookupAlwaysSound == SyncSpec => []LookupSound
  <1>1. FlowIInv => LookupSound
    BY DEF FlowIInv
  <1> QED
    BY FlowInvariant, <1>1, PTL

\* What resend_pending replays is the unbroken tail of the packets sent.
THEOREM ResendAlwaysUnbroken == SyncSpec => []ResendRunUnbroken
  <1>1. FlowIInv => ResendRunUnbroken
    BY DEF FlowIInv
  <1> QED
    BY FlowInvariant, <1>1, PTL

----------------------------------------------------------------------------
(* The composition with the controller and the line. *)

\* How many packets ago the number s was used, 0 for the one to be used next, and the
\* send order it stands for.
DistFrom(n, s)  == IF AgeFrom(n, s) = Modulo THEN 0 ELSE AgeFrom(n, s)
Named(n, c, s)  == c - DistFrom(n, s)

\* How many packets a clear may leave unanswered.
Reach == Modulo - 2 * Window

\* The packets that are not executed, and those the answers on the line are about, are
\* among the last Reach ones.
Settled ==
  /\ sentCount - Len(executed) <= Reach
  /\ \A k \in DOMAIN toHost :
       toHost[k].kind # "q" => DistFrom(nextSequence, toHost[k].sequence) <= Reach

TimelyClears == [][HostClear => Settled]_vars

Packet   == [sequence : SeqNo, id : Nat, damaged : BOOLEAN]
Response == [kind : {"o", "r", "q", "proto"}, sequence : SeqNo, free : 0 .. MaxFree]

LinkTypeOK ==
  /\ toController \in Seq(Packet) /\ toHost \in Seq(Response)
  /\ expected \in SeqNo /\ executed \in Seq(Nat)

\* The controller rejects in the plain form.
PlainInv == ~protoErrors /\ \A k \in DOMAIN toHost : toHost[k].kind # "proto"

\* What was executed is the first packets sent, and the controller expects the next of
\* them, which is not so far behind that its number is used again.
ControllerInv ==
  /\ \A k \in DOMAIN executed : executed[k] = k - 1
  /\ Len(executed) <= sentCount
  /\ sentCount - Len(executed) <= Modulo - Window
  /\ Named(nextSequence, sentCount, expected) = Len(executed)

\* A packet on the line w carries the number of its send order, is not older than the
\* window before the next one to be executed (d), and no earlier one on the line is so much
\* younger that executing it would change that.
WireOK(w, n, c, d) ==
  \A k \in DOMAIN w :
    /\ AgeFrom(n, w[k].sequence) = c - w[k].id
    /\ d <= w[k].id + Window
    /\ \A j \in DOMAIN w : j < k => w[j].id < w[k].id + Window

\* The answers on the line q are about packets up to d, in their order, and none about one
\* more than Reach before the oldest that waits (a).
AnswersOK(q, n, c, d, a) ==
  \A k \in DOMAIN q : q[k].kind # "q" =>
    /\ a <= Named(n, c, q[k].sequence) + Reach
    /\ Named(n, c, q[k].sequence) <= d
    /\ q[k].kind = "o" => Named(n, c, q[k].sequence) < d
    /\ \A l \in DOMAIN q : l > k /\ q[l].kind # "q" =>
         /\ Named(n, c, q[k].sequence) <= Named(n, c, q[l].sequence)
         /\ q[k].kind = "o" => Named(n, c, q[k].sequence) < Named(n, c, q[l].sequence)

\* a is the oldest packet that waits for its answer.
FrontOK(a) ==
  /\ a = sentCount \/ \E i \in Slot : Pending(i) /\ slots[i].sendOrder = a
  /\ \A i \in Slot : Pending(i) => slots[i].sendOrder >= a
  /\ a <= Len(executed) + Reach

AckedInv ==
  \A i \in Slot : slots[i].occupied /\ slots[i].acknowledged
                    => slots[i].sendOrder < Len(executed)

LineInv ==
  /\ WireOK(toController, nextSequence, sentCount, Len(executed))
  /\ \E a \in Nat : FrontOK(a) /\ AnswersOK(toHost, nextSequence, sentCount, Len(executed), a)

LinkInv == FlowIInv /\ LinkTypeOK /\ PlainInv /\ ControllerInv /\ AckedInv /\ LineInv

----------------------------------------------------------------------------
(* Numbers. *)

\* The window leaves Reach numbers between its two halves.
LEMMA Constants ==
  /\ Window \in Int /\ Modulo \in Int /\ Reach \in Int /\ Window > 0 /\ Reach >= 0
  /\ Reach + 2 * Window = Modulo
BY FlowAssumption DEF Reach

\* Ages, distances and the packets they name are integers in their ranges.
LEMMA NamedType ==
  ASSUME NEW n \in SeqNo, NEW c \in Int, NEW s \in SeqNo
  PROVE  /\ AgeFrom(n, s) \in 1 .. Modulo /\ DistFrom(n, s) \in 0 .. Modulo - 1
         /\ Named(n, c, s) \in Int /\ Named(n, c, s) = c - DistFrom(n, s)
BY FlowAssumption DEF AgeFrom, DistFrom, Named, SeqNo

\* Sending does not change what a number stands for, unless it is used again.
LEMMA NamedAfterSend ==
  ASSUME NEW n \in SeqNo, NEW c \in Int, NEW s \in SeqNo, c - Named(n, c, s) < Modulo - 1
  PROVE  Named(Successor(n), c + 1, s) = Named(n, c, s)
BY FlowAssumption DEF AgeFrom, DistFrom, Named, SeqNo, Successor

\* A number that is not used again is one packet older after a send.
LEMMA AgeFromAfterSend ==
  ASSUME NEW n \in SeqNo, NEW s \in SeqNo, AgeFrom(n, s) < Modulo
  PROVE  AgeFrom(Successor(n), s) = AgeFrom(n, s) + 1
BY FlowAssumption DEF AgeFrom, SeqNo, Successor

\* The next number names the next packet.
LEMMA NamedSuccessor ==
  ASSUME NEW n \in SeqNo, NEW c \in Int, NEW s \in SeqNo, Named(n, c, s) < c
  PROVE  Named(n, c, Successor(s)) = Named(n, c, s) + 1
BY FlowAssumption DEF AgeFrom, DistFrom, Named, SeqNo, Successor

\* The number just used is one packet old.
LEMMA NextAge ==
  ASSUME NEW n \in SeqNo PROVE AgeFrom(Successor(n), n) = 1
BY FlowAssumption DEF AgeFrom, SeqNo, Successor

----------------------------------------------------------------------------
(* Answers. *)

\* An answer on the line names a packet.
LEMMA AnswerType ==
  ASSUME NEW q \in Seq(Response), NEW n \in SeqNo, NEW c \in Int, NEW k \in DOMAIN q
  PROVE  /\ q[k] \in Response /\ q[k].sequence \in SeqNo
         /\ Named(n, c, q[k].sequence) \in Int
<1>1. q[k] \in Response
  OBVIOUS
<1> QED
  BY <1>1, NamedType DEF Response

\* Reading the first answer keeps the others, and the oldest that waits may move past the
\* packet it is about.
LEMMA AnswersRead ==
  ASSUME NEW q \in Seq(Response), q # <<>>, NEW n \in SeqNo, NEW c \in Int, NEW d \in Int,
         NEW a \in Int, AnswersOK(q, n, c, d, a), NEW b \in Int,
         \/ b <= a
         \/ Head(q).kind # "q" /\ b <= Named(n, c, Head(q).sequence)
         \/ Head(q).kind = "o" /\ b <= Named(n, c, Head(q).sequence) + 1
  PROVE  Tail(q) \in Seq(Response) /\ AnswersOK(Tail(q), n, c, d, b)
<1>1. /\ Tail(q) \in Seq(Response) /\ Head(q) = q[1] /\ 1 \in DOMAIN q
      /\ \A k \in DOMAIN Tail(q) : k + 1 \in DOMAIN q /\ Tail(q)[k] = q[k + 1] /\ k + 1 > 1
  OBVIOUS
<1>2. \A k, l \in DOMAIN Tail(q) : l > k => l + 1 > k + 1
  OBVIOUS
<1>3. \A k \in DOMAIN q : Named(n, c, q[k].sequence) \in Int
  BY AnswerType
<1>4. Reach \in Int /\ Reach >= 0
  BY Constants
<1>5. \A k \in DOMAIN Tail(q) : Tail(q)[k].kind # "q" => b <= Named(n, c, Tail(q)[k].sequence) + Reach
  BY <1>1, <1>3, <1>4 DEF AnswersOK
<1> QED
  BY <1>1, <1>2, <1>5 DEF AnswersOK

\* The controller answers about the packet it expects, and may have executed it.
LEMMA AnswersAdd ==
  ASSUME NEW q \in Seq(Response), NEW n \in SeqNo, NEW c \in Int, NEW d \in Int,
         NEW a \in Int, AnswersOK(q, n, c, d, a), NEW m \in Response, NEW e \in {d, d + 1},
         m.kind # "q" => Named(n, c, m.sequence) = d /\ a <= d + Reach,
         m.kind = "o" => e = d + 1
  PROVE  Append(q, m) \in Seq(Response) /\ AnswersOK(Append(q, m), n, c, e, a)
<1> DEFINE r == Append(q, m)
<1>1. /\ r \in Seq(Response)
      /\ \A k \in DOMAIN r : (k \in DOMAIN q /\ r[k] = q[k]) \/ (k = Len(q) + 1 /\ r[k] = m)
      /\ \A k \in DOMAIN r, l \in DOMAIN r : l > k => k \in DOMAIN q
  OBVIOUS
<1>2. \A k \in DOMAIN q : Named(n, c, q[k].sequence) \in Int
  BY AnswerType
<1> HIDE DEF r
<1>3. \A k \in DOMAIN r : r[k].kind # "q" =>
        /\ a <= Named(n, c, r[k].sequence) + Reach
        /\ Named(n, c, r[k].sequence) <= e
        /\ r[k].kind = "o" => Named(n, c, r[k].sequence) < e
  BY <1>1, <1>2 DEF AnswersOK
<1>4. \A k \in DOMAIN r, l \in DOMAIN r : l > k /\ r[k].kind # "q" /\ r[l].kind # "q" =>
         /\ Named(n, c, r[k].sequence) <= Named(n, c, r[l].sequence)
         /\ r[k].kind = "o" => Named(n, c, r[k].sequence) < Named(n, c, r[l].sequence)
  BY <1>1, <1>2 DEF AnswersOK
<1>5. AnswersOK(r, n, c, e, a)
  BY <1>3, <1>4 DEF AnswersOK
<1> QED
  BY <1>1, <1>5 DEF r

\* One answer is lost.
LEMMA AnswersLose ==
  ASSUME NEW q \in Seq(Response), NEW n \in SeqNo, NEW c \in Int, NEW d \in Int,
         NEW a \in Int, AnswersOK(q, n, c, d, a), NEW x \in DOMAIN q
  PROVE  /\ RemoveAt(q, x) \in Seq(Response) /\ AnswersOK(RemoveAt(q, x), n, c, d, a)
         /\ \A k \in DOMAIN RemoveAt(q, x) : \E l \in DOMAIN q : RemoveAt(q, x)[k] = q[l]
<1> DEFINE r == RemoveAt(q, x)
           old(k) == IF k < x THEN k ELSE k + 1
<1>1. /\ r \in Seq(Response)
      /\ \A k \in DOMAIN r : old(k) \in DOMAIN q /\ r[k] = q[old(k)]
  <2> DEFINE front == SubSeq(q, 1, x - 1)
             back  == SubSeq(q, x + 1, Len(q))
  <2>1. x \in 1 .. Len(q) /\ Len(q) \in Nat
    OBVIOUS
  <2>2. /\ front \in Seq(Response) /\ Len(front) = x - 1
        /\ \A k \in 1 .. x - 1 : front[k] = q[k]
    BY <2>1
  <2>3. /\ back \in Seq(Response) /\ Len(back) = Len(q) - x
        /\ \A k \in 1 .. Len(q) - x : back[k] = q[x + k]
    BY <2>1
  <2>4. r = front \o back
    BY DEF RemoveAt
  <2> HIDE DEF front, back, r
  <2>5. /\ r \in Seq(Response) /\ Len(r) = Len(q) - 1
        /\ \A k \in 1 .. Len(r) : r[k] = IF k < x THEN front[k] ELSE back[k - (x - 1)]
    <3>1. /\ r \in Seq(Response) /\ Len(r) = Len(front) + Len(back)
          /\ \A k \in 1 .. Len(front) + Len(back) :
               r[k] = IF k <= Len(front) THEN front[k] ELSE back[k - Len(front)]
      BY <2>2, <2>3, <2>4, ConcatProperties
    <3>2. \A k \in Nat : k <= x - 1 <=> k < x
      BY <2>1
    <3>3. Len(front) + Len(back) = Len(q) - 1
      BY <2>1, <2>2, <2>3
    <3>4. \A k \in 1 .. Len(q) - 1 : k \in Nat
      BY <2>1
    <3> QED
      BY <2>2, <3>1, <3>2, <3>3, <3>4
  <2>6. ASSUME NEW k \in 1 .. Len(r)
        PROVE  old(k) \in 1 .. Len(q) /\ r[k] = q[old(k)]
    <3>1. CASE k < x
      BY <2>1, <2>2, <2>5, <3>1
    <3>2. CASE ~(k < x)
      <4>1. /\ k - (x - 1) \in 1 .. Len(q) - x /\ x + (k - (x - 1)) = k + 1
            /\ k + 1 \in 1 .. Len(q)
        BY <2>1, <2>5, <3>2
      <4>2. r[k] = back[k - (x - 1)]
        BY <2>5, <3>2
      <4> QED
        BY <2>3, <3>2, <4>1, <4>2
    <3> QED
      BY <3>1, <3>2
  <2>7. DOMAIN r = 1 .. Len(r) /\ DOMAIN q = 1 .. Len(q)
    BY <2>5
  <2> QED
    BY <2>5, <2>6, <2>7
<1>2. \A k, l \in DOMAIN r : l > k => old(l) > old(k)
  BY <1>1
<1> HIDE DEF r, old
<1>3. AnswersOK(r, n, c, d, a)
  BY <1>1, <1>2 DEF AnswersOK
<1> QED
  BY <1>1, <1>3 DEF r

\* A packet is sent.
LEMMA AnswersSent ==
  ASSUME NEW q \in Seq(Response), NEW n \in SeqNo, NEW c \in Int, NEW d \in Int,
         NEW a \in Int, AnswersOK(q, n, c, d, a), c + 1 <= a + Window
  PROVE  AnswersOK(q, Successor(n), c + 1, d, a)
<1>1. \A k \in DOMAIN q : q[k].kind # "q" =>
        Named(Successor(n), c + 1, q[k].sequence) = Named(n, c, q[k].sequence)
  <2> SUFFICES ASSUME NEW k \in DOMAIN q, q[k].kind # "q"
               PROVE  Named(Successor(n), c + 1, q[k].sequence) = Named(n, c, q[k].sequence)
    OBVIOUS
  <2>1. q[k].sequence \in SeqNo /\ Named(n, c, q[k].sequence) \in Int
    BY AnswerType
  <2>2. a <= Named(n, c, q[k].sequence) + Reach
    BY DEF AnswersOK
  <2>3. c - Named(n, c, q[k].sequence) < Modulo - 1
    BY <2>1, <2>2, Constants
  <2> QED
    BY <2>1, <2>3, NamedAfterSend
<1> QED
  BY <1>1 DEF AnswersOK

----------------------------------------------------------------------------
(* Packets. *)

\* A packet on the line has a number and a send order.
LEMMA PacketType ==
  ASSUME NEW w \in Seq(Packet), NEW k \in DOMAIN w
  PROVE  w[k] \in Packet /\ w[k].sequence \in SeqNo /\ w[k].id \in Nat
<1>1. w[k] \in Packet
  OBVIOUS
<1> QED
  BY <1>1 DEF Packet

\* The first packet leaves the line, executed or not.
LEMMA WireTaken ==
  ASSUME NEW w \in Seq(Packet), w # <<>>, NEW n \in SeqNo, NEW c \in Int, NEW d \in Int,
         WireOK(w, n, c, d), NEW e \in Int, e = d \/ (Head(w).id = d /\ e = d + 1)
  PROVE  Tail(w) \in Seq(Packet) /\ WireOK(Tail(w), n, c, e)
<1>1. /\ Tail(w) \in Seq(Packet) /\ Head(w) = w[1] /\ 1 \in DOMAIN w
      /\ \A k \in DOMAIN Tail(w) : k + 1 \in DOMAIN w /\ Tail(w)[k] = w[k + 1] /\ 1 < k + 1
  OBVIOUS
<1>2. \A k, l \in DOMAIN Tail(w) : l > k => l + 1 > k + 1
  OBVIOUS
<1>3. \A k \in DOMAIN w : w[k].id \in Nat
  BY PacketType
<1>4. \A k \in DOMAIN Tail(w) : e <= Tail(w)[k].id + Window
  BY <1>1, <1>3, Constants DEF WireOK
<1> QED
  BY <1>1, <1>2, <1>4 DEF WireOK

\* Packets of the window are put behind the others.
LEMMA WirePut ==
  ASSUME NEW w \in Seq(Packet), NEW n \in SeqNo, NEW c \in Int, NEW d \in Int,
         WireOK(w, n, c, d), d <= c, NEW r \in Seq(Packet),
         \A k \in DOMAIN r : AgeFrom(n, r[k].sequence) = c - r[k].id
                             /\ c - r[k].id <= Window
  PROVE  w \o r \in Seq(Packet) /\ WireOK(w \o r, n, c, d)
<1> DEFINE z == w \o r
<1>1. /\ z \in Seq(Packet)
      /\ \A k \in DOMAIN z : \/ k \in DOMAIN w /\ z[k] = w[k]
                             \/ k - Len(w) \in DOMAIN r /\ z[k] = r[k - Len(w)]
      /\ \A j, k \in DOMAIN z : j < k /\ k \in DOMAIN w => j \in DOMAIN w
      /\ \A k \in DOMAIN z : k \in DOMAIN w => ~(k - Len(w) \in DOMAIN r)
  OBVIOUS
<1> HIDE DEF z
<1>2. \A k \in DOMAIN z : z[k].id \in Nat /\ z[k].sequence \in SeqNo
  BY <1>1, PacketType
<1>3. \A k \in DOMAIN z : AgeFrom(n, z[k].sequence) = c - z[k].id
  BY <1>1 DEF WireOK
<1>4. ASSUME NEW k \in DOMAIN z
      PROVE  z[k].id < c
  <2>1. z[k].id \in Nat /\ z[k].sequence \in SeqNo /\ AgeFrom(n, z[k].sequence) = c - z[k].id
    BY <1>2, <1>3
  <2>2. AgeFrom(n, z[k].sequence) \in 1 .. Modulo
    BY <2>1, NamedType
  <2> QED
    BY <2>1, <2>2, Constants
<1>5. \A k \in DOMAIN z : k \notin DOMAIN w => c <= z[k].id + Window
  BY <1>1, <1>2, Constants
<1>6. \A k \in DOMAIN z : d <= z[k].id + Window
  BY <1>1, <1>2, <1>5, Constants DEF WireOK
<1>7. ASSUME NEW j \in DOMAIN z, NEW k \in DOMAIN z, j < k
      PROVE  z[j].id < z[k].id + Window
  <2>1. CASE k \in DOMAIN w
    BY <1>1, <1>7, <2>1 DEF WireOK
  <2>2. CASE k \notin DOMAIN w
    <3>1. z[j].id < c /\ c <= z[k].id + Window /\ z[j].id \in Nat /\ z[k].id \in Nat
      BY <1>2, <1>4, <1>5, <2>2
    <3> QED
      BY <3>1, Constants
  <2> QED
    BY <2>1, <2>2
<1>8. WireOK(z, n, c, d)
  BY <1>3, <1>6, <1>7 DEF WireOK
<1> QED
  BY <1>1, <1>8 DEF z

\* The numbering moves on by one packet.
LEMMA WireSent ==
  ASSUME NEW w \in Seq(Packet), NEW n \in SeqNo, NEW c \in Int, NEW d \in Int,
         WireOK(w, n, c, d), c + 1 <= d + Modulo - Window
  PROVE  WireOK(w, Successor(n), c + 1, d)
<1>1. ASSUME NEW k \in DOMAIN w
      PROVE  AgeFrom(Successor(n), w[k].sequence) = (c + 1) - w[k].id
  <2>1. w[k].id \in Nat /\ w[k].sequence \in SeqNo
    BY PacketType
  <2>2. AgeFrom(n, w[k].sequence) = c - w[k].id /\ d <= w[k].id + Window
    BY DEF WireOK
  <2>3. AgeFrom(n, w[k].sequence) < Modulo
    BY <2>1, <2>2, Constants
  <2> QED
    BY <2>1, <2>2, <2>3, AgeFromAfterSend
<1> QED
  BY <1>1 DEF WireOK

----------------------------------------------------------------------------
(* The packets that wait for their answer. *)

\* They are the last ones sent, from a on, and fewer than the window while there is room.
LEMMA FrontWindow ==
  ASSUME FlowIInv, NEW a \in Nat, FrontOK(a)
  PROVE  /\ a <= sentCount /\ sentCount <= a + Window
         /\ \A k \in a .. sentCount - 1 : \E i \in Slot : Pending(i) /\ slots[i].sendOrder = k
         /\ \A i \in Slot : Pending(i) => slots[i].sendOrder \in a .. sentCount - 1
         /\ (\E f \in Slot : ~Pending(f)) => sentCount + 1 <= a + Window
<1>0. FlowTypeOK /\ sentCount \in Nat /\ \A i \in Slot : slots[i].sendOrder \in Nat
  BY SlotFieldTypes DEF FlowIInv, FlowTypeOK
<1>1. \A i \in Slot : Pending(i) => slots[i].sendOrder < sentCount
  BY DEF FlowIInv, OrderInv, Pending, Occupied
<1>2. \A i \in Slot : Pending(i) => slots[i].sendOrder \in a .. sentCount - 1
  BY <1>0, <1>1 DEF FrontOK
<1>3. CASE a = sentCount
  BY <1>0, <1>2, <1>3, Constants
<1>4. CASE a # sentCount
  <2>1. PICK i \in Slot : Pending(i) /\ slots[i].sendOrder = a
    BY <1>4 DEF FrontOK
  <2>2. /\ Age(slots[i].sequence) = sentCount - a
        /\ \A k \in a .. sentCount - 1 : \E j \in Slot : Pending(j) /\ slots[j].sendOrder = k
    BY <2>1 DEF FlowIInv, ResendRunUnbroken
  <2>3. Age(slots[i].sequence) <= Window
    BY <2>1 DEF FlowIInv, WindowInv
  <2>4. (\E f \in Slot : ~Pending(f)) => Age(slots[i].sequence) < Window
    BY <2>1, RoomInWindow
  <2> QED
    BY <1>0, <1>1, <1>2, <2>1, <2>2, <2>3, <2>4, Constants
<1> QED
  BY <1>3, <1>4

\* Counting them up to an order.
LEMMA PendingBelow ==
  ASSUME FlowIInv, NEW a \in Nat, FrontOK(a), NEW x \in a .. sentCount
  PROVE  Cardinality({j \in Slot : Pending(j) /\ slots[j].sendOrder < x}) = x - a
<1> DEFINE S == {j \in Slot : Pending(j) /\ slots[j].sendOrder < x}
           T == a .. x - 1
           f == [j \in S |-> slots[j].sendOrder]
<1>0. sentCount \in Nat /\ x \in Int /\ a \in Int
  BY DEF FlowIInv, FlowTypeOK
<1>1. \A j \in S : f[j] \in T /\ j \in Slot /\ Pending(j) /\ f[j] = slots[j].sendOrder
  BY <1>0, FrontWindow
<1>2. \A j, k \in S : f[j] = f[k] => j = k
  BY <1>1 DEF FlowIInv, OrderInv, Pending, Occupied
<1>3. \A t \in T : \E j \in S : f[j] = t
  <2> SUFFICES ASSUME NEW t \in T PROVE \E j \in S : f[j] = t
    OBVIOUS
  <2>1. t \in a .. sentCount - 1 /\ t < x
    BY <1>0
  <2>2. PICK j \in Slot : Pending(j) /\ slots[j].sendOrder = t
    BY <2>1, FrontWindow
  <2>3. j \in S /\ f[j] = t
    BY <2>1, <2>2
  <2> QED
    BY <2>3
<1>4. f \in [S -> T]
  BY <1>1
<1> HIDE DEF f, T
<1>5. f \in Bijection(S, T)
  BY <1>2, <1>3, <1>4 DEF Bijection, Injection, Surjection, IsInjective
<1>6. IsFiniteSet(S)
  <2>1. IsFiniteSet(Slot)
    BY FS_Interval, FlowAssumption DEF Slot
  <2> QED
    BY <2>1, FS_Subset
<1>7. Cardinality(T) = Cardinality(S)
  <2> HIDE DEF S
  <2> QED
    BY <1>5, <1>6, FS_Bijection DEF ExistsBijection
<1>8. Cardinality(T) = IF a > x - 1 THEN 0 ELSE (x - 1) - a + 1
  BY <1>0, FS_Interval DEF T
<1> QED
  BY <1>0, <1>7, <1>8

\* What is replayed are packets that wait for their answer, under their own numbers.
LEMMA ReplayIsPending ==
  ASSUME FlowIInv, NEW a \in Nat, FrontOK(a)
  PROVE  /\ PendingPackets \in Seq(Packet)
         /\ \A k \in DOMAIN PendingPackets :
              /\ Age(PendingPackets[k].sequence) = sentCount - PendingPackets[k].id
              /\ sentCount - PendingPackets[k].id <= Window
<1> DEFINE P == {i \in Slot : Pending(i)}
           B(i) == {j \in P : slots[j].sendOrder < slots[i].sendOrder}
           E(k) == CHOOSE i \in P : Cardinality(B(i)) = k - 1
           F(i) == CHOOSE j \in Slot : FindsSlot(j, slots[i].sequence)
           N == Cardinality(P)
<1>0. sentCount \in Nat /\ a <= sentCount /\ \A i \in Slot : slots[i].sendOrder \in Nat
  BY FrontWindow, SlotFieldTypes DEF FlowIInv, FlowTypeOK
<1>1. N = sentCount - a
  <2>1. P = {j \in Slot : Pending(j) /\ slots[j].sendOrder < sentCount}
    BY DEF FlowIInv, OrderInv, Pending, Occupied
  <2> QED
    BY <1>0, <2>1, PendingBelow
<1>2. ASSUME NEW k \in 1 .. N
      PROVE  E(k) \in P
  <2>1. PICK i \in Slot : Pending(i) /\ slots[i].sendOrder = a + (k - 1)
    BY <1>0, <1>1, FrontWindow
  <2>2. B(i) = {j \in Slot : Pending(j) /\ slots[j].sendOrder < a + (k - 1)}
    BY <2>1
  <2>3. Cardinality(B(i)) = k - 1
    <3> HIDE DEF B
    <3>1. a + (k - 1) \in a .. sentCount /\ (a + (k - 1)) - a = k - 1
      BY <1>0, <1>1
    <3> QED
      BY <2>2, <3>1, PendingBelow
  <2>4. \E j \in P : Cardinality(B(j)) = k - 1
    BY <2>1, <2>3
  <2> HIDE DEF B
  <2> QED
    BY <2>4
<1>3. ASSUME NEW i \in P
      PROVE  F(i) = i
  <2>1. FindsSlot(i, slots[i].sequence) /\ i \in Slot
    BY DEF FlowIInv, LookupSound
  <2>2. \A j \in Slot : FindsSlot(j, slots[i].sequence) => j = i
    BY <2>1 DEF FindsSlot, Slot
  <2> QED
    BY <2>1, <2>2
<1>4. PendingPackets = [k \in 1 .. N |->
         [sequence |-> slots[E(k)].sequence, id |-> slots[F(E(k))].sendOrder,
          damaged |-> FALSE]]
  BY DEF PendingPackets
<1> HIDE DEF E, F, N
<1>5. \A k \in 1 .. N :
        [sequence |-> slots[E(k)].sequence, id |-> slots[F(E(k))].sendOrder, damaged |-> FALSE]
          = [sequence |-> slots[E(k)].sequence, id |-> slots[E(k)].sendOrder, damaged |-> FALSE]
  BY <1>2, <1>3
<1>6. /\ DOMAIN PendingPackets = 1 .. N /\ N \in Nat
      /\ \A k \in 1 .. N : PendingPackets[k] =
           [sequence |-> slots[E(k)].sequence, id |-> slots[E(k)].sendOrder, damaged |-> FALSE]
  BY <1>0, <1>1, <1>4, <1>5
<1>7. ASSUME NEW k \in 1 .. N
      PROVE  PendingPackets[k] \in Packet
  <2>1. slots[E(k)].sequence \in SeqNo /\ slots[E(k)].sendOrder \in Nat
    BY <1>2, SlotFieldTypes DEF FlowIInv
  <2> DEFINE t == slots[E(k)].sequence
             o == slots[E(k)].sendOrder
  <2>2. PendingPackets[k] = [sequence |-> t, id |-> o, damaged |-> FALSE]
    BY <1>6
  <2> HIDE DEF t, o
  <2>3. t \in SeqNo /\ o \in Nat
    BY <2>1 DEF t, o
  <2> QED
    BY <2>2, <2>3 DEF Packet
<1>8. PendingPackets \in Seq(Packet)
  BY <1>4, <1>6, <1>7, IsASeq
<1>9. ASSUME NEW i \in P
      PROVE  Age(slots[i].sequence) = sentCount - slots[i].sendOrder
             /\ sentCount - slots[i].sendOrder <= Window
  BY DEF FlowIInv, ResendRunUnbroken, WindowInv
<1> QED
  BY <1>2, <1>6, <1>8, <1>9

Waiters == \E a \in Nat : FrontOK(a)

ReplayOK ==
  /\ PendingPackets \in Seq(Packet)
  /\ \A k \in DOMAIN PendingPackets :
       /\ AgeFrom(nextSequence, PendingPackets[k].sequence) = sentCount - PendingPackets[k].id
       /\ sentCount - PendingPackets[k].id <= Window

\* A replay after a reject consists of the waiting packets, in order and with their
\* numbers.
LEMMA ReplayFits == FlowIInv /\ Waiters => ReplayOK
BY ReplayIsPending DEF Waiters, ReplayOK, Age

----------------------------------------------------------------------------
(* One lemma for every step of the composition. *)

\* The facts of a state the steps start from.
LEMMA StateFacts ==
  ASSUME LinkInv
  PROVE  /\ nextSequence \in SeqNo /\ sentCount \in Nat /\ FlowTypeOK
         /\ Len(executed) \in Nat /\ expected \in SeqNo
         /\ toController \in Seq(Packet) /\ toHost \in Seq(Response)
         /\ Len(executed) <= sentCount
BY DEF LinkInv, FlowIInv, FlowTypeOK, LinkTypeOK, ControllerInv

\* A send goes behind everything on the line, and its number names no packet that still
\* matters.
LEMMA SendInv ==
  ASSUME LinkInv, NEW c \in Command, HostSend(c)
  PROVE  LinkInv'
<1> DEFINE n == nextSequence
           s == sentCount
           d == Len(executed)
           p == [sequence |-> n, id |-> s, damaged |-> FALSE]
           new == [occupied |-> TRUE, acknowledged |-> FALSE,
                   barrier |-> c \in Barrier, sequence |-> nextSequence,
                   command |-> c, sendOrder |-> sentCount, resendAttempts |-> 0]
<1>0. /\ n \in SeqNo /\ s \in Nat /\ FlowTypeOK /\ d \in Nat /\ expected \in SeqNo
      /\ toController \in Seq(Packet) /\ toHost \in Seq(Response) /\ d <= s
  BY StateFacts
<1>1. /\ nextSequence' = Successor(n) /\ sentCount' = s + 1 /\ executed' = executed
      /\ toController' = Append(toController, p) /\ toHost' = toHost
      /\ expected' = expected /\ protoErrors' = protoErrors /\ PreparePacket(c)
  BY DEF HostSend, PreparePacket
<1>2. FlowIInv'
  BY <1>1, SendStep DEF LinkInv
<1>3. PICK f \in Slot : IsFirstFreeSlot(f) /\ slots' = [slots EXCEPT ![f] = new]
  BY <1>1 DEF PreparePacket
<1>4. /\ Pending(f)' /\ slots'[f].sendOrder = s /\ slots'[f].acknowledged = FALSE
      /\ \A j \in Slot : j # f => slots'[j] = slots[j]
  BY <1>0, <1>3 DEF FlowTypeOK, Pending
<1>5. ~Pending(f)
  BY <1>0, <1>3, SlotFieldTypes DEF IsFirstFreeSlot, FreeSlots, Pending, Occupied
<1>6. PICK a \in Nat : FrontOK(a) /\ AnswersOK(toHost, n, s, d, a)
  BY DEF LinkInv, LineInv
<1>7. /\ s + 1 <= a + Window /\ a <= s /\ a <= d + Reach
      /\ \A i \in Slot : Pending(i) => slots[i].sendOrder \in a .. s - 1
  BY <1>5, <1>6, FrontWindow DEF LinkInv, FrontOK
<1>8. FrontOK(a)'
  <2>1. \A i \in Slot : Pending(i)' => slots'[i].sendOrder >= a
    BY <1>0, <1>4, <1>7 DEF Pending
  <2>2. \E i \in Slot : Pending(i)' /\ slots'[i].sendOrder = a
    <3>1. CASE a = s
      BY <1>4, <3>1
    <3>2. CASE a # s
      <4>1. PICK i \in Slot : Pending(i) /\ slots[i].sendOrder = a
        BY <1>6, <3>2 DEF FrontOK
      <4>2. i # f
        BY <1>5, <4>1
      <4> QED
        BY <1>4, <4>1, <4>2 DEF Pending
    <3> QED
      BY <3>1, <3>2
  <2> QED
    BY <1>1, <1>7, <2>1, <2>2 DEF FrontOK
<1>9. s + 1 <= d + Modulo - Window /\ s - d < Modulo - 1
  BY <1>0, <1>7, Constants
<1>10. ControllerInv'
  <2>1. Named(n, s, expected) = d
    BY DEF LinkInv, ControllerInv
  <2>2. Named(Successor(n), s + 1, expected) = d
    BY <1>0, <1>9, <2>1, NamedAfterSend
  <2>3. d <= s + 1 /\ (s + 1) - d <= Modulo - Window
    BY <1>0, <1>9, Constants
  <2> QED
    BY <1>1, <2>2, <2>3 DEF LinkInv, ControllerInv
<1>11. AckedInv'
  BY <1>1, <1>4 DEF LinkInv, AckedInv
<1>12. toController' \in Seq(Packet) /\ WireOK(toController', Successor(n), s + 1, d)
  <2>1. WireOK(toController, n, s, d)
    BY DEF LinkInv, LineInv
  <2>2. WireOK(toController, Successor(n), s + 1, d)
    BY <1>0, <1>9, <2>1, WireSent
  <2>3. p \in Packet /\ p.sequence = n /\ p.id = s
    BY <1>0 DEF Packet
  <2> HIDE DEF p
  <2>4. /\ <<p>> \in Seq(Packet)
        /\ \A k \in DOMAIN <<p>> : <<p>>[k] = p
    BY <2>3
  <2>5. /\ AgeFrom(Successor(n), p.sequence) = (s + 1) - p.id /\ (s + 1) - p.id <= Window
        /\ Successor(n) \in SeqNo /\ s + 1 \in Int /\ d <= s + 1
    BY <1>0, <2>3, NextAge, SuccessorType, Constants
  <2>6. toController \o <<p>> \in Seq(Packet) /\ WireOK(toController \o <<p>>, Successor(n), s + 1, d)
    <3> DEFINE r == <<p>>
               m == Successor(n)
               t == s + 1
    <3>1. \A k \in DOMAIN r : AgeFrom(m, r[k].sequence) = t - r[k].id /\ t - r[k].id <= Window
      BY <2>4, <2>5
    <3>2. /\ r \in Seq(Packet) /\ m \in SeqNo /\ t \in Int /\ d \in Int /\ d <= t
          /\ WireOK(toController, m, t, d)
      BY <1>0, <2>2, <2>4, <2>5
    <3> HIDE DEF r, m, t
    <3>3. toController \o r \in Seq(Packet) /\ WireOK(toController \o r, m, t, d)
      BY <1>0, <3>1, <3>2, WirePut
    <3> QED
      BY <3>3 DEF r, m, t
  <2>7. toController' = toController \o <<p>>
    BY <1>0, <1>1, <2>3, AppendIsConcat
  <2> QED
    BY <2>6, <2>7
<1>13. AnswersOK(toHost, Successor(n), s + 1, d, a)
  BY <1>0, <1>6, <1>7, AnswersSent
<1>14. LineInv'
  BY <1>1, <1>8, <1>12, <1>13 DEF LineInv
<1>15. LinkTypeOK' /\ PlainInv'
  BY <1>1, <1>12 DEF LinkInv, LinkTypeOK, PlainInv
<1> QED
  BY <1>2, <1>10, <1>11, <1>14, <1>15 DEF LinkInv

\* The first answer, when it is an o line, is about a packet of which the host knows the age.
LEMMA HeadAnswerable ==
  ASSUME LinkInv, NEW b \in Nat, FrontOK(b),
         AnswersOK(toHost, nextSequence, sentCount, Len(executed), b),
         toHost # <<>>, Head(toHost).kind = "o"
  PROVE  /\ Answerable(Head(toHost).sequence) /\ Head(toHost) \in Response
         /\ Named(nextSequence, sentCount, Head(toHost).sequence) < Len(executed)
         /\ Age(Head(toHost).sequence)
              = sentCount - Named(nextSequence, sentCount, Head(toHost).sequence)
<1> DEFINE n == nextSequence
           c == sentCount
           d == Len(executed)
           q == Head(toHost).sequence
           y == Named(n, c, q)
<1>0. /\ n \in SeqNo /\ c \in Nat /\ FlowTypeOK /\ d \in Nat /\ d <= c
      /\ toHost \in Seq(Response) /\ c \in Int /\ d \in Int /\ b \in Int /\ b <= b
  BY StateFacts
<1>1. /\ q \in SeqNo /\ Head(toHost).free \in 0 .. MaxFree /\ y \in Int
      /\ Head(toHost) = toHost[1] /\ 1 \in DOMAIN toHost /\ Head(toHost) \in Response
  <2>1. Head(toHost) = toHost[1] /\ 1 \in DOMAIN toHost /\ toHost[1] \in Response
    BY <1>0
  <2>2. q \in SeqNo /\ Head(toHost).free \in 0 .. MaxFree
    BY <2>1 DEF Response
  <2>3. y \in Int
    BY <1>0, <2>2, NamedType
  <2> QED
    BY <2>1, <2>2, <2>3
<1>2. b <= y + Reach /\ y < d
  BY <1>1 DEF AnswersOK
<1>3. /\ b <= c /\ c <= b + Window
      /\ \A k \in b .. c - 1 : \E i \in Slot : Pending(i) /\ slots[i].sendOrder = k
      /\ \A i \in Slot : Pending(i) => slots[i].sendOrder \in b .. c - 1
  BY FrontWindow DEF LinkInv
<1>4. Age(q) = c - y /\ Age(q) <= Modulo - Window + 1
  <2>1. y = c - DistFrom(n, q) /\ DistFrom(n, q) \in 0 .. Modulo - 1
    BY <1>0, <1>1, NamedType
  <2>2. DistFrom(n, q) > 0
    BY <1>0, <1>1, <1>2, <2>1, Constants
  <2>3. AgeFrom(n, q) = DistFrom(n, q)
    BY <2>1, <2>2 DEF DistFrom
  <2>4. c - y <= Modulo - Window
    BY <1>0, <1>1, <1>2, <1>3, Constants
  <2> QED
    BY <1>0, <1>1, <2>1, <2>3, <2>4, Constants DEF Age
<1>5. Answerable(q)
  BY <1>4 DEF Answerable
<1> QED
  BY <1>1, <1>2, <1>4, <1>5

\* The host reads an o line.
LEMMA AckInv ==
  ASSUME LinkInv, NEW b \in Nat, FrontOK(b),
         AnswersOK(toHost, nextSequence, sentCount, Len(executed), b),
         toHost # <<>>, Head(toHost).kind = "o",
         HandleAck(Head(toHost).sequence, Head(toHost).free), executed' = executed
  PROVE  /\ FlowIInv' /\ AckedInv'
         /\ \E a \in Nat : FrontOK(a)'
              /\ AnswersOK(Tail(toHost), nextSequence, sentCount, Len(executed), a)
<1> DEFINE n == nextSequence
           c == sentCount
           d == Len(executed)
           q == Head(toHost).sequence
           y == Named(n, c, q)
<1>0. /\ n \in SeqNo /\ c \in Nat /\ FlowTypeOK /\ d \in Nat /\ d <= c
      /\ toHost \in Seq(Response) /\ c \in Int /\ d \in Int /\ b \in Int /\ b <= b
  BY StateFacts
<1>2. /\ Head(toHost) \in Response /\ y < d /\ Age(q) = c - y /\ Answerable(q)
  BY HeadAnswerable
<1>1. q \in SeqNo /\ Head(toHost).free \in 0 .. MaxFree /\ y \in Int
  BY <1>0, <1>2, NamedType DEF Response
<1>3. /\ b <= c /\ c <= b + Window
      /\ \A k \in b .. c - 1 : \E i \in Slot : Pending(i) /\ slots[i].sendOrder = k
      /\ \A i \in Slot : Pending(i) => slots[i].sendOrder \in b .. c - 1
  BY FrontWindow DEF LinkInv
<1>6. /\ FlowIInv' /\ KeepsPackets
      /\ (\E i \in Slot : FindsSlot(i, q)) => AcksFromAge(Age(q))
      /\ (\E i \in Slot : FindsSlot(i, q)) \/ slots' = slots
  BY <1>1, <1>2, AckStep DEF LinkInv
<1>7. \A i \in Slot : /\ slots[i].sendOrder \in Nat /\ slots'[i].sendOrder = slots[i].sendOrder
                      /\ Pending(i) => Age(slots[i].sequence) = c - slots[i].sendOrder
  BY <1>0, <1>6, SlotFieldTypes DEF LinkInv, FlowIInv, ResendRunUnbroken, KeepsPackets
<1> HIDE DEF y
<1>8. CASE \E i \in Slot : FindsSlot(i, q)
  <2>1. \A i \in Slot : Pending(i)' <=> Pending(i) /\ slots[i].sendOrder > y
    BY <1>0, <1>1, <1>2, <1>6, <1>7, <1>8 DEF AcksFromAge
  <2>2. AckedInv'
    <3> SUFFICES ASSUME NEW i \in Slot, slots'[i].occupied, slots'[i].acknowledged
                 PROVE  slots'[i].sendOrder < d
      BY DEF AckedInv
    <3>1. ~Pending(i)' /\ slots[i].occupied
      BY <1>6 DEF Pending, KeepsPackets
    <3>2. CASE Pending(i)
      BY <1>0, <1>1, <1>2, <1>7, <2>1, <3>1, <3>2
    <3>3. CASE ~Pending(i)
      BY <1>0, <1>7, <3>1, <3>3, SlotFieldTypes DEF Pending, LinkInv, AckedInv
    <3> QED
      BY <3>2, <3>3
  <2>3. CASE y < b
    <3>1. FrontOK(b)'
      BY <1>0, <1>1, <1>3, <1>7, <2>1, <2>3 DEF FrontOK, HandleAck
    <3>2. AnswersOK(Tail(toHost), n, c, d, b)
      BY <1>0, AnswersRead
    <3> QED
      BY <1>6, <2>2, <3>1, <3>2
  <2>4. CASE b <= y
    <3>1. PICK z \in Nat : z = y + 1
      BY <1>0, <1>1, <2>4
    <3>2. z <= c /\ z > y /\ z <= d + Reach /\ z \in Int /\ (z # c => z \in b .. c - 1)
      BY <1>0, <1>1, <1>2, <2>4, <3>1, Constants
    <3>3. z = c \/ \E i \in Slot : Pending(i)' /\ slots'[i].sendOrder = z
      BY <1>3, <1>7, <2>1, <3>2
    <3>4. \A i \in Slot : Pending(i)' => slots'[i].sendOrder >= z
      BY <1>1, <1>7, <2>1, <3>1
    <3>5. FrontOK(z)'
      BY <3>2, <3>3, <3>4 DEF FrontOK, HandleAck
    <3>6. AnswersOK(Tail(toHost), n, c, d, z)
      BY <1>0, <1>1, <3>1, <3>2, AnswersRead DEF y
    <3> QED
      BY <1>6, <2>2, <3>5, <3>6
  <2> QED
    BY <1>0, <1>1, <2>3, <2>4
<1>9. CASE slots' = slots
  <2>1. FrontOK(b)' /\ AckedInv'
    BY <1>9 DEF FrontOK, HandleAck, Pending, LinkInv, AckedInv
  <2>2. AnswersOK(Tail(toHost), n, c, d, b)
    BY <1>0, AnswersRead
  <2> QED
    BY <1>6, <2>1, <2>2
<1> QED
  BY <1>6, <1>8, <1>9

\* The host reads an r line.
LEMMA RejectInv ==
  ASSUME LinkInv, NEW b \in Nat, FrontOK(b),
         AnswersOK(toHost, nextSequence, sentCount, Len(executed), b),
         toHost # <<>>, Head(toHost).kind = "r",
         HandleReject(Head(toHost).sequence, Head(toHost).free), executed' = executed
  PROVE  /\ FlowIInv' /\ AckedInv'
         /\ \E a \in Nat : FrontOK(a)'
              /\ AnswersOK(Tail(toHost), nextSequence, sentCount, Len(executed), a)
<1> DEFINE n == nextSequence
           c == sentCount
           d == Len(executed)
           q == Head(toHost).sequence
           y == Named(n, c, q)
<1>0. /\ n \in SeqNo /\ c \in Nat /\ FlowTypeOK /\ d \in Nat /\ d <= c
      /\ toHost \in Seq(Response) /\ c \in Int /\ d \in Int /\ b \in Int /\ b <= b
  BY StateFacts
<1>1. /\ q \in SeqNo /\ Head(toHost).free \in 0 .. MaxFree /\ y \in Int
      /\ Head(toHost) = toHost[1] /\ 1 \in DOMAIN toHost
  <2>1. Head(toHost) = toHost[1] /\ 1 \in DOMAIN toHost /\ toHost[1] \in Response
    BY <1>0
  <2>2. q \in SeqNo /\ Head(toHost).free \in 0 .. MaxFree
    BY <2>1 DEF Response
  <2>3. y \in Int
    BY <1>0, <2>2, NamedType
  <2> QED
    BY <2>1, <2>2, <2>3
<1>2. y <= d
  BY <1>1 DEF AnswersOK
<1>3. /\ FlowIInv' /\ KeepsPackets
      /\ RejectTriggersResend(q) => AcksFromAge(Age(q) + 1)
      /\ RejectTriggersResend(q) \/ slots' = slots
  BY <1>1, RejectStep DEF LinkInv
<1>4. \A i \in Slot : /\ slots[i].sendOrder \in Nat /\ slots'[i].sendOrder = slots[i].sendOrder
                      /\ Pending(i) => Age(slots[i].sequence) = c - slots[i].sendOrder
                                       /\ Age(slots[i].sequence) <= Window
  BY <1>0, <1>3, SlotFieldTypes DEF LinkInv, FlowIInv, ResendRunUnbroken, WindowInv,
     KeepsPackets
<1>5. CASE RejectTriggersResend(q)
  <2>1. PICK w \in Slot : Pending(w) /\ slots[w].sequence = q
    BY <1>5 DEF RejectTriggersResend, FindsPendingSlot, FindsSlot, Occupied, Pending
  <2>2. PICK z \in Nat : z = slots[w].sendOrder
    BY <1>4
  <2>3. Age(q) = c - z /\ Age(q) <= Window
    BY <1>4, <2>1, <2>2
  <2>4. y = z
    <3>1. y = c - DistFrom(n, q)
      BY <1>0, <1>1, NamedType
    <3>2. DistFrom(n, q) = c - z
      BY <1>0, <2>3, Constants DEF Age, DistFrom
    <3> QED
      BY <1>0, <3>1, <3>2
  <2> HIDE DEF y
  <2>5. \A i \in Slot : Pending(i)' <=> Pending(i) /\ slots[i].sendOrder >= z
    BY <1>0, <1>3, <1>4, <1>5, <2>3 DEF AcksFromAge
  <2>6. AckedInv'
    <3> SUFFICES ASSUME NEW i \in Slot, slots'[i].occupied, slots'[i].acknowledged
                 PROVE  slots'[i].sendOrder < d
      BY DEF AckedInv
    <3>1. ~Pending(i)' /\ slots[i].occupied
      BY <1>3 DEF Pending, KeepsPackets
    <3>2. CASE Pending(i)
      BY <1>0, <1>2, <1>4, <2>4, <2>5, <3>1, <3>2
    <3>3. CASE ~Pending(i)
      BY <1>0, <1>4, <3>1, <3>3, SlotFieldTypes DEF Pending, LinkInv, AckedInv
    <3> QED
      BY <3>2, <3>3
  <2>7. FrontOK(z)'
    <3>1. Pending(w)' /\ slots'[w].sendOrder = z
      BY <1>4, <2>1, <2>2, <2>5
    <3>2. z <= d + Reach
      BY <1>0, <1>2, <2>4, Constants
    <3> QED
      BY <1>4, <2>5, <3>1, <3>2 DEF FrontOK
  <2>8. AnswersOK(Tail(toHost), n, c, d, z)
    BY <1>0, <1>1, <2>4, AnswersRead DEF y
  <2> QED
    BY <1>3, <2>6, <2>7, <2>8
<1>6. CASE slots' = slots
  <2>1. FrontOK(b)' /\ AckedInv'
    BY <1>6 DEF FrontOK, HandleReject, Pending, LinkInv, AckedInv
  <2>2. AnswersOK(Tail(toHost), n, c, d, b)
    BY <1>0, AnswersRead
  <2> QED
    BY <1>3, <2>1, <2>2
<1> QED
  BY <1>3, <1>5, <1>6

\* An answer is about a packet that can be told apart by its number, so it acknowledges
\* or replays the right ones.
LEMMA ReceiveInv ==
  ASSUME LinkInv, HostReceive
  PROVE  LinkInv'
<1> DEFINE m == Head(toHost)
           d == Len(executed)
<1>0. /\ nextSequence \in SeqNo /\ sentCount \in Nat /\ FlowTypeOK /\ d \in Nat
      /\ toController \in Seq(Packet) /\ toHost \in Seq(Response) /\ d <= sentCount
  BY StateFacts
<1>1. /\ toHost # <<>> /\ toHost' = Tail(toHost) /\ expected' = expected /\ executed' = executed
      /\ protoErrors' = protoErrors
  BY DEF HostReceive
<1>2. /\ m \in Response /\ m.kind # "proto" /\ Tail(toHost) \in Seq(Response)
      /\ \A k \in DOMAIN Tail(toHost) : Tail(toHost)[k].kind # "proto"
  <2>1. m = toHost[1] /\ 1 \in DOMAIN toHost /\ m \in Response /\ Tail(toHost) \in Seq(Response)
        /\ \A k \in DOMAIN Tail(toHost) : k + 1 \in DOMAIN toHost /\ Tail(toHost)[k] = toHost[k + 1]
    BY <1>0, <1>1
  <2> QED
    BY <2>1 DEF LinkInv, PlainInv
<1>3. PICK b \in Nat : FrontOK(b) /\ AnswersOK(toHost, nextSequence, sentCount, d, b)
  BY DEF LinkInv, LineInv
<1>4. nextSequence' = nextSequence /\ sentCount' = sentCount
  BY <1>2 DEF HostReceive, HandleAck, HandleReject, HandleSpaceReport
<1>5. /\ FlowIInv' /\ AckedInv'
      /\ \E a \in Nat : FrontOK(a)' /\ AnswersOK(Tail(toHost), nextSequence, sentCount, d, a)
  <2>1. CASE m.kind = "o" /\ HandleAck(m.sequence, m.free)
    BY <1>1, <1>3, <2>1, AckInv
  <2>2. CASE m.kind = "r" /\ HandleReject(m.sequence, m.free)
    BY <1>1, <1>3, <2>2, RejectInv
  <2>3. CASE m.kind = "q" /\ HandleSpaceReport(m.free)
    <3>1. m.free \in 0 .. MaxFree
      BY <1>2 DEF Response
    <3>2. FlowIInv'
      BY <2>3, <3>1, SyncStepKeepsInv DEF LinkInv, SyncStep
    <3>3. slots' = slots
      BY <2>3 DEF HandleSpaceReport
    <3>4. FrontOK(b)' /\ AckedInv'
      BY <1>1, <1>3, <1>4, <3>3 DEF FrontOK, Pending, LinkInv, AckedInv
    <3>5. AnswersOK(Tail(toHost), nextSequence, sentCount, d, b)
      <4>1. sentCount \in Int /\ d \in Int /\ b \in Int /\ b <= b
        BY <1>0
      <4> QED
        BY <1>0, <1>1, <1>3, <4>1, AnswersRead
    <3> QED
      BY <3>2, <3>4, <3>5
  <2> QED
    BY <1>2, <2>1, <2>2, <2>3 DEF HostReceive
<1>6. /\ toController' \in Seq(Packet)
      /\ WireOK(toController', nextSequence, sentCount, d)
  <2>1. WireOK(toController, nextSequence, sentCount, d)
    BY DEF LinkInv, LineInv
  <2>2. CASE toController' = toController
    BY <1>0, <2>1, <2>2
  <2>3. CASE toController' = toController \o PendingPackets'
    <3>1. (FlowIInv /\ Waiters => ReplayOK)'
      BY ReplayFits, PTL
    <3>2. Waiters'
      BY <1>5 DEF Waiters
    <3>3. ReplayOK'
      BY <1>5, <3>1, <3>2
    <3> DEFINE r == PendingPackets'
    <3>4. /\ r \in Seq(Packet)
          /\ \A k \in DOMAIN r : /\ AgeFrom(nextSequence, r[k].sequence) = sentCount - r[k].id
                                 /\ sentCount - r[k].id <= Window
      BY <1>4, <3>3 DEF ReplayOK
    <3> HIDE DEF r
    <3>5. sentCount \in Int /\ d \in Int
      BY <1>0
    <3>6. toController \o r \in Seq(Packet) /\ WireOK(toController \o r, nextSequence, sentCount, d)
      BY <1>0, <2>1, <3>4, <3>5, WirePut
    <3> QED
      BY <2>3, <3>6 DEF r
  <2> QED
    BY <1>2, <2>2, <2>3 DEF HostReceive
<1>7. LinkTypeOK' /\ PlainInv' /\ ControllerInv'
  BY <1>1, <1>2, <1>4, <1>6 DEF LinkInv, LinkTypeOK, PlainInv, ControllerInv
<1>8. LineInv'
  BY <1>1, <1>4, <1>5, <1>6 DEF LineInv
<1> QED
  BY <1>5, <1>7, <1>8 DEF LinkInv

\* A timely clear forgets packets without letting later answers name the wrong ones.
LEMMA ClearInv ==
  ASSUME LinkInv, HostClear, Settled
  PROVE  LinkInv'
<1> DEFINE d == Len(executed)
<1>0. /\ nextSequence \in SeqNo /\ sentCount \in Nat /\ FlowTypeOK /\ d \in Nat
      /\ toHost \in Seq(Response)
  BY StateFacts
<1>1. /\ slots' = [i \in Slot |-> EmptySlot] /\ nextSequence' = nextSequence
      /\ sentCount' = sentCount /\ toController' = toController /\ toHost' = toHost
      /\ expected' = expected /\ executed' = executed /\ protoErrors' = protoErrors
      /\ ClearInflight
  BY DEF HostClear, ClearInflight
<1>2. FlowIInv'
  BY <1>1, SyncStepKeepsInv DEF LinkInv, SyncStep
<1>3. \A i \in Slot : ~slots'[i].occupied
  BY <1>1 DEF EmptySlot
<1>4. AckedInv'
  BY <1>3 DEF AckedInv
<1>5. PICK c \in Nat : c = sentCount
  BY <1>0
<1>6. FrontOK(c)'
  <2>1. c <= d + Reach
    BY <1>0, <1>5, Constants DEF Settled
  <2> QED
    BY <1>1, <1>3, <1>5, <2>1 DEF FrontOK, Pending
<1>7. AnswersOK(toHost, nextSequence, sentCount, d, c)
  <2>1. \E b \in Nat : AnswersOK(toHost, nextSequence, sentCount, d, b)
    BY DEF LinkInv, LineInv
  <2>2. ASSUME NEW k \in DOMAIN toHost, toHost[k].kind # "q"
        PROVE  c <= Named(nextSequence, sentCount, toHost[k].sequence) + Reach
    <3>1. DistFrom(nextSequence, toHost[k].sequence) <= Reach
      BY <2>2 DEF Settled
    <3>2. toHost[k].sequence \in SeqNo /\ sentCount \in Int
      BY <1>0, AnswerType
    <3>3. /\ DistFrom(nextSequence, toHost[k].sequence) \in 0 .. Modulo - 1
          /\ Named(nextSequence, sentCount, toHost[k].sequence)
               = sentCount - DistFrom(nextSequence, toHost[k].sequence)
      BY <1>0, <3>2, NamedType
    <3> QED
      BY <1>0, <1>5, <3>1, <3>3, Constants
  <2> QED
    BY <2>1, <2>2 DEF AnswersOK
<1>8. LineInv'
  BY <1>1, <1>6, <1>7 DEF LinkInv, LineInv
<1>9. LinkTypeOK' /\ PlainInv' /\ ControllerInv'
  BY <1>1 DEF LinkInv, LinkTypeOK, PlainInv, ControllerInv
<1> QED
  BY <1>2, <1>4, <1>8, <1>9 DEF LinkInv

\* A step of the controller or the line leaves the host alone.
LEMMA HostStill ==
  ASSUME FlowIInv, UNCHANGED flowVars
  PROVE  /\ FlowIInv' /\ slots' = slots /\ nextSequence' = nextSequence
         /\ sentCount' = sentCount
BY SyncStepKeepsInv DEF flowVars

\* An answer that is not a ProtoError leaves the controller plain.
LEMMA AnsweredPlain ==
  ASSUME PlainInv, toHost \in Seq(Response), NEW m, m.kind # "proto", toHost' = Append(toHost, m),
         protoErrors' = protoErrors
  PROVE  PlainInv'
<1>1. \A k \in DOMAIN toHost' : (k \in DOMAIN toHost /\ toHost'[k] = toHost[k]) \/ toHost'[k] = m
  OBVIOUS
<1> QED
  BY <1>1 DEF PlainInv

\* The controller executes the packet after the last one executed, because a packet with
\* the expected number on the line can be no other.
LEMMA ExecuteInv ==
  ASSUME LinkInv, ControllerExecute
  PROVE  LinkInv'
<1> DEFINE n == nextSequence
           c == sentCount
           d == Len(executed)
           p == Head(toController)
<1>0. /\ n \in SeqNo /\ c \in Nat /\ d \in Nat /\ expected \in SeqNo
      /\ toController \in Seq(Packet) /\ toHost \in Seq(Response) /\ d <= c
      /\ c \in Int /\ d \in Int /\ executed \in Seq(Nat)
  BY StateFacts DEF LinkInv, LinkTypeOK
<1>1. /\ toController # <<>> /\ p.sequence = expected /\ executed' = Append(executed, p.id)
      /\ expected' = Successor(expected) /\ toController' = Tail(toController)
      /\ protoErrors' = protoErrors /\ UNCHANGED flowVars
  BY DEF ControllerExecute
<1>2. /\ FlowIInv' /\ slots' = slots /\ nextSequence' = n /\ sentCount' = c
  BY <1>1, HostStill DEF LinkInv
<1>3. PICK free \in 0 .. MaxFree :
        toHost' = Append(toHost, [kind |-> "o", sequence |-> expected, free |-> free])
  BY DEF ControllerExecute, Answer
<1>4. PICK a \in Nat : FrontOK(a) /\ AnswersOK(toHost, n, c, d, a)
  BY DEF LinkInv, LineInv
<1>5. WireOK(toController, n, c, d) /\ Named(n, c, expected) = d /\ c - d <= Modulo - Window
  BY DEF LinkInv, LineInv, ControllerInv
<1>6. p = toController[1] /\ 1 \in DOMAIN toController /\ p.id \in Nat
  BY <1>0, <1>1, PacketType
<1>7. AgeFrom(n, expected) = c - p.id /\ d <= p.id + Window
  BY <1>1, <1>5, <1>6 DEF WireOK
<1>8. p.id = d /\ d < c
  <2>1. /\ AgeFrom(n, expected) \in 1 .. Modulo /\ DistFrom(n, expected) \in 0 .. Modulo - 1
        /\ d = c - DistFrom(n, expected)
    BY <1>0, <1>5, NamedType
  <2>2. AgeFrom(n, expected) # Modulo
    <3> SUFFICES ASSUME AgeFrom(n, expected) = Modulo PROVE FALSE
      OBVIOUS
    <3>1. DistFrom(n, expected) = 0
      BY DEF DistFrom
    <3> QED
      BY <1>0, <1>6, <1>7, <2>1, <3>1, Constants
  <2>3. DistFrom(n, expected) = c - p.id
    BY <1>7, <2>2 DEF DistFrom
  <2> QED
    BY <1>0, <1>6, <1>7, <2>1, <2>3, Constants
<1>9. /\ executed' \in Seq(Nat) /\ Len(executed') = d + 1
      /\ \A k \in DOMAIN executed' : executed'[k] = k - 1
  <2>1. /\ executed' \in Seq(Nat) /\ Len(executed') = d + 1
        /\ \A k \in DOMAIN executed' : \/ k \in DOMAIN executed /\ executed'[k] = executed[k]
                                       \/ k = d + 1 /\ executed'[k] = p.id
    BY <1>0, <1>1, <1>6
  <2>2. \A k \in DOMAIN executed : executed[k] = k - 1
    BY DEF LinkInv, ControllerInv
  <2>3. p.id = (d + 1) - 1
    BY <1>0, <1>8
  <2> QED
    BY <2>1, <2>2, <2>3
<1>10. /\ toController' \in Seq(Packet) /\ WireOK(toController', n, c, d + 1)
  <2>1. d + 1 \in Int
    BY <1>0
  <2> QED
    BY <1>0, <1>1, <1>5, <1>8, <2>1, WireTaken
<1>11. /\ toHost' \in Seq(Response) /\ AnswersOK(toHost', n, c, d + 1, a) /\ PlainInv'
  <2> DEFINE m == [kind |-> "o", sequence |-> expected, free |-> free]
  <2>1. m \in Response /\ m.kind = "o" /\ m.sequence = expected
    BY <1>0 DEF Response
  <2>2. a <= d + Reach /\ a \in Int
    BY <1>4 DEF FrontOK
  <2> HIDE DEF m
  <2>3. Append(toHost, m) \in Seq(Response) /\ AnswersOK(Append(toHost, m), n, c, d + 1, a)
    BY <1>0, <1>4, <1>5, <2>1, <2>2, AnswersAdd
  <2>4. toHost' = Append(toHost, m)
    BY <1>3 DEF m
  <2>5. PlainInv'
    BY <1>0, <1>1, <2>1, <2>4, AnsweredPlain DEF LinkInv
  <2> QED
    BY <2>3, <2>4, <2>5
<1>12. ControllerInv'
  <2>1. Named(n, c, Successor(expected)) = d + 1
    BY <1>0, <1>5, <1>8, NamedSuccessor
  <2>2. d + 1 <= c /\ c - (d + 1) <= Modulo - Window
    BY <1>0, <1>5, <1>8, Constants
  <2> QED
    BY <1>1, <1>2, <1>9, <2>1, <2>2 DEF ControllerInv
<1>13. FrontOK(a)' /\ AckedInv'
  <2>1. a <= (d + 1) + Reach
    BY <1>0, <1>4, Constants DEF FrontOK
  <2>2. \A i \in Slot : slots[i].sendOrder \in Nat
    BY SlotFieldTypes DEF LinkInv, FlowIInv
  <2>3. FrontOK(a)'
    BY <1>2, <1>4, <1>9, <2>1 DEF FrontOK, Pending
  <2>4. AckedInv'
    BY <1>0, <1>2, <1>9, <2>2 DEF LinkInv, AckedInv
  <2> QED
    BY <2>3, <2>4
<1>14. LinkTypeOK'
  BY <1>0, <1>1, <1>9, <1>10, <1>11, SuccessorType DEF LinkTypeOK
<1>15. LineInv'
  BY <1>2, <1>9, <1>10, <1>11, <1>13 DEF LineInv
<1> QED
  BY <1>2, <1>11, <1>12, <1>13, <1>14, <1>15 DEF LinkInv

\* The controller answers without executing anything.
LEMMA AnswerInv ==
  ASSUME LinkInv, UNCHANGED flowVars, executed' = executed, expected' = expected,
         protoErrors' = protoErrors, NEW kind \in {"r", "q"}, NEW free \in 0 .. MaxFree,
         Answer(kind, expected, free),
         toController' = toController \/ (toController # <<>> /\ toController' = Tail(toController))
  PROVE  LinkInv'
<1> DEFINE n == nextSequence
           c == sentCount
           d == Len(executed)
           m == [kind |-> kind, sequence |-> expected, free |-> free]
<1>0. /\ n \in SeqNo /\ c \in Int /\ d \in Int /\ expected \in SeqNo
      /\ toController \in Seq(Packet) /\ toHost \in Seq(Response)
  BY StateFacts
<1>1. FlowIInv' /\ slots' = slots /\ nextSequence' = n /\ sentCount' = c
  BY HostStill DEF LinkInv
<1>2. PICK a \in Nat : FrontOK(a) /\ AnswersOK(toHost, n, c, d, a)
  BY DEF LinkInv, LineInv
<1>3. WireOK(toController, n, c, d) /\ Named(n, c, expected) = d
  BY DEF LinkInv, LineInv, ControllerInv
<1>4. m \in Response /\ m.kind = kind /\ m.sequence = expected /\ toHost' = Append(toHost, m)
  BY <1>0 DEF Response, Answer
<1> HIDE DEF m
<1>5. toHost' \in Seq(Response) /\ AnswersOK(toHost', n, c, d, a) /\ PlainInv'
  <2>1. a <= d + Reach /\ a \in Int
    BY <1>2 DEF FrontOK
  <2>2. Append(toHost, m) \in Seq(Response) /\ AnswersOK(Append(toHost, m), n, c, d, a)
    BY <1>0, <1>2, <1>3, <1>4, <2>1, AnswersAdd
  <2>3. PlainInv'
    BY <1>0, <1>4, AnsweredPlain DEF LinkInv
  <2> QED
    BY <1>4, <2>2, <2>3
<1>6. toController' \in Seq(Packet) /\ WireOK(toController', n, c, d)
  BY <1>0, <1>3, WireTaken
<1>7. FrontOK(a)' /\ AckedInv'
  BY <1>1, <1>2 DEF FrontOK, Pending, LinkInv, AckedInv
<1>8. LinkTypeOK' /\ ControllerInv'
  BY <1>1, <1>5, <1>6 DEF LinkInv, LinkTypeOK, ControllerInv
<1>9. LineInv'
  BY <1>1, <1>5, <1>6, <1>7 DEF LineInv
<1> QED
  BY <1>1, <1>5, <1>7, <1>8, <1>9 DEF LinkInv

\* A reject names the packet the controller waits for, and drops one from the line.
LEMMA ControllerRejectInv ==
  ASSUME LinkInv, ControllerReject
  PROVE  LinkInv'
<1>1. PICK free \in 0 .. MaxFree : Answer("r", expected, free)
  BY FlowAssumption DEF LinkInv, PlainInv, ControllerReject
<1> QED
  BY <1>1, AnswerInv DEF ControllerReject

\* A space report names no packet.
LEMMA ReportInv ==
  ASSUME LinkInv, ControllerReportsSpace
  PROVE  LinkInv'
<1>1. MaxFree \in 0 .. MaxFree
  BY FlowAssumption
<1> QED
  BY <1>1, AnswerInv DEF ControllerReportsSpace

\* A damaged packet keeps its number and its place.
LEMMA DamageInv ==
  ASSUME LinkInv, DamagePacket
  PROVE  LinkInv'
<1>0. toController \in Seq(Packet)
  BY StateFacts
<1>1. /\ UNCHANGED flowVars /\ protoErrors' = protoErrors /\ toHost' = toHost
      /\ expected' = expected /\ executed' = executed
  BY DEF DamagePacket
<1>2. FlowIInv' /\ slots' = slots /\ nextSequence' = nextSequence /\ sentCount' = sentCount
  BY <1>1, HostStill DEF LinkInv
<1>3. PICK x \in DOMAIN toController :
        toController' = [toController EXCEPT ![x] = [toController[x] EXCEPT !.damaged = TRUE]]
  BY DEF DamagePacket
<1>4. /\ [toController[x] EXCEPT !.damaged = TRUE] \in Packet
      /\ [toController[x] EXCEPT !.damaged = TRUE].id = toController[x].id
      /\ [toController[x] EXCEPT !.damaged = TRUE].sequence = toController[x].sequence
  BY <1>0, PacketType DEF Packet
<1>5. /\ toController' \in Seq(Packet) /\ DOMAIN toController' = DOMAIN toController
      /\ \A k \in DOMAIN toController : /\ toController'[k].id = toController[k].id
                                        /\ toController'[k].sequence = toController[k].sequence
  BY <1>0, <1>3, <1>4
<1>6. WireOK(toController', nextSequence, sentCount, Len(executed))
  BY <1>5 DEF LinkInv, LineInv, WireOK
<1>7. LineInv' /\ AckedInv'
  BY <1>1, <1>2, <1>6 DEF LinkInv, LineInv, FrontOK, Pending, AckedInv
<1>8. LinkTypeOK' /\ PlainInv' /\ ControllerInv'
  BY <1>1, <1>2, <1>5 DEF LinkInv, LinkTypeOK, PlainInv, ControllerInv
<1> QED
  BY <1>2, <1>7, <1>8 DEF LinkInv

\* Losing an answer keeps the order of the others.
LEMMA LoseInv ==
  ASSUME LinkInv, LoseResponse
  PROVE  LinkInv'
<1>0. /\ nextSequence \in SeqNo /\ sentCount \in Int /\ Len(executed) \in Int
      /\ toHost \in Seq(Response)
  BY StateFacts
<1>1. /\ UNCHANGED flowVars /\ protoErrors' = protoErrors /\ toController' = toController
      /\ expected' = expected /\ executed' = executed
  BY DEF LoseResponse
<1>2. FlowIInv' /\ slots' = slots /\ nextSequence' = nextSequence /\ sentCount' = sentCount
  BY <1>1, HostStill DEF LinkInv
<1>3. PICK x \in DOMAIN toHost : toHost' = RemoveAt(toHost, x)
  BY DEF LoseResponse
<1>4. PICK a \in Nat : FrontOK(a) /\ AnswersOK(toHost, nextSequence, sentCount, Len(executed), a)
  BY DEF LinkInv, LineInv
<1>5. /\ toHost' \in Seq(Response)
      /\ AnswersOK(toHost', nextSequence, sentCount, Len(executed), a)
      /\ \A k \in DOMAIN toHost' : \E l \in DOMAIN toHost : toHost'[k] = toHost[l]
  BY <1>0, <1>3, <1>4, AnswersLose
<1>6. FrontOK(a)' /\ AckedInv'
  BY <1>1, <1>2, <1>4 DEF FrontOK, Pending, LinkInv, AckedInv
<1>7. LineInv'
  BY <1>1, <1>2, <1>5, <1>6 DEF LinkInv, LineInv
<1>8. LinkTypeOK' /\ PlainInv' /\ ControllerInv'
  BY <1>1, <1>2, <1>5 DEF LinkInv, LinkTypeOK, PlainInv, ControllerInv
<1> QED
  BY <1>2, <1>6, <1>7, <1>8 DEF LinkInv

----------------------------------------------------------------------------
\* The line starts empty, with both ends at the number 0.
LEMMA LinkInitInv == LinkInit /\ ~protoErrors => LinkInv
<1> SUFFICES ASSUME LinkInit, ~protoErrors PROVE LinkInv
  OBVIOUS
<1>1. FlowIInv
  BY FlowInitType, EmptyArray DEF LinkInit, FlowInit
<1>2. /\ toController = <<>> /\ toHost = <<>> /\ executed = <<>> /\ expected = 0
      /\ nextSequence = 0 /\ sentCount = 0 /\ slots = [i \in Slot |-> EmptySlot]
  BY DEF LinkInit, FlowInit
<1>3. \A i \in Slot : ~slots[i].occupied /\ ~Pending(i)
  BY <1>2 DEF EmptySlot, Pending
<1>4. <<>> \in Seq(Packet) /\ <<>> \in Seq(Response) /\ <<>> \in Seq(Nat) /\ 0 \in SeqNo
  BY FlowAssumption DEF SeqNo
<1>5. Len(executed) = 0 /\ DOMAIN executed = {} /\ DOMAIN toHost = {} /\ DOMAIN toController = {}
  BY <1>2
<1>6. Named(0, 0, 0) = 0
  <2>1. Modulo \in Int /\ 0 + Modulo - 0 = Modulo /\ ~(0 > 0)
    BY FlowAssumption
  <2>2. AgeFrom(0, 0) = Modulo
    BY <2>1 DEF AgeFrom
  <2>3. DistFrom(0, 0) = 0
    BY <2>2 DEF DistFrom
  <2> QED
    BY <2>3 DEF Named
<1>7. LinkTypeOK /\ PlainInv
  BY <1>2, <1>4, <1>5 DEF LinkTypeOK, PlainInv
<1>8. ControllerInv
  <2>1. 0 <= Modulo - Window
    BY FlowAssumption
  <2> QED
    BY <1>2, <1>5, <1>6, <2>1 DEF ControllerInv
<1>9. AckedInv /\ LineInv
  <2>1. FrontOK(0)
    BY <1>2, <1>3, <1>5, Constants DEF FrontOK
  <2> QED
    BY <1>3, <1>5, <2>1 DEF AckedInv, LineInv, WireOK, AnswersOK
<1> QED
  BY <1>1, <1>7, <1>8, <1>9 DEF LinkInv

\* Every step of the host, the controller and the line keeps the invariant.
LEMMA LinkNextInv ==
  ASSUME LinkInv, [LinkNext]_vars, [HostClear => Settled]_vars
  PROVE  LinkInv'
<1>1. CASE UNCHANGED vars
  <2>1. FlowIInv'
    BY <1>1, HostStill DEF vars, LinkInv
  <2> QED
    BY <1>1, <2>1 DEF vars, flowVars, linkVars, LinkInv, LinkTypeOK, PlainInv,
       ControllerInv,
       AckedInv, LineInv, FrontOK, Pending
<1>2. CASE HostClear /\ (HostClear => Settled)
  BY <1>2, ClearInv
<1>3. CASE LinkNext
  BY <1>1, <1>2, <1>3, SendInv, ReceiveInv, ExecuteInv, ControllerRejectInv, ReportInv,
     DamageInv, LoseInv DEF LinkNext
<1> QED
  BY <1>1, <1>3

\* The invariant holds in every state when the clears are timely.
LEMMA LinkSpecInv == LinkSpec /\ ~protoErrors /\ TimelyClears => []LinkInv
<1>1. LinkInv /\ [LinkNext]_vars /\ [HostClear => Settled]_vars => LinkInv'
  BY LinkNextInv
<1> QED
  BY <1>1, LinkInitInv, PTL DEF LinkSpec, TimelyClears

\* Against a controller that rejects, every command is executed once and in the order of
\* sending, and none is left out, however many packets are damaged and answers lost.
THEOREM ExecutedAlwaysInOrder ==
  LinkSpec /\ ~protoErrors /\ TimelyClears => []ExecutedInOrder
<1>1. LinkInv => ExecutedInOrder
  <2> SUFFICES ASSUME LinkInv PROVE ExecutedInOrder
    OBVIOUS
  <2>1. executed \in Seq(Nat) /\ \A k \in DOMAIN executed : executed[k] = k - 1
    BY DEF LinkInv, LinkTypeOK, ControllerInv
  <2>2. \A k \in 1 .. Len(executed) - 1 : executed[k] < executed[k + 1]
    BY <2>1
  <2> QED
    BY <2>1, <2>2 DEF ExecutedInOrder
<1> QED
  BY <1>1, LinkSpecInv, PTL

\* Neither the cumulative acknowledgement nor the one a reject implies ever marks a packet
\* the controller has not executed.
THEOREM AcknowledgedAlwaysExecuted ==
  LinkSpec /\ ~protoErrors /\ TimelyClears => []AcknowledgedWereExecuted
<1>1. LinkInv => AcknowledgedWereExecuted
  <2> SUFFICES ASSUME LinkInv, NEW i \in Slot, slots[i].occupied, slots[i].acknowledged
               PROVE  \E k \in DOMAIN executed : executed[k] = slots[i].sendOrder
    BY DEF AcknowledgedWereExecuted
  <2>1. executed \in Seq(Nat) /\ \A k \in DOMAIN executed : executed[k] = k - 1
    BY DEF LinkInv, LinkTypeOK, ControllerInv
  <2>2. slots[i].sendOrder \in Nat /\ slots[i].sendOrder < Len(executed)
    BY SlotFieldTypes DEF LinkInv, FlowIInv, AckedInv
  <2>3. slots[i].sendOrder + 1 \in DOMAIN executed
    BY <2>1, <2>2
  <2>4. executed[slots[i].sendOrder + 1] = slots[i].sendOrder
    BY <2>1, <2>2, <2>3
  <2> QED
    BY <2>3, <2>4
<1> QED
  BY <1>1, LinkSpecInv, PTL

\* The one thing FlowControl assumes of an acknowledgement is what this controller sends.
THEOREM AcksAlwaysAnswerable ==
  LinkSpec /\ ~protoErrors /\ TimelyClears => []AcksAreAnswerable
<1>1. LinkInv => AcksAreAnswerable
  <2> SUFFICES ASSUME LinkInv, toHost # <<>>, Head(toHost).kind = "o"
               PROVE  Answerable(Head(toHost).sequence)
    BY DEF AcksAreAnswerable
  <2>1. PICK b \in Nat : FrontOK(b)
                         /\ AnswersOK(toHost, nextSequence, sentCount, Len(executed), b)
    BY DEF LinkInv, LineInv
  <2> QED
    BY <2>1, HeadAnswerable
<1> QED
  BY <1>1, LinkSpecInv, PTL

\* So what FlowControl promises under that assumption holds of the whole link.
THEOREM LinkKeepsLookup ==
  LinkSpec /\ ~protoErrors /\ TimelyClears => [](LookupSound /\ ResendRunUnbroken)
<1>1. LinkInv => LookupSound /\ ResendRunUnbroken
  BY DEF LinkInv, FlowIInv
<1> QED
  BY <1>1, LinkSpecInv, PTL
=============================================================================
