------------------------------- MODULE TlvWalk -------------------------------
(***************************************************************************)
(* The walks of qmi-util.c over the TLVs of a QMI message:                 *)
(* get_tlv_offset_by_id, which DCM finds its request fields with, and      *)
(* did_qmi_op_fail and count_tlvs_in_message, which go the same way.       *)
(*                                                                         *)
(* A message is given by its layout: ids, lengths and where each TLV       *)
(* begins. recvfrom (dcm.c) keeps the first Capacity bytes of it, so the   *)
(* last TLV received may be cut. Messages come in any order of TLVs.       *)
(***************************************************************************)
EXTENDS Integers, Sequences, FiniteSets

CONSTANTS
  Messages,    \* the messages a service may be sent
  Ids,         \* TLV ids looked for
  ResultCodes, \* what the result field of a message may hold
  Capacity     \* bytes recvfrom takes (1023)

Word   == 65536                  \* uint16_t
Header == 7                      \* sizeof(struct qmi_packet)
Tlv    == 3                      \* sizeof(struct empty_tlv)
EINVAL == 22

QMI_RESULT_SUCCESS == 0
QMI_RESULT_FAILURE == 1
QMI_RESULT_UNKNOWN == 2

Size(m) == m.start[Len(m.start)]

\* len: what recvfrom returned.
Received(m) == IF Size(m) < Capacity THEN Size(m) ELSE Capacity
Tlvs(m) == {k \in DOMAIN m.id : m.start[k] < Received(m)}

\* Where the length of a TLV leads in sixteen bits.
LeadsTo(m, k) == (m.start[k] + Tlv + m.len[k]) % Word

\* A message some process sent: TLV after TLV, but the length of the last one
\* may say anything. It leads to the end of the message, past what was received,
\* to 0, or back onto a TLV. (Where it leads into the middle of a TLV or of the
\* header, or where recvfrom cuts the three bytes of a TLV's header, the walk
\* takes other bytes for a TLV; such messages are left out.)
WellFormed(m) ==
  LET n == Len(m.id) IN
  /\ m.id \in Seq(Nat) /\ m.len \in Seq(Nat) /\ m.start \in Seq(Nat)
  /\ Len(m.len) = n /\ Len(m.start) = n + 1 /\ n < Word
  /\ m.start[1] = Header
  /\ \A k \in 1 .. n : k < n => m.start[k + 1] = m.start[k] + Tlv + m.len[k]
  /\ n > 0 /\ m.start[n] < Capacity =>
       \/ LeadsTo(m, n) = 0
       \/ LeadsTo(m, n) > Received(m)
       \/ \E j \in 1 .. n + 1 : LeadsTo(m, n) = m.start[j]
  /\ \A j, k \in 1 .. n + 1 : j < k => m.start[j] < m.start[k]
  /\ m.start[n + 1] < Word
  /\ \A k \in 1 .. n : /\ m.len[k] < Word
                      /\ m.start[k] < Capacity => m.start[k] + Tlv <= Received(m)
  /\ m.result \in ResultCodes

ASSUME TlvAssumption ==
  /\ Capacity \in Nat /\ Capacity < Word - EINVAL
  /\ Ids \subseteq Nat
  /\ ResultCodes \subseteq Nat /\ \A r \in ResultCodes : r < Word
  /\ \A m \in Messages : WellFormed(m)

VARIABLES
  message,     \* the message that was sent
  call,        \* which of the functions runs, and the id it was given
  cur_byte,    \* the cursor
  num_tlvs,    \* what count_tlvs_in_message has counted
  result       \* what was returned, or Running

vars == <<message, call, cur_byte, num_tlvs, result>>

Running == -1
Calls == [op : {"get_tlv_offset_by_id"}, tlvid : Ids]
           \cup [op : {"did_qmi_op_fail", "count_tlvs_in_message"}, tlvid : {2}]

Init ==
  /\ message \in Messages
  /\ call \in Calls
  /\ cur_byte = Header
  /\ num_tlvs = 0
  /\ result = Running

Return(r) == result' = r /\ UNCHANGED <<message, call, cur_byte>>

TooSmall(m) == Received(m) < Header + 4

\* "Packet is too small"
RefuseSmall ==
  /\ result = Running
  /\ TooSmall(message)
  /\ Return(IF call.op = "did_qmi_op_fail" THEN QMI_RESULT_FAILURE ELSE 0)
  /\ UNCHANGED num_tlvs

\* The loop condition.
Walking == result = Running /\ ~TooSmall(message) /\ cur_byte < Received(message)

\* The TLV under the cursor is number k of the message.
At(k) == Walking /\ k \in DOMAIN message.id /\ cur_byte = message.start[k]

\* What ends the walk of a function that looks for something.
Matches(m, c, k) ==
  \/ c.op = "get_tlv_offset_by_id" /\ m.id[k] = c.tlvid
  \/ c.op = "did_qmi_op_fail" /\ m.id[k] = 2 /\ m.len[k] = 4

Found(k) ==
  /\ At(k)
  /\ Matches(message, call, k)
  /\ IF call.op = "get_tlv_offset_by_id"
     THEN Return(cur_byte)
     ELSE \E r \in IF cur_byte + Header <= Received(message)
                   THEN {message.result} ELSE ResultCodes : Return(r)
  /\ UNCHANGED num_tlvs

\* Mutant: the header's own bytes are not added.
NextByte_NoHeader(k) == (cur_byte + message.len[k]) % Word

\* cur_byte += len + sizeof(uint8_t) + sizeof(uint16_t), in sixteen bits.
NextByte(k) == (cur_byte + message.len[k] + Tlv) % Word

\* num_tlvs++, a uint16_t of count_tlvs_in_message alone.
Counted == IF call.op = "count_tlvs_in_message" THEN (num_tlvs + 1) % Word ELSE num_tlvs

PassOver(k) ==
  /\ At(k)
  /\ ~Matches(message, call, k)
  /\ NextByte(k) > 0 /\ NextByte(k) <= Received(message)
  /\ cur_byte' = NextByte(k)
  /\ num_tlvs' = Counted
  /\ UNCHANGED <<message, call, result>>

\* Mutant: did_qmi_op_fail starts from success instead of failure.
PastTheEnd_Success(c, n) ==
  CASE c.op = "get_tlv_offset_by_id" -> Word - EINVAL
    [] c.op = "did_qmi_op_fail" -> QMI_RESULT_SUCCESS
    [] OTHER -> n

\* What is returned when a length leads past the message: -EINVAL as a
\* uint16_t, a failure, or the TLVs counted, the cut one included.
PastTheEnd(c, n) ==
  CASE c.op = "get_tlv_offset_by_id" -> Word - EINVAL
    [] c.op = "did_qmi_op_fail" -> QMI_RESULT_FAILURE
    [] OTHER -> n

LeadPast(k) ==
  /\ At(k)
  /\ ~Matches(message, call, k)
  /\ NextByte(k) <= 0 \/ NextByte(k) > Received(message)
  /\ num_tlvs' = Counted
  /\ Return(PastTheEnd(call, Counted))

\* The loop is over.
ReachEnd ==
  /\ result = Running
  /\ ~TooSmall(message)
  /\ cur_byte >= Received(message)
  /\ Return(CASE call.op = "get_tlv_offset_by_id" -> 0
              [] call.op = "did_qmi_op_fail" -> QMI_RESULT_UNKNOWN
              [] OTHER -> num_tlvs)
  /\ UNCHANGED num_tlvs

Next ==
  \/ RefuseSmall
  \/ \E k \in DOMAIN message.id : Found(k) \/ PassOver(k) \/ LeadPast(k)
  \/ ReachEnd

Spec == Init /\ [][Next]_vars

-----------------------------------------------------------------------------
Returned == result # Running
First(S, k) == k \in S /\ \A j \in S : k <= j
Candidates == {k \in Tlvs(message) : Matches(message, call, k)}

\* Every TLV that begins in what was received ends there, where its length says.
Whole(m) == \A k \in Tlvs(m) : /\ m.start[k] + Tlv + m.len[k] = m.start[k + 1]
                               /\ m.start[k + 1] <= Received(m)

\* get_tlv_offset_by_id: "Looks for the request TLV, and if found, it returns
\* the offset": of the first TLV with the id, whatever the order of the others
\* and wherever the message was cut. Without one a whole message gives 0, and no
\* message an offset inside what was received.
FindsTheTlv ==
  Returned /\ call.op = "get_tlv_offset_by_id" /\ ~TooSmall(message) =>
    \/ \E k \in DOMAIN message.id : First(Candidates, k) /\ result = message.start[k]
    \/ /\ Candidates = {}
       /\ result = 0 \/ (~Whole(message) /\ result > Received(message))

\* count_tlvs_in_message: every TLV that begins in what was received.
CountsTheTlvs ==
  Returned /\ call.op = "count_tlvs_in_message" /\ ~TooSmall(message) =>
    result = Cardinality(Tlvs(message))

\* did_qmi_op_fail: "returns if the operation succeeded or not": success is
\* reported only for a result TLV that says so (or whose value was cut off), a
\* missing one of a whole message as unknown.
TellsTheResult ==
  Returned /\ call.op = "did_qmi_op_fail" =>
    \/ \E k \in DOMAIN message.id :
         /\ First(Candidates, k)
         /\ result = message.result \/ message.start[k] + Header > Received(message)
    \/ /\ Candidates = {} \/ TooSmall(message)
       /\ result # QMI_RESULT_SUCCESS
       /\ Whole(message) /\ ~TooSmall(message) => result = QMI_RESULT_UNKNOWN

\* Whichever function was called, what it returns tells what was received.
ReturnsTellTheMessage == FindsTheTlv /\ CountsTheTlvs /\ TellsTheResult

\* The cursor goes from TLV to TLV.
Walk == INSTANCE RecordWalk WITH walk <- call, layout <- message.start,
                                position <- cur_byte
ImplementsRecordWalk == Walk!Spec

\* The last length leads back onto a TLV: sixteen bits are no guard against it,
\* and unless a TLV is found the walk goes round for ever (qmi-util.c:71).
Loops(m) ==
  LET n == Len(m.id) IN
  n > 0 /\ m.start[n] < Received(m) /\ \E j \in 1 .. n : LeadsTo(m, n) = m.start[j]

\* The inductive strengthening: the cursor is on a TLV or at the end of the
\* message, none of the TLVs before it is the one looked for, and they were
\* counted, unless the walk went round.
WalkInv ==
  /\ WellFormed(message)
  /\ call \in Calls
  /\ result \in Int
  /\ num_tlvs \in Nat /\ num_tlvs < Word
  /\ result = Running =>
       \E k \in 1 .. Len(message.id) + 1 :
         /\ cur_byte = message.start[k]
         /\ \A j \in 1 .. Len(message.id) : j < k => ~Matches(message, call, j)
         /\ k > 1 => cur_byte <= Received(message)
         /\ IF Loops(message)
            THEN k <= Len(message.id)
            ELSE call.op = "count_tlvs_in_message" => num_tlvs = k - 1
=============================================================================
