---------------------------- MODULE TlvWalkProofs ----------------------------
(***************************************************************************)
(* The walks of qmi-util.c tell what was received, for every order of TLVs,*)
(* whatever the last length says, and for any size of the receive buffer.  *)
(***************************************************************************)
EXTENDS TlvWalk, FiniteSetTheorems, TLAPS

LEMMA Sixteen ==
  /\ \A x \in Nat : x % Word \in Nat /\ x % Word < Word
  /\ \A x \in Nat : x < Word => x % Word = x
<1>1. ASSUME NEW x \in Nat PROVE x % Word \in Nat /\ x % Word < Word
  BY DEF Word
<1>2. ASSUME NEW x \in Nat, x < Word PROVE x % Word = x
  BY <1>2 DEF Word
<1> QED
  BY <1>1, <1>2

LEMMA WrappedSum ==
  ASSUME NEW a \in Nat, NEW b \in Nat
  PROVE  (a + Tlv + b) % Word \in Nat
<1>1. a + Tlv + b \in Nat
  BY DEF Tlv
<1> QED
  BY <1>1, Sixteen

LEMMA CapacityFacts ==
  /\ Capacity \in Nat /\ Capacity < Word - EINVAL /\ Capacity < Word
  /\ ResultCodes \subseteq Nat
<1>1. Capacity \in Nat /\ Capacity < Word - EINVAL /\ ResultCodes \subseteq Nat
  BY TlvAssumption
<1> QED
  BY <1>1 DEF Word, EINVAL

\* What the walk knows of the message, in numbers.
LEMMA MessageFacts ==
  ASSUME NEW m, WellFormed(m)
  PROVE  /\ Len(m.id) \in Nat /\ DOMAIN m.id = 1 .. Len(m.id)
         /\ Len(m.start) = Len(m.id) + 1
         /\ \A k \in 1 .. Len(m.id) + 1 : m.start[k] \in Nat /\ m.start[k] < Word
         /\ \A k \in 1 .. Len(m.id) : m.len[k] \in Nat
         /\ \A k \in 1 .. Len(m.id) :
              k < Len(m.id) => m.start[k + 1] = m.start[k] + Tlv + m.len[k]
         /\ \A j, k \in 1 .. Len(m.id) + 1 : j < k => m.start[j] < m.start[k]
         /\ Size(m) \in Nat /\ Received(m) \in Nat /\ Received(m) < Word
         /\ m.start[1] = Header
<1> DEFINE n == Len(m.id)
<1>1. n \in Nat /\ DOMAIN m.id = 1 .. n /\ Len(m.len) = n /\ Len(m.start) = n + 1
  BY DEF WellFormed
<1>2. \A k \in 1 .. n + 1 : m.start[k] \in Nat
  <2>1. m.start \in Seq(Nat)
    BY DEF WellFormed
  <2> QED
    BY <1>1, <2>1
<1>3. \A k \in 1 .. n : m.len[k] \in Nat
  <2>1. m.len \in Seq(Nat)
    BY DEF WellFormed
  <2> QED
    BY <1>1, <2>1
<1>4. \A j, k \in 1 .. n + 1 : j < k => m.start[j] < m.start[k]
  BY DEF WellFormed
<1>5. m.start[n + 1] < Word
  BY DEF WellFormed
<1>6. \A k \in 1 .. n + 1 : m.start[k] < Word
  <2> SUFFICES ASSUME NEW k \in 1 .. n + 1 PROVE m.start[k] < Word
    OBVIOUS
  <2>1. CASE k = n + 1
    BY <1>5, <2>1
  <2>2. CASE k # n + 1
    <3>1. k < n + 1 /\ n + 1 \in 1 .. n + 1
      BY <1>1, <2>2
    <3>2. m.start[k] < m.start[n + 1] /\ m.start[k] \in Nat /\ m.start[n + 1] \in Nat
      BY <1>2, <1>4, <3>1
    <3> QED
      BY <1>5, <3>2 DEF Word
  <2> QED
    BY <2>1, <2>2
<1>7. Size(m) \in Nat /\ Size(m) < Word
  BY <1>1, <1>2, <1>5 DEF Size
<1>8. Received(m) \in Nat /\ Received(m) < Word
  BY <1>7, CapacityFacts DEF Received, Word
<1> QED
  BY <1>1, <1>2, <1>3, <1>4, <1>6, <1>7, <1>8 DEF WellFormed

\* The cursor is on a TLV, and all of those before it were passed.
LEMMA AtTheNext ==
  ASSUME WalkInv, NEW k, At(k)
  PROVE  /\ k \in 1 .. Len(message.id)
         /\ k \in Tlvs(message) /\ cur_byte = message.start[k]
         /\ \A j \in 1 .. Len(message.id) : j < k => ~Matches(message, call, j)
         /\ ~Loops(message) /\ call.op = "count_tlvs_in_message" => num_tlvs = k - 1
         /\ NextByte(k) = LeadsTo(message, k)
<1> DEFINE n == Len(message.id)
<1>0. WellFormed(message)
  BY DEF WalkInv
<1>1. /\ n \in Nat /\ DOMAIN message.id = 1 .. n
      /\ \A j \in 1 .. n + 1 : message.start[j] \in Nat
      /\ \A j \in 1 .. n : message.len[j] \in Nat
      /\ \A i, j \in 1 .. n + 1 : i < j => message.start[i] < message.start[j]
  BY <1>0, MessageFacts
<1>2. k \in 1 .. n /\ cur_byte = message.start[k] /\ k \in Tlvs(message)
  BY <1>1 DEF At, Walking, Tlvs
<1>3. PICK i \in 1 .. n + 1 :
         /\ cur_byte = message.start[i]
         /\ \A j \in 1 .. n : j < i => ~Matches(message, call, j)
         /\ ~Loops(message) /\ call.op = "count_tlvs_in_message" => num_tlvs = i - 1
  BY <1>1 DEF WalkInv, At, Walking
<1>4. i = k
  <2>1. k \in 1 .. n + 1 /\ i \in 1 .. n + 1 /\ message.start[i] = message.start[k]
    BY <1>1, <1>2, <1>3
  <2> HIDE DEF n
  <2>2. ~(i < k)
    BY <1>1, <2>1
  <2>3. ~(k < i)
    BY <1>1, <2>1
  <2> QED
    BY <1>1, <2>1, <2>2, <2>3
<1>5. NextByte(k) = LeadsTo(message, k)
  <2>1. message.start[k] \in Nat /\ message.len[k] \in Nat
    BY <1>1, <1>2
  <2>2. cur_byte + message.len[k] + Tlv = message.start[k] + Tlv + message.len[k]
    BY <1>2, <2>1 DEF Tlv
  <2> QED
    BY <2>2 DEF NextByte, LeadsTo
<1> QED
  BY <1>2, <1>3, <1>4, <1>5

\* Where it leads: a TLV but the last to the next one.
LEMMA NextTlv ==
  ASSUME NEW m, WellFormed(m), NEW k \in 1 .. Len(m.id)
  PROVE  /\ LeadsTo(m, k) \in Nat
         /\ k < Len(m.id) => LeadsTo(m, k) = m.start[k + 1]
         /\ k = Len(m.id) /\ k \in Tlvs(m) =>
              \/ LeadsTo(m, k) = 0
              \/ LeadsTo(m, k) > Received(m)
              \/ \E j \in 1 .. Len(m.id) + 1 : LeadsTo(m, k) = m.start[j]
         /\ m.start[k] + Tlv + m.len[k] = m.start[k + 1] =>
              LeadsTo(m, k) = m.start[k + 1]
<1>1. /\ Len(m.id) \in Nat /\ m.start[k] \in Nat /\ m.len[k] \in Nat
      /\ m.start[k + 1] \in Nat /\ m.start[k + 1] < Word
      /\ k < Len(m.id) => m.start[k + 1] = m.start[k] + Tlv + m.len[k]
  <2> DEFINE n == Len(m.id)
  <2>1. /\ n \in Nat
        /\ \A j \in 1 .. n + 1 : m.start[j] \in Nat /\ m.start[j] < Word
        /\ \A j \in 1 .. n : m.len[j] \in Nat
    BY MessageFacts
  <2>2. \A j \in 1 .. n : j < n => m.start[j + 1] = m.start[j] + Tlv + m.len[j]
    BY DEF WellFormed
  <2> HIDE DEF n
  <2>3. k \in 1 .. n + 1 /\ k + 1 \in 1 .. n + 1 /\ k \in 1 .. n
    BY <2>1 DEF n
  <2>4. n = Len(m.id)
    BY DEF n
  <2> QED
    BY <2>1, <2>2, <2>3, <2>4
<1>2. LeadsTo(m, k) \in Nat
  <2>1. m.start[k] \in Nat /\ m.len[k] \in Nat
    BY <1>1
  <2> QED
    BY <2>1, WrappedSum DEF LeadsTo
<1>3. m.start[k] + Tlv + m.len[k] = m.start[k + 1] => LeadsTo(m, k) = m.start[k + 1]
  BY <1>1, Sixteen DEF LeadsTo
<1>4. k \in Tlvs(m) => m.start[k] < Capacity
  BY <1>1, CapacityFacts, MessageFacts DEF Tlvs, Received
<1>5. k = Len(m.id) /\ k \in Tlvs(m) =>
              \/ LeadsTo(m, k) = 0
              \/ LeadsTo(m, k) > Received(m)
              \/ \E j \in 1 .. Len(m.id) + 1 : LeadsTo(m, k) = m.start[j]
  BY <1>1, <1>4 DEF WellFormed
<1> QED
  BY <1>1, <1>2, <1>3, <1>5

\* What begins in the part that was received, once that part ends behind TLV k.
LEMMA TlvsReceived ==
  ASSUME NEW m, WellFormed(m), NEW k \in 0 .. Len(m.id),
         k > 0 => m.start[k] < Received(m),
         m.start[k + 1] >= Received(m)
  PROVE  Tlvs(m) = 1 .. k
<1> DEFINE n == Len(m.id)
<1>1. /\ n \in Nat /\ DOMAIN m.id = 1 .. n /\ Received(m) \in Nat
      /\ \A j \in 1 .. n + 1 : m.start[j] \in Nat
      /\ \A i, j \in 1 .. n + 1 : i < j => m.start[i] < m.start[j]
  BY MessageFacts
<1> HIDE DEF n
<1>2. k \in 0 .. n /\ k + 1 \in 1 .. n + 1
  BY <1>1 DEF n
<1>3. ASSUME NEW j \in 1 .. n
      PROVE  m.start[j] < Received(m) <=> j <= k
  <2>1. CASE j <= k
    <3>1. j = k \/ m.start[j] < m.start[k]
      BY <1>1, <1>2, <2>1
    <3> QED
      BY <1>1, <1>2, <2>1, <3>1
  <2>2. CASE j > k
    <3>1. j = k + 1 \/ m.start[k + 1] < m.start[j]
      BY <1>1, <1>2, <2>2
    <3> QED
      BY <1>1, <1>2, <2>2, <3>1
  <2> QED
    BY <1>1, <1>2, <2>1, <2>2
<1> QED
  BY <1>1, <1>2, <1>3 DEF Tlvs

LEMMA InitialWalk == Init => WalkInv
<1> SUFFICES ASSUME Init PROVE WalkInv
  OBVIOUS
<1>1. WellFormed(message)
  BY TlvAssumption DEF Init
<1>2. /\ Len(message.id) \in Nat /\ message.start[1] = Header
      /\ \A j \in 1 .. Len(message.id) + 1 : message.start[j] \in Nat
  BY <1>1, MessageFacts
<1>3. Loops(message) => 1 <= Len(message.id)
  BY <1>2 DEF Loops
<1>4. \E k \in 1 .. Len(message.id) + 1 :
         /\ cur_byte = message.start[k]
         /\ \A j \in 1 .. Len(message.id) : j < k => ~Matches(message, call, j)
         /\ k > 1 => cur_byte <= Received(message)
         /\ IF Loops(message)
            THEN k <= Len(message.id)
            ELSE call.op = "count_tlvs_in_message" => num_tlvs = k - 1
  <2> WITNESS 1 \in 1 .. Len(message.id) + 1
  <2> QED
    BY <1>2, <1>3 DEF Init
<1> QED
  BY <1>1, <1>4 DEF Init, WalkInv, Running, Word

-----------------------------------------------------------------------------
(* One lemma per way a walk goes on or ends.                               *)

Inv == WalkInv /\ ReturnsTellTheMessage

LEMMA RefuseSmallKeeps ==
  ASSUME Inv, RefuseSmall
  PROVE  Inv'
  BY DEF Inv, WalkInv, ReturnsTellTheMessage, RefuseSmall, Return, FindsTheTlv, CountsTheTlvs,
     TellsTheResult, Running, Returned, TooSmall, Received, QMI_RESULT_FAILURE,
     QMI_RESULT_SUCCESS, Calls, Matches

\* The first TLV that matches is the one under the cursor: all before it did not.
LEMMA FoundIsFirst ==
  ASSUME WalkInv, NEW k, At(k), Matches(message, call, k)
  PROVE  First(Candidates, k)
<1>1. /\ k \in Tlvs(message) /\ k \in 1 .. Len(message.id)
      /\ \A j \in 1 .. Len(message.id) : j < k => ~Matches(message, call, j)
  BY AtTheNext
<1>2. Tlvs(message) \subseteq 1 .. Len(message.id) /\ Len(message.id) \in Nat
  BY MessageFacts DEF WalkInv, Tlvs
<1>3. ASSUME NEW j \in Candidates PROVE k <= j
  BY <1>1, <1>2, <1>3 DEF Candidates
<1> QED
  BY <1>1, <1>3 DEF First, Candidates

LEMMA FoundKeeps ==
  ASSUME Inv, NEW k, Found(k)
  PROVE  Inv'
<1>1. At(k) /\ Matches(message, call, k) /\ First(Candidates, k)
  BY FoundIsFirst DEF Found, Inv
<1>2. UNCHANGED <<message, call, cur_byte, num_tlvs>>
  BY DEF Found, Return
<1>3. /\ k \in DOMAIN message.id /\ cur_byte = message.start[k] /\ cur_byte \in Nat
  <2>1. WellFormed(message)
    BY DEF Inv, WalkInv
  <2>2. /\ Len(message.id) \in Nat
        /\ \A j \in 1 .. Len(message.id) + 1 : message.start[j] \in Nat
    BY <2>1, MessageFacts
  <2>3. k \in 1 .. Len(message.id)
    BY <1>1, AtTheNext DEF Inv
  <2> QED
    BY <1>1, <2>2, <2>3 DEF At
<1>4. CASE call.op = "get_tlv_offset_by_id"
  <2>1. result' = cur_byte
    BY <1>4 DEF Found, Return
  <2>2. WalkInv'
    BY <1>2, <1>3, <2>1 DEF Inv, WalkInv, Running
  <2>3. FindsTheTlv'
    BY <1>1, <1>2, <1>3, <2>1 DEF FindsTheTlv, Candidates, First
  <2> QED
    BY <1>2, <1>4, <2>2, <2>3 DEF Inv, ReturnsTellTheMessage, CountsTheTlvs, TellsTheResult
<1>5. CASE call.op # "get_tlv_offset_by_id"
  <2>1. call.op = "did_qmi_op_fail"
    BY <1>1, <1>5 DEF Matches
  <2>2. PICK r \in IF cur_byte + Header <= Received(message)
                   THEN {message.result} ELSE ResultCodes : result' = r
    BY <1>5 DEF Found, Return
  <2>3. message.result \in ResultCodes
    BY DEF Inv, WalkInv, WellFormed
  <2>4. result' \in Int /\ result' # Running
    <3>1. r \in ResultCodes
      BY <2>2, <2>3
    <3> QED
      BY <2>2, <3>1, CapacityFacts DEF Running
  <2>5. WalkInv'
    BY <1>2, <2>4 DEF Inv, WalkInv
  <2>6. Received(message) \in Nat
    BY MessageFacts DEF Inv, WalkInv
  <2>7. result' = message.result \/ message.start[k] + Header > Received(message)
    BY <2>2, <2>6, <1>3 DEF Header
  <2>8. TellsTheResult'
    BY <1>1, <1>2, <1>3, <2>7 DEF TellsTheResult, Candidates, First
  <2> QED
    BY <1>2, <2>1, <2>5, <2>8 DEF Inv, ReturnsTellTheMessage, CountsTheTlvs, FindsTheTlv
<1> QED
  BY <1>4, <1>5

LEMMA PassOverKeeps ==
  ASSUME Inv, NEW k, PassOver(k)
  PROVE  Inv'
<1> DEFINE n == Len(message.id)
           On(i) == /\ cur_byte' = message.start[i]
                    /\ \A j \in 1 .. n : j < i => ~Matches(message, call, j)
                    /\ IF Loops(message)
                       THEN i <= n
                       ELSE call.op = "count_tlvs_in_message" => num_tlvs' = i - 1
<1>1. /\ k \in 1 .. n /\ k \in Tlvs(message) /\ ~Matches(message, call, k)
      /\ \A j \in 1 .. n : j < k => ~Matches(message, call, j)
      /\ ~Loops(message) /\ call.op = "count_tlvs_in_message" => num_tlvs = k - 1
      /\ cur_byte' = LeadsTo(message, k) /\ num_tlvs' = Counted
      /\ LeadsTo(message, k) > 0 /\ LeadsTo(message, k) <= Received(message)
      /\ UNCHANGED <<message, call, result>> /\ result = Running
  BY AtTheNext DEF PassOver, Inv, At, Walking
<1>2. /\ WellFormed(message) /\ num_tlvs \in Nat /\ num_tlvs < Word
      /\ n \in Nat /\ n < Word /\ Received(message) \in Nat
      /\ \A j \in 1 .. n + 1 : message.start[j] \in Nat
      /\ \A i, j \in 1 .. n + 1 : i < j => message.start[i] < message.start[j]
  BY MessageFacts DEF Inv, WalkInv, WellFormed
<1> HIDE DEF n
<1>3. num_tlvs' \in Nat /\ num_tlvs' < Word
  BY <1>1, <1>2, Sixteen DEF Counted
<1>4. ~Loops(message) /\ call.op = "count_tlvs_in_message" => num_tlvs' = k
  <2>1. k \in Nat /\ k < Word
    BY <1>1, <1>2 DEF Word
  <2>2. k % Word = k
    BY <2>1, Sixteen
  <2>3. (k - 1) + 1 = k
    BY <2>1
  <2> QED
    BY <1>1, <2>2, <2>3 DEF Counted
<1>5. \A j \in 1 .. n : j <= k => ~Matches(message, call, j)
  BY <1>1
<1>6. \E i \in 1 .. n + 1 : On(i)
  <2>1. CASE k < n
    <3>1. cur_byte' = message.start[k + 1] /\ k + 1 \in 1 .. n + 1 /\ k + 1 <= n
      BY <1>1, <1>2, <2>1, NextTlv DEF n
    <3>2. On(k + 1)
      BY <1>1, <1>2, <1>4, <1>5, <3>1
    <3> QED
      BY <3>1, <3>2
  <2>2. CASE k = n
    <3>1. PICK j \in 1 .. n + 1 : LeadsTo(message, k) = message.start[j]
      <4>1. LeadsTo(message, k) \in Nat
        BY <1>1, <1>2, NextTlv DEF n
      <4>2. ~(LeadsTo(message, k) = 0) /\ ~(LeadsTo(message, k) > Received(message))
        BY <1>1, <1>2, <4>1
      <4> QED
        BY <1>1, <1>2, <2>2, <4>2, NextTlv DEF n
    <3>2. CASE j <= n
      <4>1. j \in 1 .. n /\ message.start[n] < Received(message) /\ n > 0
        BY <1>1, <1>2, <2>2, <3>2 DEF Tlvs
      <4>2. Loops(message)
        BY <2>2, <3>1, <4>1 DEF Loops, n
      <4>3. On(j)
        BY <1>1, <1>2, <1>5, <2>2, <3>1, <4>1, <4>2
      <4> QED
        BY <4>3
    <3>3. CASE j = n + 1
      <4>1. ~Loops(message)
        <5> SUFFICES ASSUME NEW i \in 1 .. n, LeadsTo(message, n) = message.start[i]
                     PROVE  FALSE
          BY DEF Loops, n
        <5>1. i \in 1 .. n + 1 /\ n + 1 \in 1 .. n + 1 /\ i < n + 1
          BY <1>2
        <5>2. message.start[i] < message.start[n + 1] /\ message.start[i] \in Nat
          BY <1>2, <5>1
        <5> QED
          BY <2>2, <3>1, <3>3, <5>2
      <4>2. On(n + 1)
        BY <1>1, <1>2, <1>4, <1>5, <2>2, <3>1, <3>3, <4>1
      <4> QED
        BY <3>3, <4>2
    <3> QED
      BY <1>2, <3>2, <3>3
  <2> QED
    BY <1>1, <1>2, <2>1, <2>2
<1>7. PICK i \in 1 .. n + 1 : On(i)
  BY <1>6
<1>8. Loops(message)' = Loops(message)
  BY <1>1
<1>9. /\ cur_byte' = message'.start[i]
      /\ \A j \in 1 .. Len(message'.id) : j < i => ~Matches(message', call', j)
      /\ i > 1 => cur_byte' <= Received(message')
      /\ IF Loops(message')
         THEN i <= Len(message'.id)
         ELSE call'.op = "count_tlvs_in_message" => num_tlvs' = i - 1
  BY <1>1, <1>7 DEF n
<1>10. WalkInv'
  BY <1>1, <1>2, <1>3, <1>7, <1>9 DEF Inv, WalkInv, n
<1>11. ReturnsTellTheMessage'
  BY <1>1 DEF ReturnsTellTheMessage, FindsTheTlv, CountsTheTlvs, TellsTheResult, Returned
<1> QED
  BY <1>10, <1>11 DEF Inv

\* Nothing that was received matches, and k TLVs were.
LEMMA NothingFound ==
  ASSUME WalkInv, NEW k \in Nat, Tlvs(message) = 1 .. k,
         \A j \in 1 .. k : ~Matches(message, call, j)
  PROVE  Candidates = {} /\ Cardinality(Tlvs(message)) = k
<1>1. Cardinality(1 .. k) = k
  BY FS_Interval
<1> QED
  BY <1>1 DEF Candidates

LEMMA LeadPastKeeps ==
  ASSUME Inv, NEW k, LeadPast(k)
  PROVE  Inv'
<1> DEFINE n == Len(message.id)
<1>1. /\ k \in 1 .. n /\ k \in Tlvs(message) /\ ~Matches(message, call, k)
      /\ \A j \in 1 .. n : j < k => ~Matches(message, call, j)
      /\ ~Loops(message) /\ call.op = "count_tlvs_in_message" => num_tlvs = k - 1
      /\ LeadsTo(message, k) <= 0 \/ LeadsTo(message, k) > Received(message)
      /\ num_tlvs' = Counted /\ result' = PastTheEnd(call, Counted)
      /\ UNCHANGED <<message, call, cur_byte>> /\ result = Running
      /\ ~TooSmall(message)
  BY AtTheNext DEF LeadPast, Return, Inv, At, Walking
<1>2. /\ WellFormed(message) /\ num_tlvs \in Nat /\ num_tlvs < Word /\ call \in Calls
      /\ n \in Nat /\ n < Word /\ Received(message) \in Nat /\ Received(message) <= Capacity
      /\ Received(message) <= message.start[n + 1]
      /\ \A j \in 1 .. n + 1 : message.start[j] \in Nat
      /\ \A i, j \in 1 .. n + 1 : i < j => message.start[i] < message.start[j]
      /\ message.start[1] = Header
  <2>1. WellFormed(message)
    BY <1>1 DEF Inv, WalkInv
  <2>2. Size(message) = message.start[n + 1] /\ Size(message) \in Nat
    BY <2>1, MessageFacts DEF Size
  <2>3. Received(message) <= Capacity /\ Received(message) <= message.start[n + 1]
    BY <2>2, CapacityFacts DEF Received
  <2> QED
    BY <2>1, <2>3, MessageFacts DEF Inv, WalkInv, WellFormed
<1>3. /\ LeadsTo(message, k) \in Nat
      /\ k < n => LeadsTo(message, k) = message.start[k + 1]
      /\ message.start[k] + Tlv + message.len[k] = message.start[k + 1] =>
           LeadsTo(message, k) = message.start[k + 1]
  BY <1>1, <1>2, NextTlv
<1> HIDE DEF n
<1>4. message.start[k] \in Nat /\ message.start[k + 1] \in Nat /\ message.start[k + 1] > 0
  <2>1. k \in 1 .. n + 1 /\ k + 1 \in 1 .. n + 1 /\ k < k + 1
    BY <1>1, <1>2
  <2>2. message.start[k] < message.start[k + 1] /\ message.start[k] \in Nat
        /\ message.start[k + 1] \in Nat
    BY <1>2, <2>1
  <2> QED
    BY <2>2
<1>5. message.start[k] < Received(message) /\ message.start[k + 1] >= Received(message)
  <2>1. CASE k < n
    BY <1>1, <1>2, <1>3, <1>4, <2>1 DEF Tlvs
  <2>2. CASE k = n
    BY <1>1, <1>2, <2>2 DEF Tlvs
  <2> QED
    BY <1>1, <1>2, <2>1, <2>2
<1>6. Tlvs(message) = 1 .. k
  <2>1. k \in 0 .. n
    BY <1>1, <1>2
  <2> QED
    BY <1>2, <1>5, <2>1, TlvsReceived DEF n
<1>7. Candidates = {} /\ Cardinality(Tlvs(message)) = k
  <2>1. k \in Nat /\ \A j \in 1 .. k : ~Matches(message, call, j)
    BY <1>1, <1>2
  <2> QED
    BY <1>6, <2>1, NothingFound DEF Inv
<1>8. ~Whole(message)
  <2> SUFFICES ASSUME Whole(message) PROVE FALSE
    OBVIOUS
  <2>1. /\ message.start[k] + Tlv + message.len[k] = message.start[k + 1]
        /\ message.start[k + 1] <= Received(message)
    BY <1>1 DEF Whole
  <2> QED
    BY <1>1, <1>2, <1>3, <1>4, <2>1
<1>9. ~Loops(message)
  <2> SUFFICES ASSUME n > 0, message.start[n] < Received(message),
                      NEW j \in 1 .. n, LeadsTo(message, n) = message.start[j]
               PROVE  FALSE
    BY DEF Loops, n
  <2>1. k = n
    <3> SUFFICES ASSUME k < n PROVE FALSE
      BY <1>1, <1>2
    <3>1. k + 1 \in 1 .. n + 1 /\ n \in 1 .. n + 1 /\ (k + 1 = n \/ k + 1 < n)
      BY <1>1, <1>2
    <3>2. message.start[k + 1] = message.start[n] \/ message.start[k + 1] < message.start[n]
      BY <1>2, <3>1
    <3> QED
      BY <1>2, <1>4, <1>5, <3>1, <3>2
  <2>2. message.start[j] > 0 /\ message.start[j] < Received(message)
    <3>1. /\ j \in 1 .. n + 1 /\ n \in 1 .. n + 1 /\ 1 \in 1 .. n + 1
          /\ j = n \/ j < n
          /\ j = 1 \/ 1 < j
      BY <1>2
    <3>2. message.start[j] = message.start[n] \/ message.start[j] < message.start[n]
      BY <1>2, <3>1
    <3>3. message.start[j] = Header \/ Header < message.start[j]
      BY <1>2, <3>1
    <3>4. message.start[j] \in Nat /\ message.start[n] \in Nat
      BY <1>2, <3>1
    <3> QED
      BY <1>2, <3>2, <3>3, <3>4 DEF Header
  <2> QED
    BY <1>1, <1>2, <1>3, <2>1, <2>2
<1>10. num_tlvs' \in Nat /\ num_tlvs' < Word
       /\ Counted \in Nat
       /\ (call.op = "count_tlvs_in_message" => Counted = k)
  <2>1. num_tlvs' \in Nat /\ num_tlvs' < Word /\ Counted \in Nat
    BY <1>1, <1>2, Sixteen DEF Counted
  <2>2. k \in Nat /\ k < Word /\ (k - 1) + 1 = k
    BY <1>1, <1>2 DEF Word
  <2>3. k % Word = k
    BY <2>2, Sixteen
  <2> QED
    BY <1>1, <1>9, <2>1, <2>2, <2>3 DEF Counted
<1>11. WalkInv'
  <2>1. PastTheEnd(call, Counted) \in Nat
    BY <1>10 DEF PastTheEnd, Word, EINVAL, QMI_RESULT_FAILURE
  <2>2. result' \in Int /\ result' # Running
    BY <1>1, <2>1 DEF Running
  <2> QED
    BY <1>1, <1>2, <1>10, <2>2 DEF Inv, WalkInv
<1>12. Candidates' = Candidates /\ TooSmall(message)' = TooSmall(message)
      /\ Whole(message)' = Whole(message) /\ Tlvs(message)' = Tlvs(message)
      /\ Received(message)' = Received(message)
  BY <1>1 DEF Candidates, TooSmall, Whole, Tlvs
<1>13. CASE call.op = "get_tlv_offset_by_id"
  <2>1. result' = Word - EINVAL
    BY <1>1, <1>13 DEF PastTheEnd
  <2>2. result' > Received(message)
    BY <1>2, <2>1, CapacityFacts DEF Word, EINVAL
  <2> QED
    BY <1>1, <1>7, <1>8, <1>11, <1>12, <1>13, <2>2 DEF Inv, ReturnsTellTheMessage,
       FindsTheTlv, CountsTheTlvs, TellsTheResult
<1>14. CASE call.op = "did_qmi_op_fail"
  <2>1. result' = QMI_RESULT_FAILURE
    BY <1>1, <1>14 DEF PastTheEnd
  <2>2. TellsTheResult'
    BY <1>7, <1>8, <1>12, <2>1 DEF TellsTheResult, QMI_RESULT_FAILURE, QMI_RESULT_SUCCESS
  <2> QED
    BY <1>1, <1>11, <1>14, <2>2 DEF Inv, ReturnsTellTheMessage, FindsTheTlv, CountsTheTlvs
<1>15. CASE call.op = "count_tlvs_in_message"
  <2>1. result' = k
    BY <1>1, <1>10, <1>15 DEF PastTheEnd
  <2> QED
    BY <1>1, <1>7, <1>11, <1>12, <1>15, <2>1 DEF Inv, ReturnsTellTheMessage, FindsTheTlv,
       CountsTheTlvs, TellsTheResult
<1> QED
  BY <1>2, <1>13, <1>14, <1>15 DEF Calls

LEMMA ReachEndKeeps ==
  ASSUME Inv, ReachEnd
  PROVE  Inv'
<1> DEFINE n == Len(message.id)
<1>1. /\ result = Running /\ ~TooSmall(message) /\ cur_byte >= Received(message)
      /\ UNCHANGED <<message, call, cur_byte, num_tlvs>>
      /\ result' = CASE call.op = "get_tlv_offset_by_id" -> 0
                     [] call.op = "did_qmi_op_fail" -> QMI_RESULT_UNKNOWN
                     [] OTHER -> num_tlvs
  BY DEF ReachEnd, Return
<1>2. /\ WellFormed(message) /\ call \in Calls /\ num_tlvs \in Nat /\ num_tlvs < Word
  BY <1>1 DEF Inv, WalkInv
<1>3. PICK i \in 1 .. n + 1 :
        /\ cur_byte = message.start[i]
        /\ \A j \in 1 .. n : j < i => ~Matches(message, call, j)
        /\ i > 1 => cur_byte <= Received(message)
        /\ IF Loops(message)
           THEN i <= n
           ELSE call.op = "count_tlvs_in_message" => num_tlvs = i - 1
  BY <1>1 DEF Inv, WalkInv
<1>4. /\ n \in Nat /\ Received(message) \in Nat
      /\ \A j \in 1 .. n + 1 : message.start[j] \in Nat
      /\ \A j, k \in 1 .. n + 1 : j < k => message.start[j] < message.start[k]
      /\ message.start[1] = Header
  BY <1>2, MessageFacts
<1> HIDE DEF n
<1>5. i > 1
  BY <1>1, <1>3, <1>4 DEF TooSmall, Header
<1> DEFINE k == i - 1
<1>6. k \in 1 .. n /\ k \in 0 .. n /\ k \in Nat /\ k + 1 = i
  BY <1>3, <1>4, <1>5
<1> HIDE DEF k
<1>7. message.start[i] = Received(message) /\ message.start[k] < Received(message)
  <2>1. message.start[i] = Received(message)
    BY <1>1, <1>3, <1>4, <1>5
  <2>2. k \in 1 .. n + 1 /\ k < i
    BY <1>4, <1>6
  <2>3. message.start[k] < message.start[i]
    BY <1>3, <1>4, <2>2
  <2> QED
    BY <2>1, <2>3
<1>8. Tlvs(message) = 1 .. k
  BY <1>2, <1>4, <1>6, <1>7, TlvsReceived DEF n
<1>9. Candidates = {} /\ Cardinality(Tlvs(message)) = k
  <2>1. \A j \in 1 .. k : ~Matches(message, call, j)
    BY <1>3, <1>4, <1>6
  <2> QED
    BY <1>6, <1>8, <2>1, NothingFound DEF Inv
<1>10. ~Loops(message)
  <2> SUFFICES ASSUME i <= n, message.start[n] < Received(message)
               PROVE  FALSE
    BY <1>3 DEF Loops, n
  <2>1. n \in 1 .. n + 1 /\ (i = n \/ i < n)
    BY <1>3, <1>4
  <2>2. message.start[i] = message.start[n] \/ message.start[i] < message.start[n]
    BY <1>3, <1>4, <2>1
  <2> QED
    BY <1>4, <1>7, <2>1, <2>2
<1>11. call.op = "count_tlvs_in_message" => num_tlvs = k
  BY <1>3, <1>6, <1>10
<1>12. WalkInv'
  BY <1>1, <1>2 DEF Inv, WalkInv, Running, QMI_RESULT_UNKNOWN
<1>13. Candidates' = Candidates /\ TooSmall(message)' = TooSmall(message)
      /\ Whole(message)' = Whole(message) /\ Tlvs(message)' = Tlvs(message)
  BY <1>1 DEF Candidates, TooSmall, Whole, Tlvs
<1>14. CASE call.op = "get_tlv_offset_by_id"
  BY <1>1, <1>9, <1>12, <1>13, <1>14 DEF Inv, ReturnsTellTheMessage, FindsTheTlv,
     CountsTheTlvs, TellsTheResult
<1>15. CASE call.op = "did_qmi_op_fail"
  <2>1. result' = QMI_RESULT_UNKNOWN
    BY <1>1, <1>15
  <2>2. TellsTheResult'
    BY <1>9, <1>13, <2>1 DEF TellsTheResult, QMI_RESULT_UNKNOWN, QMI_RESULT_SUCCESS
  <2> QED
    BY <1>1, <1>12, <1>15, <2>2 DEF Inv, ReturnsTellTheMessage, FindsTheTlv, CountsTheTlvs
<1>16. CASE call.op = "count_tlvs_in_message"
  <2>1. result' = k
    BY <1>1, <1>11, <1>16
  <2> QED
    BY <1>1, <1>9, <1>12, <1>13, <1>16, <2>1 DEF Inv, ReturnsTellTheMessage, FindsTheTlv,
       CountsTheTlvs, TellsTheResult
<1> QED
  BY <1>2, <1>14, <1>15, <1>16 DEF Calls

-----------------------------------------------------------------------------
(* The theorems.                                                           *)

LEMMA InitialInv == Init => Inv
  BY InitialWalk DEF Init, Inv, ReturnsTellTheMessage, FindsTheTlv,
     CountsTheTlvs, TellsTheResult, Returned

LEMMA WalkStep == Inv /\ [Next]_vars => Inv'
<1> SUFFICES ASSUME Inv, [Next]_vars PROVE Inv'
  OBVIOUS
<1>1. CASE UNCHANGED vars
  BY <1>1 DEF vars, Inv, WalkInv, ReturnsTellTheMessage, FindsTheTlv, CountsTheTlvs,
     TellsTheResult,
     Returned, Candidates
<1>2. CASE Next
  BY <1>2, RefuseSmallKeeps, FoundKeeps, PassOverKeeps, LeadPastKeeps, ReachEndKeeps DEF Next
<1> QED
  BY <1>1, <1>2

\* Whatever the last length says, the cursor never leaves the TLVs: it is on one
\* of them or at the end, none of those before it is the one looked for, and as
\* long as the walk does not go round they are what was counted.
THEOREM WalkInvTheorem == Spec => []WalkInv
<1>1. Inv => WalkInv
  BY DEF Inv
<1> QED
  BY <1>1, InitialInv, WalkStep, PTL DEF Spec

\* What the three functions return tells what was received, for messages that
\* are whole, cut, or whose last length leads anywhere, wrapping or not.
THEOREM ReturnsTheorem == Spec => []ReturnsTellTheMessage
<1>1. Inv => ReturnsTellTheMessage
  BY DEF Inv
<1> QED
  BY <1>1, InitialInv, WalkStep, PTL DEF Spec

\* The sixteen bit cursor goes from TLV to TLV and never back, unless the last
\* length leads back exactly onto a TLV: of the sums that wrap, the test at
\* qmi-util.c:72 stops the walk at those that give 0 only.
THEOREM RecordWalkTheorem ==
  ASSUME \A m \in Messages : ~Loops(m)
  PROVE  Spec => ImplementsRecordWalk
<1> DEFINE J == Inv /\ message \in Messages
<1>1. Init => Walk!Init
  <2> SUFFICES ASSUME Init PROVE Walk!Init
    OBVIOUS
  <2>1. message.start[1] = Header
    BY TlvAssumption, MessageFacts DEF Init
  <2> QED
    BY <2>1 DEF Init, Walk!Init
<1>2. ASSUME J, [Next]_vars
      PROVE  [Walk!Next]_Walk!vars
  <2>1. ASSUME NEW k \in DOMAIN message.id, PassOver(k) PROVE Walk!Next
    <3> DEFINE n == Len(message.id)
    <3>1. /\ k \in 1 .. n /\ k \in Tlvs(message) /\ cur_byte = message.start[k]
          /\ cur_byte' = LeadsTo(message, k) /\ message' = message /\ call' = call
          /\ LeadsTo(message, k) > 0 /\ LeadsTo(message, k) <= Received(message)
      BY <1>2, <2>1, AtTheNext DEF PassOver, Inv
    <3>2. /\ WellFormed(message) /\ Len(message.start) = n + 1 /\ n \in Nat
          /\ Received(message) \in Nat
      BY <1>2, MessageFacts DEF Inv, WalkInv
    <3>3. k \in 1 .. Len(message.start) - 1
      BY <3>1, <3>2
    <3>4. LeadsTo(message, k) = message.start[k + 1]
      <4>1. CASE k < n
        BY <3>1, <3>2, <4>1, NextTlv
      <4>2. CASE k = n
        <5>1. LeadsTo(message, k) \in Nat
          BY <3>1, <3>2, NextTlv
        <5>2. PICK j \in 1 .. n + 1 : LeadsTo(message, k) = message.start[j]
          <6>1. ~(LeadsTo(message, k) = 0) /\ ~(LeadsTo(message, k) > Received(message))
            BY <3>1, <3>2, <5>1
          <6> QED
            BY <3>1, <3>2, <4>2, <6>1, NextTlv
        <5>3. j = n + 1
          <6> SUFFICES ASSUME j \in 1 .. n PROVE FALSE
            BY <3>2
          <6>1. message.start[n] < Received(message) /\ n > 0
            BY <3>1, <3>2, <4>2 DEF Tlvs
          <6>2. Loops(message)
            BY <4>2, <5>2, <6>1 DEF Loops
          <6> QED
            BY <1>2, <6>2
        <5> QED
          BY <4>2, <5>2, <5>3
      <4> QED
        BY <3>1, <3>2, <4>1, <4>2
    <3> QED
      BY <3>1, <3>3, <3>4 DEF Walk!Next, Walk!Advance
  <2>2. CASE UNCHANGED <<message, call, cur_byte>>
    BY <2>2 DEF Walk!vars
  <2>3. CASE ~UNCHANGED <<message, call, cur_byte>>
    BY <1>2, <2>1, <2>3 DEF Next, vars, RefuseSmall, Found, LeadPast, ReachEnd, Return
  <2> QED
    BY <2>2, <2>3
<1>3. Init => J
  BY InitialInv DEF Init
<1>4. J /\ [Next]_vars => J'
  BY WalkStep DEF Next, vars, RefuseSmall, Found, PassOver, LeadPast, ReachEnd, Return
<1> QED
  BY <1>1, <1>2, <1>3, <1>4, PTL DEF Spec, ImplementsRecordWalk, Walk!Spec
=============================================================================
