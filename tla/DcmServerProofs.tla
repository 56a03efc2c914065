--------------------------- MODULE DcmServerProofs ---------------------------
(***************************************************************************)
(* Proofs about DcmServer for any number of clients and SIM slots. The     *)
(* invariant behind them ties PDP_Session to the last request of each      *)
(* slot: an activated slot's session knows its slot, holds what its last   *)
(* request carried and was answered, and any other one still says slot 0.  *)
(***************************************************************************)
EXTENDS DcmServer, TLAPS

SessionsFollowRequests ==
  \A i \in SimSlots :
    /\ ~Activated(i) => PDP_Session[i].slot_id = 0
    /\ Activated(i) =>
         /\ PDP_Session[i].slot_id = i
         /\ answered[i] =
              <<PDP_Session[i].pdp_sequence_id, PDP_Session[i].pdp_instance_id>>
         /\ asked[i].sequence # Absent =>
              PDP_Session[i].pdp_sequence_id = asked[i].sequence % 256
         /\ asked[i].instance # Absent =>
              PDP_Session[i].pdp_instance_id = asked[i].instance

\* The PDP sequences fit the uint8_t they are read through.
NarrowSequences == Sequences32 \subseteq 0 .. 255

ConstantAssumptions == SlotsAssumption /\ TlvAssumption /\ NoRequestAssumption

-----------------------------------------------------------------------------
\* Helpers: the slot of a request is one of the server's slots, and storing a
\* request keeps a session well typed.
LEMMA SlotOfType ==
  ASSUME NEW m \in ActivateRequests
  PROVE  /\ SlotOf(m) \in SimSlots
         /\ m.slot # Absent => SlotOf(m) = m.slot
         /\ m.slot = Absent => SlotOf(m) = 0
<1>1. 0 \in SimSlots
  BY SlotsAssumption DEF SimSlots
<1> QED
  BY <1>1 DEF ActivateRequests, SlotOf, Given, Optional

PdpSessions == [internal_pdp_id : {0}, pdp_sequence_id : Nat,
                pdp_instance_id : Nat, slot_id : SimSlots]

LEMMA StoreRequestType ==
  ASSUME NEW m \in ActivateRequests, NEW session \in PdpSessions
  PROVE  /\ StoreRequest(session, m) \in PdpSessions
         /\ m.slot # Absent => StoreRequest(session, m).slot_id = m.slot
         /\ m.slot = Absent => StoreRequest(session, m).slot_id = session.slot_id
         /\ m.sequence # Absent =>
              StoreRequest(session, m).pdp_sequence_id = m.sequence % 256
         /\ m.instance # Absent =>
              StoreRequest(session, m).pdp_instance_id = m.instance
<1>1. m.sequence # Absent => m.sequence % 256 \in Nat
  <2>1. m.sequence # Absent => m.sequence \in Nat
    BY TlvAssumption DEF ActivateRequests, Optional
  <2>2. \A n \in Nat : n % 256 \in Nat
    OBVIOUS
  <2> QED
    BY <2>1, <2>2
<1>2. m.instance # Absent => m.instance \in Nat
  BY TlvAssumption DEF ActivateRequests, Optional
<1>3. m.slot # Absent => m.slot \in SimSlots
  BY DEF ActivateRequests, Optional
<1>4. StoreRequest(session, m) \in PdpSessions
  <2> DEFINE q == IF m.sequence = Absent THEN session.pdp_sequence_id
                  ELSE m.sequence % 256
             s == Given(m.slot, session.slot_id)
             i == Given(m.instance, session.pdp_instance_id)
  <2>1. q \in Nat /\ s \in SimSlots /\ i \in Nat
    BY <1>1, <1>2, <1>3 DEF Given, PdpSessions
  <2>2. StoreRequest(session, m) =
          [session EXCEPT !.pdp_sequence_id = q, !.slot_id = s, !.pdp_instance_id = i]
    BY DEF StoreRequest
  <2> HIDE DEF q, s, i
  <2> QED
    BY <2>1, <2>2 DEF PdpSessions
<1>5. /\ m.slot # Absent => StoreRequest(session, m).slot_id = m.slot
      /\ m.slot = Absent => StoreRequest(session, m).slot_id = session.slot_id
  BY DEF StoreRequest, Given, PdpSessions
<1>6. m.sequence # Absent =>
        StoreRequest(session, m).pdp_sequence_id = m.sequence % 256
  BY DEF StoreRequest, PdpSessions
<1>7. m.instance # Absent => StoreRequest(session, m).pdp_instance_id = m.instance
  BY DEF StoreRequest, Given, PdpSessions
<1> QED
  BY <1>4, <1>5, <1>6, <1>7

-----------------------------------------------------------------------------
\* Type correctness: in particular the transaction id stays in 1..99 and a
\* session's slot id names a slot.
THEOREM TypeCorrect == Spec => []TypeOK
<1>1. Init => TypeOK
  BY SlotsAssumption DEF Init, TypeOK, SimSlots
<1>2. TypeOK /\ [Next]_vars => TypeOK'
  <2> SUFFICES ASSUME TypeOK, [Next]_vars PROVE TypeOK'
    OBVIOUS
  <2> USE DEF TypeOK
  <2>1. ASSUME NEW m \in ActivateRequests, PdpActivate(m) PROVE TypeOK'
    <3>1. StoreRequest(PDP_Session[SlotOf(m)], m) \in PdpSessions
      BY SlotOfType, StoreRequestType DEF PdpSessions
    <3>2. m.client \in Clients
      BY DEF ActivateRequests
    <3> QED
      BY <2>1, <3>1, <3>2, SlotOfType DEF PdpActivate, Answer, RememberClient, PdpSessions
  <2>2. ASSUME NEW c \in Clients, NEW msgid \in Plain, NEW txn \in TransactionIds,
               PlainRequest(c, msgid, txn)
        PROVE TypeOK'
    BY <2>2 DEF PlainRequest, RememberClient, history
  <2>3. ASSUME NEW c \in Clients, UnknownRequest(c) PROVE TypeOK'
    BY <2>3 DEF UnknownRequest, RememberClient, history
  <2>4. ASSUME NEW slot \in SimSlots, NEW ip \in Addresses, Notify(slot, ip) PROVE TypeOK'
    BY <2>4 DEF Notify, NextTransactionId
  <2>5. CASE UNCHANGED vars
    BY <2>5 DEF vars, history
  <2> QED
    BY <2>1, <2>2, <2>3, <2>4, <2>5 DEF Next, Request
<1> QED
  BY <1>1, <1>2, PTL DEF Spec

\* Two consecutive indications have different transaction ids, across the wrap
\* from 99 to 1 too.
THEOREM TransactionIdsDiffer == Spec => FreshTransactionIds
<1>1. TypeOK /\ [Next]_vars =>
        [\A msg \in Indications' : msg.txn # transaction_id /\ msg.txn \in 1 .. 99]_vars
  <2> SUFFICES ASSUME TypeOK, Next, NEW msg \in Indications'
               PROVE  msg.txn # transaction_id /\ msg.txn \in 1 .. 99
    OBVIOUS
  <2>1. ASSUME NEW slot \in SimSlots, NEW ip \in Addresses, Notify(slot, ip)
        PROVE  msg.txn = NextTransactionId
    BY <2>1 DEF Notify, Indications
  <2>2. ASSUME NEW m \in ActivateRequests, PdpActivate(m) PROVE FALSE
    BY <2>2 DEF PdpActivate, Answer, Indications
  <2>3. ASSUME NEW c \in Clients, NEW msgid \in Plain, NEW txn \in TransactionIds,
               PlainRequest(c, msgid, txn)
        PROVE FALSE
    BY <2>3 DEF PlainRequest, Indications
  <2>4. ASSUME NEW c \in Clients, UnknownRequest(c) PROVE FALSE
    BY <2>4 DEF UnknownRequest, Indications
  <2>5. NextTransactionId # transaction_id /\ NextTransactionId \in 1 .. 99
    BY DEF TypeOK, NextTransactionId
  <2> QED
    BY <2>1, <2>2, <2>3, <2>4, <2>5 DEF Next, Request
<1> QED
  BY <1>1, TypeCorrect, PTL DEF Spec, FreshTransactionIds

-----------------------------------------------------------------------------
\* What activation requests leave in PDP_Session, whatever their order and
\* whichever TLVs they lack.
LEMMA SessionsInvariant == Spec => []SessionsFollowRequests
<1>1. Init => SessionsFollowRequests
  BY DEF Init, SessionsFollowRequests, Activated
<1>2. TypeOK /\ SessionsFollowRequests /\ [Next]_vars => SessionsFollowRequests'
  <2> SUFFICES ASSUME TypeOK, SessionsFollowRequests, [Next]_vars
               PROVE  SessionsFollowRequests'
    OBVIOUS
  <2>1. ASSUME NEW m \in ActivateRequests, PdpActivate(m)
        PROVE  SessionsFollowRequests'
    <3> DEFINE slot == SlotOf(m)
               stored == StoreRequest(PDP_Session[slot], m)
    <3>1. slot \in SimSlots
      BY SlotOfType
    <3>2. PDP_Session[slot] \in PdpSessions
      BY <3>1 DEF TypeOK, PdpSessions
    <3>3. stored.slot_id = slot
      <4>1. CASE m.slot # Absent
        BY <4>1, <3>2, StoreRequestType, SlotOfType
      <4>2. CASE m.slot = Absent
        <5>1. slot = 0 /\ stored.slot_id = PDP_Session[slot].slot_id
          BY <4>2, <3>2, StoreRequestType, SlotOfType
        <5> QED
          BY <5>1, <3>1 DEF SessionsFollowRequests
      <4> QED
        BY <4>1, <4>2
    <3>4. /\ m.sequence # Absent => stored.pdp_sequence_id = m.sequence % 256
          /\ m.instance # Absent => stored.pdp_instance_id = m.instance
      BY <3>2, StoreRequestType
    <3>5. /\ PDP_Session' = [PDP_Session EXCEPT ![slot] = stored]
          /\ asked' = [asked EXCEPT ![slot] = m]
          /\ answered' = [answered EXCEPT ![slot] =
                           <<stored.pdp_sequence_id, stored.pdp_instance_id>>]
      BY <2>1 DEF PdpActivate, Answer
    <3>6. m # NoRequest
      BY NoRequestAssumption
    <3> HIDE DEF slot, stored
    <3> SUFFICES ASSUME NEW i \in SimSlots
                 PROVE  /\ asked'[i] = NoRequest => PDP_Session'[i].slot_id = 0
                        /\ asked'[i] # NoRequest =>
                             /\ PDP_Session'[i].slot_id = i
                             /\ answered'[i] = <<PDP_Session'[i].pdp_sequence_id,
                                                 PDP_Session'[i].pdp_instance_id>>
                             /\ asked'[i].sequence # Absent =>
                                  PDP_Session'[i].pdp_sequence_id
                                    = asked'[i].sequence % 256
                             /\ asked'[i].instance # Absent =>
                                  PDP_Session'[i].pdp_instance_id
                                    = asked'[i].instance
      BY DEF SessionsFollowRequests, Activated
    <3>7. CASE i = slot
      <4>1. /\ PDP_Session'[i] = stored /\ asked'[i] = m
            /\ answered'[i] = <<stored.pdp_sequence_id, stored.pdp_instance_id>>
        BY <3>5, <3>7 DEF TypeOK
      <4> QED
        BY <4>1, <3>3, <3>4, <3>6, <3>7
    <3>8. CASE i # slot
      <4>1. /\ PDP_Session'[i] = PDP_Session[i] /\ asked'[i] = asked[i]
            /\ answered'[i] = answered[i]
        BY <3>5, <3>8 DEF TypeOK
      <4> QED
        BY <4>1 DEF SessionsFollowRequests, Activated
    <3> QED
      BY <3>7, <3>8
  <2>2. CASE UNCHANGED <<PDP_Session, asked, answered>>
    BY <2>2 DEF SessionsFollowRequests, Activated
  <2> QED
    BY <2>1, <2>2 DEF Next, Request, PlainRequest, UnknownRequest, Notify, vars, history
<1> QED
  BY <1>1, <1>2, TypeCorrect, PTL DEF Spec

\* An indication carries its slot's own request once every later slot has been
\* activated: the search of notify_pdp_ipaddress_change then ends at the slot
\* itself.
LEMMA SearchEndsAtSlot ==
  ASSUME TypeOK, SessionsFollowRequests, NEW slot \in SimSlots, Activated(slot),
         \A j \in SimSlots : j > slot => Activated(j)
  PROVE  slot \in Matching(slot) /\ Last(Matching(slot)) = slot
<1>1. slot \in Matching(slot)
  BY DEF Matching, SessionsFollowRequests
<1>2. \A j \in Matching(slot) : j <= slot
  <2> SUFFICES ASSUME NEW j \in SimSlots, PDP_Session[j].slot_id = slot, j > slot
               PROVE  FALSE
    BY DEF Matching, SimSlots
  <2> QED
    BY DEF SessionsFollowRequests, SimSlots
<1>3. \A i \in Matching(slot) : (\A j \in Matching(slot) : j <= i) => i = slot
  BY <1>1, <1>2 DEF Matching, SimSlots
<1> QED
  BY <1>1, <1>2, <1>3 DEF Last

\* What an indication carries, if later slots are active, is its slot's session.
LEMMA IndicatedSession ==
  ASSUME TypeOK, SessionsFollowRequests, NEW slot \in SimSlots, NEW ip \in Addresses,
         Activated(slot), Notify(slot, ip),
         \A j \in SimSlots : j > slot => Activated(j), NEW msg \in Indications'
  PROVE  /\ msg.sequence = PDP_Session[slot].pdp_sequence_id
         /\ msg.instance = PDP_Session[slot].pdp_instance_id
<1>1. slot \in Matching(slot) /\ Last(Matching(slot)) = slot
  BY SearchEndsAtSlot
<1> QED
  BY <1>1 DEF Notify, Indications

\* Only the step that announces an active slot's address makes indications.
LEMMA IndicationStep ==
  ASSUME Next, Indications' # {}
  PROVE  \E slot \in SimSlots, ip \in Addresses : Activated(slot) /\ Notify(slot, ip)
<1>1. ASSUME NEW m \in ActivateRequests, PdpActivate(m) PROVE FALSE
  BY <1>1 DEF PdpActivate, Answer, Indications
<1>2. ASSUME NEW c \in Clients, NEW msgid \in Plain, NEW txn \in TransactionIds,
             PlainRequest(c, msgid, txn)
      PROVE FALSE
  BY <1>2 DEF PlainRequest, Indications
<1>3. ASSUME NEW c \in Clients, UnknownRequest(c) PROVE FALSE
  BY <1>3 DEF UnknownRequest, Indications
<1> QED
  BY <1>1, <1>2, <1>3 DEF Next, Request

\* The answer to an activation and the indications it leads to agree on sequence
\* and instance, for any values of the TLVs and any order of the requests of all
\* clients and slots.
THEOREM AnswerTheorem == Spec => []IndicatesWhatItAnswered
<1>1. Init => IndicatesWhatItAnswered
  BY DEF Init, IndicatesWhatItAnswered, Indications
<1>2. TypeOK /\ SessionsFollowRequests /\ IndicatesWhatItAnswered
        /\ [Next]_vars => IndicatesWhatItAnswered'
  <2> SUFFICES ASSUME TypeOK, SessionsFollowRequests, IndicatesWhatItAnswered,
                      [Next]_vars
               PROVE  IndicatesWhatItAnswered'
    OBVIOUS
  <2>1. CASE Next /\ Indications' # {}
    <3>1. PICK slot \in SimSlots, ip \in Addresses : Activated(slot) /\ Notify(slot, ip)
      BY <2>1, IndicationStep
    <3>2. subject' = slot /\ asked' = asked /\ answered' = answered
      BY <3>1 DEF Notify
    <3> SUFFICES ASSUME \A j \in SimSlots : j > slot => Activated(j),
                        NEW msg \in Indications'
                 PROVE  <<msg.sequence, msg.instance>> = answered[slot]
      BY <3>2 DEF IndicatesWhatItAnswered, Activated
    <3> QED
      BY <3>1, IndicatedSession DEF SessionsFollowRequests
  <2>2. CASE Indications' = {}
    BY <2>2 DEF IndicatesWhatItAnswered
  <2>3. CASE UNCHANGED vars
    BY <2>3 DEF vars, history, IndicatesWhatItAnswered, Indications, Activated
  <2> QED
    BY <2>1, <2>2, <2>3
<1> QED
  BY <1>1, <1>2, TypeCorrect, SessionsInvariant, PTL DEF Spec

\* As long as the sequences fit the byte they are read into, an indication even
\* carries the values of the request itself.
THEOREM IndicationTheorem ==
  ASSUME NarrowSequences
  PROVE  Spec => []IndicatesOwnRequestOnceAllActive
<1>1. Init => IndicatesOwnRequestOnceAllActive
  BY DEF Init, IndicatesOwnRequestOnceAllActive, Indications
<1>2. TypeOK /\ SessionsFollowRequests /\ IndicatesOwnRequestOnceAllActive
        /\ [Next]_vars => IndicatesOwnRequestOnceAllActive'
  <2> SUFFICES ASSUME TypeOK, SessionsFollowRequests,
                      IndicatesOwnRequestOnceAllActive, [Next]_vars
               PROVE  IndicatesOwnRequestOnceAllActive'
    OBVIOUS
  <2>1. CASE Next /\ Indications' # {}
    <3>1. PICK slot \in SimSlots, ip \in Addresses : Activated(slot) /\ Notify(slot, ip)
      BY <2>1, IndicationStep
    <3>2. subject' = slot /\ asked' = asked
      BY <3>1 DEF Notify
    <3> SUFFICES ASSUME \A j \in SimSlots : j > slot => Activated(j),
                        NEW msg \in Indications'
                 PROVE  Echoes(msg, asked[slot])
      BY <3>2 DEF IndicatesOwnRequestOnceAllActive, Activated, Echoes
    <3>3. /\ msg.sequence = PDP_Session[slot].pdp_sequence_id
          /\ msg.instance = PDP_Session[slot].pdp_instance_id
      BY <3>1, IndicatedSession
    <3>4. asked[slot] \in ActivateRequests
      BY <3>1 DEF TypeOK, Activated
    <3>5. asked[slot].sequence # Absent => asked[slot].sequence \in 0 .. 255
      BY <3>4, NarrowSequences DEF ActivateRequests, Optional, NarrowSequences
    <3>6. \A n \in 0 .. 255 : n % 256 = n
      OBVIOUS
    <3> QED
      BY <3>1, <3>3, <3>5, <3>6 DEF SessionsFollowRequests, Echoes
  <2>2. CASE Indications' = {}
    BY <2>2 DEF IndicatesOwnRequestOnceAllActive
  <2>3. CASE UNCHANGED vars
    BY <2>3 DEF vars, history, IndicatesOwnRequestOnceAllActive, Indications,
                Activated, Echoes
  <2> QED
    BY <2>1, <2>2, <2>3
<1> QED
  BY <1>1, <1>2, TypeCorrect, SessionsInvariant, PTL DEF Spec
=============================================================================
