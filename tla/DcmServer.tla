----------------------------- MODULE DcmServer ------------------------------
(***************************************************************************)
(* The DCM service of imsd (dcm.c): a QRTR server that the modem asks for  *)
(* a PDP connection. It remembers what each activation request carried,    *)
(* has the data session of the requested slot started, and sends every     *)
(* client it knows an indication once that session has an address.         *)
(*                                                                         *)
(* Requests are well-formed QMI messages; a TLV that is not in a message   *)
(* is Absent. `out' is what the last step sent.                            *)
(***************************************************************************)
EXTENDS Integers, FiniteSets

CONSTANTS
  Clients,       \* QRTR addresses (node, port) that may send requests
  MaxSimSlots,   \* MAX_SIM_SLOTS
  Sequences32,   \* values of the uint32 PDP sequence TLV
  Instances,     \* values of the uint32 PDP instance TLV
  TransactionIds,\* QMI transaction ids of requests
  Addresses,     \* addresses a session may be given
  MaxIndications,\* bound: transaction ids in use before the wrap at 99
  Absent,        \* "the message does not have this TLV"
  NoRequest      \* "there was no request yet"

SimSlots == 0 .. MaxSimSlots - 1

ASSUME SlotsAssumption == MaxSimSlots \in Nat \ {0}
ASSUME TlvAssumption ==
  /\ Sequences32 \in SUBSET Nat
  /\ Instances \in SUBSET Nat
  /\ Absent \notin Nat

Optional(S) == S \cup {Absent}

\* IMS_DCM_PDP_ACTIVATE, and the requests that only get a generic result.
Plain == {"link_add", "register", "enable_status", "clear"}
ActivateRequests ==
  [client : Clients, txn : TransactionIds, sequence : Optional(Sequences32),
   slot : Optional(SimSlots), instance : Optional(Instances)]

ASSUME NoRequestAssumption == NoRequest \notin ActivateRequests

VARIABLES
  clients,         \* server->clients
  transaction_id,  \* of the last indication
  PDP_Session,     \* what activation requests left behind, per slot
  out,             \* messages the last step sent, each with its receiver
  asked,           \* history: the last activation request for each slot
  answered,        \* history: sequence and instance last answered for each slot
  subject          \* history: the slot `out' is about

history == <<asked, answered, subject>>
vars == <<clients, transaction_id, PDP_Session, out, history>>


TypeOK ==
  /\ clients \in SUBSET Clients
  /\ transaction_id \in 1 .. 99
  /\ PDP_Session \in [SimSlots -> [internal_pdp_id : {0}, pdp_sequence_id : Nat,
                                   pdp_instance_id : Nat, slot_id : SimSlots]]
  /\ asked \in [SimSlots -> ActivateRequests \cup {NoRequest}]
  /\ answered \in [SimSlots -> Nat \X Nat]
  /\ subject \in SimSlots

\* initialize_qmi_server
Init ==
  /\ clients = {}
  /\ transaction_id = 99
  /\ PDP_Session = [i \in SimSlots |-> [internal_pdp_id |-> 0, pdp_sequence_id |-> 0,
                                        pdp_instance_id |-> 0, slot_id |-> 0]]
  /\ out = {}
  /\ asked = [i \in SimSlots |-> NoRequest]
  /\ answered = [i \in SimSlots |-> <<0, 0>>]
  /\ subject = 0

-----------------------------------------------------------------------------
(* The client table is keyed by the socket address through g_int_hash and  *)
(* g_int_equal: they look at the first four bytes, the address family and  *)
(* padding, and not at node and port.                                      *)
Key(c) == "AF_QIPCRTR"

RememberClient(c) ==
  clients' = IF \E d \in clients : Key(d) = Key(c) THEN clients ELSE clients \cup {c}

Given(tlv, old) == IF tlv = Absent THEN old ELSE tlv

\* The slot an activation request is for: the first one if it names none.
SlotOf(m) == Given(m.slot, 0)

\* Mutant: the slot id is not stored.
StoreRequest_NoSlot(session, m) ==
  [session EXCEPT !.pdp_sequence_id = IF m.sequence = Absent THEN @ ELSE m.sequence % 256,
                  !.pdp_instance_id = Given(m.instance, @)]

\* The sequence TLV is read through a uint8_t.
StoreRequest(session, m) ==
  [session EXCEPT
     !.pdp_sequence_id = IF m.sequence = Absent THEN @ ELSE m.sequence % 256,
     !.slot_id         = Given(m.slot, @),
     !.pdp_instance_id = Given(m.instance, @)]

\* The response to an activation is made from the session.
Answer(m, session) ==
  /\ out' = {[to |-> m.client, type |-> "response", msgid |-> "pdp_activate",
              txn |-> m.txn, pdp_id |-> session.internal_pdp_id,
              sequence |-> session.pdp_sequence_id,
              instance |-> session.pdp_instance_id]}
  /\ answered' = [answered EXCEPT ![SlotOf(m)] =
                    <<session.pdp_sequence_id, session.pdp_instance_id>>]

\* Mutant: the response is made before the request's TLVs are stored.
PdpActivate_AnswersFirst(m) ==
  LET slot == SlotOf(m) IN
  /\ RememberClient(m.client)
  /\ PDP_Session' = [PDP_Session EXCEPT ![slot] = StoreRequest(PDP_Session[slot], m)]
  /\ Answer(m, PDP_Session[slot])
  /\ asked' = [asked EXCEPT ![slot] = m]
  /\ subject' = slot
  /\ UNCHANGED transaction_id

\* handle_incoming_qrtr_request, IMS_DCM_PDP_ACTIVATE. The caller of this
\* action also starts the session of SlotOf(m) (request_network_start).
PdpActivate(m) ==
  LET slot    == SlotOf(m)
      session == StoreRequest(PDP_Session[slot], m)
  IN /\ RememberClient(m.client)
     /\ PDP_Session' = [PDP_Session EXCEPT ![slot] = session]
     /\ Answer(m, session)
     /\ asked' = [asked EXCEPT ![slot] = m]
     /\ subject' = slot
     /\ UNCHANGED transaction_id

\* The other requests: a generic success.
PlainRequest(c, msgid, txn) ==
  /\ RememberClient(c)
  /\ out' = {[to |-> c, type |-> "response", msgid |-> msgid, txn |-> txn]}
  /\ UNCHANGED <<transaction_id, PDP_Session, history>>

\* A message id the server does not know: no answer at all.
UnknownRequest(c) ==
  /\ RememberClient(c)
  /\ out' = {}
  /\ UNCHANGED <<transaction_id, PDP_Session, history>>

\* Mutant: no wrap at 99.
NextTransactionId_NoWrap == transaction_id + 1

\* Mutant: no increment.
NextTransactionId_Stuck == IF transaction_id = 99 THEN 1 ELSE transaction_id

NextTransactionId == IF transaction_id = 99 THEN 1 ELSE transaction_id + 1

\* The sessions a slot id matches; a session never activated matches slot 0.
Matching(slot) == {i \in SimSlots : PDP_Session[i].slot_id = slot}

Last(S) == CHOOSE i \in S : \A j \in S : j <= i

\* notify_pdp_ipaddress_change
Notify(slot, ip) ==
  /\ subject' = slot
  /\ IF Matching(slot) = {}
     THEN out' = {} /\ UNCHANGED transaction_id
     ELSE LET session == PDP_Session[Last(Matching(slot))] IN
          /\ transaction_id' = NextTransactionId
          /\ out' = {[to |-> c, type |-> "indication", msgid |-> "pdp_activate",
                      txn |-> NextTransactionId, pdp_id |-> session.internal_pdp_id,
                      sequence |-> session.pdp_sequence_id,
                      instance |-> session.pdp_instance_id, ip |-> ip] : c \in clients}
  /\ UNCHANGED <<clients, PDP_Session, asked, answered>>

Activated(slot) == asked[slot] # NoRequest

Request(c) ==
  \/ \E m \in ActivateRequests : m.client = c /\ PdpActivate(m)
  \/ \E msgid \in Plain, txn \in TransactionIds : PlainRequest(c, msgid, txn)
  \/ UnknownRequest(c)

Next ==
  \/ \E c \in Clients : Request(c)
  \/ /\ transaction_id = 99 \/ transaction_id < MaxIndications
     /\ \E slot \in SimSlots, ip \in Addresses : Activated(slot) /\ Notify(slot, ip)

Spec == Init /\ [][Next]_vars

-----------------------------------------------------------------------------
Indications == {msg \in out : msg.type = "indication"}

\* The values of a request that go back to the modem; for a TLV the request
\* does not have, the server may answer anything.
Echoes(msg, m) ==
  /\ m.sequence # Absent => msg.sequence = m.sequence
  /\ m.instance # Absent => msg.instance = m.instance

\* The indication of a slot's address agrees with the response its activation
\* was given, whichever TLVs the request lacked (the response then mixes its
\* values with those of an earlier one), however wide its sequence was, and
\* whatever was asked for other slots in between, provided every later slot has
\* been activated too (a session that never was matches slot 0).
IndicatesWhatItAnswered ==
  (\A j \in SimSlots : j > subject => Activated(j)) =>
    \A msg \in Indications : <<msg.sequence, msg.instance>> = answered[subject]

\* The indication of a slot's address carries the sequence and the instance of
\* the last activation request for that slot, provided every later slot has
\* been activated too (a session that never was matches slot 0).
IndicatesOwnRequestOnceAllActive ==
  (\A j \in SimSlots : j > subject => Activated(j)) =>
    \A msg \in Indications : Echoes(msg, asked[subject])

\* The same without the proviso: "Sequence, as provided by the activation
\* request", "the PDP Instance we got from the activation request".
IndicatesOwnRequest ==
  \A msg \in Indications : Echoes(msg, asked[subject])

\* Consecutive indications never share a transaction id: the modem can tell a
\* new one from a copy.
FreshTransactionIds ==
  [][\A msg \in Indications' : msg.txn # transaction_id /\ msg.txn \in 1 .. 99]_vars
=============================================================================
