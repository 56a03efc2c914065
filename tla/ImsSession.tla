----------------------------- MODULE ImsSession -----------------------------
(***************************************************************************)
(* The two components that bring up the IMS data session, together: DCM    *)
(* (DcmServer) hands an activation request to the session of the slot      *)
(* (WdsSession) within the handler of the request, and the session's last  *)
(* timer tick has DCM send the indications. Both run on one main loop, so  *)
(* each of these calls is part of one step.                                *)
(*                                                                         *)
(* Names without a prefix are the session's; those of DCM are D!X.         *)
(***************************************************************************)
EXTENDS WdsSession

CONSTANTS
  Clients, MaxSimSlots, Sequences32, Instances, TransactionIds, Absent,
  NoRequest,
  RequestSlots   \* the slot TLVs activation requests carry

VARIABLES
  clients, transaction_id, PDP_Session, out, asked, answered, subject

\* What DCM is handed is whatever string the buffer of a session holds.
Strings == {CString(buffer) : buffer \in [1 .. IpLen -> Byte]}

D == INSTANCE DcmServer WITH Addresses <- Strings, MaxIndications <- 100

\* The slots are DCM's, and its own assumptions hold.
ASSUME ImsSlotsAssumption ==
  /\ MaxSimSlots \in Nat \ {0}
  /\ Slots = 0 .. MaxSimSlots - 1
  /\ RequestSlots \in SUBSET (Slots \cup {Absent})

ASSUME ImsTlvAssumption ==
  /\ Sequences32 \in SUBSET Nat
  /\ Instances \in SUBSET Nat
  /\ Absent \notin Nat
  /\ NoRequest \notin D!ActivateRequests

dcmVars == <<clients, transaction_id, PDP_Session, out, asked, answered, subject>>
imsVars == <<vars, dcmVars>>

ImsInit == Init /\ D!Init

\* Mutant: the session of the first slot is started for every request.
Activate_FirstSlot(m) ==
  /\ m.slot \in RequestSlots
  /\ InitiateSession(0)
  /\ D!PdpActivate(m)

\* handle_incoming_qrtr_request with IMS_DCM_PDP_ACTIVATE
Activate(m) ==
  /\ m.slot \in RequestSlots
  /\ InitiateSession(D!SlotOf(m))
  /\ D!PdpActivate(m)

\* handle_incoming_qrtr_request with any other message
OtherRequest(c) ==
  /\ process = "running"
  /\ \/ \E msgid \in D!Plain, txn \in TransactionIds : D!PlainRequest(c, msgid, txn)
     \/ D!UnknownRequest(c)
  /\ UNCHANGED vars

\* Mutant: the address of the first slot is announced for every slot.
Announce_FirstSlot(s) ==
  /\ TickFinished(s)
  /\ D!Notify(s, CString(session[0].ip_address))

\* The tick at WDS_CONNECTION_STATE_FINISHED calls notify_pdp_ipaddress_change.
Announce(s) ==
  /\ TickFinished(s)
  /\ D!Notify(s, CString(session[s].ip_address))

\* Everything else the session does concerns DCM only through process exit.
SessionStep(s) ==
  /\ \/ AllocateClientReady(s)
     \/ QuietTick(s)
     \/ \E r \in Requests : Callback(s, r)
  /\ UNCHANGED dcmVars

ImsNext ==
  \/ \E m \in D!ActivateRequests : Activate(m)
  \/ \E c \in Clients : OtherRequest(c)
  \/ \E s \in Slots : Announce(s) \/ SessionStep(s)

ImsSpec == ImsInit /\ [][ImsNext]_imsVars

-----------------------------------------------------------------------------
\* An indication about a slot carries an address, and it is the one the modem
\* reported last for that slot, not the other slot's.
IndicatesGrantedAddress ==
  [][\A s \in Slots : Announce(s) =>
       \A msg \in D!Indications' : msg.ip \in IpAddrs /\ msg.ip = granted[s]]_imsVars

Phase(s) ==
  IF notified[s] > 0 THEN "announced"
  ELSE IF network[s] # NoNet THEN "connected"
  ELSE IF asked[s] # NoRequest THEN "requested"
  ELSE "idle"

P == INSTANCE PdpService WITH phase <- [s \in Slots |-> Phase(s)]

\* With answers before the next tick the two components together give the modem
\* the service it expects.
ImplementsPdpService == P!Spec

-----------------------------------------------------------------------------
\* The session's fairness without faults; requests are the modem's to send or
\* not.
ImsFairness == \A s \in Slots : WF_imsVars(Announce(s) \/ SessionStep(s))

ImsFairSpec == ImsSpec /\ ImsFairness

\* The modem that asked for a slot's connection is sent an indication with the
\* sequence and instance of its request and an address, once every later slot
\* has been asked for too (see IndicatesOwnRequestOnceAllActive).
ActivationIsIndicated ==
  \A s \in Slots :
    (\A j \in Slots : j >= s => D!Activated(j)) /\ notified[s] = 0 ~>
      /\ subject = s
      /\ \E msg \in D!Indications : D!Echoes(msg, asked[s]) /\ msg.ip \in IpAddrs
=============================================================================
