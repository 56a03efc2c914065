-------------------------- MODULE ImsSessionProofs ---------------------------
(***************************************************************************)
(* Proofs about the two components together. Each step of ImsSession is a  *)
(* step of the session or leaves it alone, and likewise for the server, so *)
(* what is proved about the components holds in the system; and the system *)
(* implements PdpService.                                                  *)
(***************************************************************************)
EXTENDS ImsSession, WdsPromptProofs

-----------------------------------------------------------------------------
(* The session inside the system.                                          *)

LEMMA SlotOfType ==
  ASSUME NEW m \in D!ActivateRequests
  PROVE  D!SlotOf(m) \in Slots
BY ImsSlotsAssumption DEF D!ActivateRequests, D!SlotOf, D!Given, D!Optional, D!SimSlots

LEMMA SessionSimulation == [ImsNext]_imsVars => [Next]_vars
<1> SUFFICES ASSUME [ImsNext]_imsVars PROVE [Next]_vars
  OBVIOUS
<1>1. ASSUME NEW m \in D!ActivateRequests, Activate(m) PROVE Next
  BY <1>1, SlotOfType DEF Activate, Next
<1>2. ASSUME NEW c \in Clients, OtherRequest(c) PROVE UNCHANGED vars
  BY <1>2 DEF OtherRequest
<1>3. ASSUME NEW s \in Slots, Announce(s) PROVE Next
  BY <1>3 DEF Announce, Next, Tick
<1>4. ASSUME NEW s \in Slots, SessionStep(s) PROVE Next
  BY <1>4 DEF SessionStep, Next, Tick
<1>5. CASE UNCHANGED imsVars
  BY <1>5 DEF imsVars
<1> QED
  BY <1>1, <1>2, <1>3, <1>4, <1>5 DEF ImsNext

\* The session does in the system what it does alone: every theorem about
\* WdsSession is one about ImsSession.
THEOREM SessionRefinement == ImsSpec => Spec
<1>1. ImsInit => Init
  BY DEF ImsInit
<1> QED
  BY <1>1, SessionSimulation, PTL DEF ImsSpec, Spec

-----------------------------------------------------------------------------
(* The server inside the system. It announces a slot only if it was asked  *)
(* for it, because a slot's timer was armed by an activation.              *)

AskedWhenActive ==
  /\ transaction_id \in 1 .. 99
  /\ DOMAIN asked = Slots
  /\ \A s \in Slots : activations[s] > 0 <=> asked[s] # NoRequest

LEMMA CStringIsString ==
  ASSUME TypeInv, NEW s \in Slots
  PROVE  CString(session[s].ip_address) \in Strings
BY TypeFacts DEF Strings

LEMMA InitAsked == ImsInit => AskedWhenActive
BY ImsSlotsAssumption DEF ImsInit, Init, D!Init, D!SimSlots, AskedWhenActive

LEMMA NextAsked ==
  TypeInv /\ AskedWhenActive /\ [ImsNext]_imsVars => AskedWhenActive'
<1> SUFFICES ASSUME TypeInv, AskedWhenActive, [ImsNext]_imsVars
             PROVE  AskedWhenActive'
  OBVIOUS
<1>1. ASSUME NEW m \in D!ActivateRequests, Activate(m) PROVE AskedWhenActive'
  <2> DEFINE slot == D!SlotOf(m)
  <2>1. slot \in Slots
    BY SlotOfType
  <2>2. /\ activations' = [activations EXCEPT ![slot] = activations[slot] + 1]
        /\ asked' = [asked EXCEPT ![slot] = m]
    BY <1>1 DEF Activate, InitiateSession, D!PdpActivate
  <2>3. m # NoRequest
    BY ImsTlvAssumption
  <2>5. UNCHANGED transaction_id
    BY <1>1 DEF Activate, D!PdpActivate
  <2>4. \A s \in Slots : activations[s] \in Nat /\ DOMAIN activations = Slots
    BY TypeFacts, BoundsAssumption
  <2> HIDE DEF slot
  <2> QED
    BY <2>1, <2>2, <2>3, <2>4, <2>5 DEF AskedWhenActive
<1>2. CASE UNCHANGED <<activations, asked, transaction_id>>
  BY <1>2 DEF AskedWhenActive
<1>3. ASSUME NEW c \in Clients, OtherRequest(c)
      PROVE  UNCHANGED <<activations, asked, transaction_id>>
  BY <1>3 DEF OtherRequest, D!PlainRequest, D!UnknownRequest, D!history, vars, history
<1>4. ASSUME NEW s \in Slots, Announce(s) PROVE AskedWhenActive'
  <2>1. UNCHANGED <<activations, asked>>
    BY <1>4 DEF Announce, TickFinished, D!Notify
  <2>2. transaction_id' \in {transaction_id, D!NextTransactionId}
    BY <1>4 DEF Announce, D!Notify
  <2>3. transaction_id' \in 1 .. 99
    BY <2>2 DEF AskedWhenActive, D!NextTransactionId
  <2> QED
    BY <2>1, <2>3 DEF AskedWhenActive
<1>5. ASSUME NEW s \in Slots, SessionStep(s)
      PROVE  UNCHANGED <<activations, asked, transaction_id>>
  <2>1. UNCHANGED activations
    BY <1>5 DEF SessionStep, AllocateClientReady, QuietTick, TickGetProfiles,
       TickWithoutClient, TickAddProfile, TickModifyProfile, TickProfileReady,
       TickDummy, TickSetupLink, TickBindDataPort, TickStartNetwork, TickWait,
       TickGetSettings, TickStop, TickGiveUp, Callback, GetProfileListReady,
       GetProfileListFailed, GetProfileSettingsReady, GetProfileSettingsFreed,
       AddNewProfileReady, AddNewProfileFailed, ModifyProfileReady,
       SetupLinkReady, SetupLinkFailed, BindMuxDataPortReady,
       BindMuxDataPortFailed, StartNetworkReady, StartNetworkNoReply,
       StartNetworkCallFailed, StartNetworkError, GetCurrentSettingsReady,
       GetCurrentSettingsIncomplete, GetCurrentSettingsFailed, vars, history
  <2> QED
    BY <1>5, <2>1 DEF SessionStep, dcmVars
<1>6. UNCHANGED imsVars => UNCHANGED <<activations, asked, transaction_id>>
  BY DEF imsVars, dcmVars, vars, history
<1> QED
  BY <1>1, <1>2, <1>3, <1>4, <1>5, <1>6 DEF ImsNext

LEMMA AskedInvariant == ImsSpec => []AskedWhenActive
BY InitAsked, NextAsked, SessionRefinement, TypeInvariant, PTL DEF ImsSpec

LEMMA AnnounceFacts ==
  ASSUME TypeInv, OneIndicationPerActivation, NEW s \in Slots, Announce(s)
  PROVE  /\ activations[s] > 0 /\ timers[s] > 0
         /\ notified' = [notified EXCEPT ![s] = notified[s] + 1]
         /\ timers[s] + notified[s] <= activations[s]
         /\ UNCHANGED <<network, granted, asked>>
<1>1. timers[s] > 0 /\ timers[s] + notified[s] <= activations[s]
  BY DEF Announce, TickFinished, Due, OneIndicationPerActivation
<1>2. timers[s] \in Nat /\ notified[s] \in Nat /\ activations[s] \in Nat
  BY TypeFacts
<1> QED
  BY <1>1, <1>2 DEF Announce, TickFinished, D!Notify, external

LEMMA ServerSimulation ==
  TypeInv /\ OneIndicationPerActivation /\ AskedWhenActive /\ [ImsNext]_imsVars
    => [D!Next]_D!vars
<1> SUFFICES ASSUME TypeInv, OneIndicationPerActivation, AskedWhenActive,
                    [ImsNext]_imsVars
             PROVE  [D!Next]_D!vars
  OBVIOUS
<1>1. ASSUME NEW m \in D!ActivateRequests, Activate(m) PROVE D!Next
  <2>1. m.client \in Clients
    BY DEF D!ActivateRequests
  <2> QED
    BY <1>1, <2>1 DEF Activate, D!Next, D!Request
<1>2. ASSUME NEW c \in Clients, OtherRequest(c) PROVE D!Next
  BY <1>2 DEF OtherRequest, D!Next, D!Request
<1>3. ASSUME NEW s \in Slots, Announce(s) PROVE D!Next
  <2>1. transaction_id = 99 \/ transaction_id < 100
    BY DEF AskedWhenActive
  <2>2. D!Activated(s)
    BY <1>3, AnnounceFacts DEF AskedWhenActive, D!Activated
  <2>3. s \in D!SimSlots
    BY ImsSlotsAssumption DEF D!SimSlots
  <2> QED
    BY <1>3, <2>1, <2>2, <2>3, CStringIsString DEF Announce, D!Next
<1>4. ASSUME NEW s \in Slots, SessionStep(s) PROVE UNCHANGED D!vars
  BY <1>4 DEF SessionStep, dcmVars, D!vars, D!history
<1>5. CASE UNCHANGED imsVars
  BY <1>5 DEF imsVars, dcmVars, D!vars, D!history
<1> QED
  BY <1>1, <1>2, <1>3, <1>4, <1>5 DEF ImsNext

\* The server does in the system what it does alone.
THEOREM ServerRefinement == ImsSpec => D!Spec
<1>1. ImsInit => D!Init
  BY DEF ImsInit
<1> QED
  BY <1>1, ServerSimulation, SessionRefinement, TypeInvariant, OneIndicationTheorem,
     AskedInvariant, PTL DEF ImsSpec, D!Spec

DP == INSTANCE DcmServerProofs WITH Addresses <- Strings, MaxIndications <- 100

LEMMA SameServer == D!Spec <=> DP!Spec
<1>1. D!Init <=> DP!Init
  BY DEF D!Init, DP!Init, D!SimSlots, DP!SimSlots
<1>3. /\ D!ActivateRequests = DP!ActivateRequests
      /\ D!SimSlots = DP!SimSlots /\ D!Plain = DP!Plain
  BY DEF D!ActivateRequests, DP!ActivateRequests, D!Optional, DP!Optional,
     D!SimSlots, DP!SimSlots, D!Plain, DP!Plain
<1>4. \A c : D!RememberClient(c) <=> DP!RememberClient(c)
  BY DEF D!RememberClient, DP!RememberClient, D!Key, DP!Key
<1>5. \A m : D!PdpActivate(m) <=> DP!PdpActivate(m)
  <2>1. ASSUME NEW m PROVE D!SlotOf(m) = DP!SlotOf(m)
    BY DEF D!SlotOf, DP!SlotOf, D!Given, DP!Given
  <2>2. ASSUME NEW s, NEW m PROVE D!StoreRequest(s, m) = DP!StoreRequest(s, m)
    BY DEF D!StoreRequest, DP!StoreRequest, D!Given, DP!Given
  <2> QED
    BY <1>4, <2>1, <2>2 DEF D!PdpActivate, DP!PdpActivate, D!Answer, DP!Answer
<1>6. \A c, msgid, txn : D!PlainRequest(c, msgid, txn) <=> DP!PlainRequest(c, msgid, txn)
  BY <1>4 DEF D!PlainRequest, DP!PlainRequest, D!history, DP!history
<1>7. \A c : D!UnknownRequest(c) <=> DP!UnknownRequest(c)
  BY <1>4 DEF D!UnknownRequest, DP!UnknownRequest, D!history, DP!history
<1>8. \A s, ip : D!Notify(s, ip) <=> DP!Notify(s, ip)
  <2>1. \A s : D!Matching(s) = DP!Matching(s)
    BY <1>3 DEF D!Matching, DP!Matching
  <2>2. \A S : D!Last(S) = DP!Last(S)
    BY DEF D!Last, DP!Last
  <2>3. D!NextTransactionId = DP!NextTransactionId
    BY DEF D!NextTransactionId, DP!NextTransactionId
  <2> QED
    BY <2>1, <2>2, <2>3 DEF D!Notify, DP!Notify
<1>9. D!Next <=> DP!Next
  BY <1>3, <1>5, <1>6, <1>7, <1>8 DEF D!Next, DP!Next, D!Request, DP!Request,
     D!Activated, DP!Activated
<1>10. [D!Next]_D!vars <=> [DP!Next]_DP!vars
  BY <1>9 DEF D!vars, DP!vars, D!history, DP!history
<1> QED
  BY <1>1, <1>10, PTL DEF D!Spec, DP!Spec

LEMMA ServerAssumptions ==
  /\ MaxSimSlots \in Nat \ {0}
  /\ Sequences32 \in SUBSET Nat /\ Instances \in SUBSET Nat /\ Absent \notin Nat
  /\ NoRequest \notin DP!ActivateRequests
BY ImsSlotsAssumption, ImsTlvAssumption DEF D!ActivateRequests, DP!ActivateRequests,
   D!Optional, DP!Optional, D!SimSlots, DP!SimSlots

\* While sessions come up and go wrong, an address is indicated under the
\* sequence and instance that its slot's activation was answered with, once
\* every later slot was asked for too.
THEOREM SystemAnswerTheorem == ImsSpec => []D!IndicatesWhatItAnswered
<1>1. DP!Spec => []DP!IndicatesWhatItAnswered
  BY ServerAssumptions, DP!AnswerTheorem
<1>2. DP!IndicatesWhatItAnswered => D!IndicatesWhatItAnswered
  BY DEF D!IndicatesWhatItAnswered, DP!IndicatesWhatItAnswered, D!Indications,
     DP!Indications, D!Activated, DP!Activated, D!SimSlots, DP!SimSlots
<1> QED
  BY <1>1, <1>2, ServerRefinement, SameServer, PTL

NarrowRequests == Sequences32 \subseteq 0 .. 255

\* And it is indicated under those of the request itself, if the sequences fit
\* the byte they are read into.
THEOREM SystemIndicationTheorem ==
  ASSUME NarrowRequests
  PROVE  ImsSpec => []D!IndicatesOwnRequestOnceAllActive
<1>1. DP!NarrowSequences
  BY DEF NarrowRequests, DP!NarrowSequences
<1>2. DP!Spec => []DP!IndicatesOwnRequestOnceAllActive
  BY <1>1, ServerAssumptions, DP!IndicationTheorem
<1>3. DP!IndicatesOwnRequestOnceAllActive => D!IndicatesOwnRequestOnceAllActive
  BY DEF D!IndicatesOwnRequestOnceAllActive, DP!IndicatesOwnRequestOnceAllActive,
     D!Indications, DP!Indications, D!Echoes, DP!Echoes, D!Activated, DP!Activated,
     D!SimSlots, DP!SimSlots
<1> QED
  BY <1>2, <1>3, ServerRefinement, SameServer, PTL

\* Consecutive announcements, of whatever slots, have different transaction ids.
THEOREM SystemTransactionIds == ImsSpec => D!FreshTransactionIds
<1>1. DP!Spec => DP!FreshTransactionIds
  BY ServerAssumptions, DP!TransactionIdsDiffer
<1>2. DP!FreshTransactionIds => D!FreshTransactionIds
  <2>1. [\A msg \in DP!Indications' :
           msg.txn # transaction_id /\ msg.txn \in 1 .. 99]_DP!vars
        => [\A msg \in D!Indications' :
              msg.txn # transaction_id /\ msg.txn \in 1 .. 99]_D!vars
    BY DEF D!Indications, DP!Indications, D!vars, DP!vars, D!history, DP!history
  <2> QED
    BY <2>1, PTL DEF D!FreshTransactionIds, DP!FreshTransactionIds
<1> QED
  BY <1>1, <1>2, ServerRefinement, SameServer, PTL

-----------------------------------------------------------------------------
(* What is indicated is what was granted: DCM sends the string it finds in *)
(* the slot's buffer, at the step in which the timer finds the session     *)
(* finished.                                                               *)

LEMMA IndicatedString ==
  ASSUME NEW s \in Slots, Announce(s), NEW msg \in D!Indications'
  PROVE  msg.ip = CString(session[s].ip_address)
<1>1. msg \in out' /\ msg.type = "indication"
  BY DEF D!Indications
<1>2. D!Matching(s) # {}
  BY <1>1 DEF Announce, D!Notify
<1> QED
  BY <1>1, <1>2 DEF Announce, D!Notify

\* An indication carries the address its slot was granted, of whatever length, if
\* the slot is activated once, answers are prompt and the buffer starts zeroed.
THEOREM FirstIndications ==
  ASSUME FirstScenario, ZeroedAddress
  PROVE  ImsSpec => IndicatesGrantedAddress
<1>1. FirstGrants => [\A s \in Slots : Announce(s) =>
                       \A msg \in D!Indications' :
                         msg.ip \in IpAddrs /\ msg.ip = granted[s]]_imsVars
  BY IndicatedString, GrantedAtEnd DEF Announce
<1> QED
  BY <1>1, FirstGrantsInvariant, SessionRefinement, PTL DEF IndicatesGrantedAddress

-----------------------------------------------------------------------------
(* The service. A phase is left only for the next one: asked for, then     *)
(* connected, then announced, each slot by itself.                         *)

\* What is announced is connected, and what is connected was asked for.
PhasesNest ==
  \A s \in Slots :
    /\ notified[s] > 0 => network[s] # NoNet
    /\ network[s] # NoNet => asked[s] # NoRequest

phases == [s \in Slots |-> Phase(s)]

\* The phases of all slots but s stay.
OthersStay(s) == \A t \in Slots : t # s => Phase(t)' = Phase(t)

Moves(s, from, to) == Phase(s) = from /\ Phase(s)' = to

LEMMA MoveMaps ==
  ASSUME NEW s \in Slots, OthersStay(s),
         \/ Phase(s)' = Phase(s)
         \/ Moves(s, "idle", "requested")
         \/ Moves(s, "requested", "connected")
         \/ Moves(s, "connected", "announced")
  PROVE  [P!Next]_phases
<1> USE DEF phases
<1>1. phases' = [t \in Slots |-> Phase(t)']
  OBVIOUS
<1>2. \A from, to : Moves(s, from, to) => P!Move(s, from, to)
  BY <1>1 DEF OthersStay, Moves, P!Move
<1>3. Phase(s)' = Phase(s) => phases' = phases
  BY <1>1 DEF OthersStay
<1> QED
  BY <1>2, <1>3 DEF P!Next, P!Request, P!Connect, P!Announce

\* A session's own steps announce nothing and at most bring its call up.
LEMMA SessionStepMoves ==
  ASSUME TypeInv, PromptInv, AskedWhenActive, NEW s \in Slots, SessionStep(s)
  PROVE  /\ UNCHANGED <<notified, asked>>
         /\ \A t \in Slots : t # s => network'[t] = network[t]
         /\ \/ network'[s] = network[s]
            \/ network[s] = NoNet /\ network'[s] # NoNet /\ asked[s] # NoRequest
<1>0. UNCHANGED asked /\ DOMAIN network = Slots
  BY DEF SessionStep, dcmVars, TypeInv, TypeOK
<1>1. CASE AllocateClientReady(s) \/ QuietTick(s)
  <2>1. UNCHANGED <<notified, network>>
    BY <1>1 DEF AllocateClientReady, QuietTick, TickGetProfiles, TickWithoutClient,
       TickAddProfile, TickModifyProfile, TickProfileReady, TickDummy, TickSetupLink,
       TickBindDataPort, TickStartNetwork, TickWait, TickGetSettings, TickStop,
       TickGiveUp, vars, external, history
  <2> QED
    BY <1>0, <2>1
<1>2. ASSUME NEW r \in Requests, Callback(s, r)
      PROVE  /\ UNCHANGED notified
             /\ \A t \in Slots : t # s => network'[t] = network[t]
             /\ \/ network'[s] = network[s]
                \/ network[s] = NoNet /\ network'[s] # NoNet /\ asked[s] # NoRequest
  <2>1. UNCHANGED notified
    BY <1>2 DEF Callback, GetProfileListReady, GetProfileListFailed,
       GetProfileSettingsReady, GetProfileSettingsFreed, AddNewProfileReady,
       AddNewProfileFailed, ModifyProfileReady, SetupLinkReady, SetupLinkFailed,
       BindMuxDataPortReady, BindMuxDataPortFailed, StartNetworkReady,
       StartNetworkNoReply, StartNetworkCallFailed, StartNetworkError,
       GetCurrentSettingsReady, GetCurrentSettingsIncomplete,
       GetCurrentSettingsFailed, history
  <2>2. StartNetworkReady(s, r) \/ StartNetworkNoReply(s, r) \/ UNCHANGED network
    BY <1>2 DEF Callback, GetProfileListReady, GetProfileListFailed,
       GetProfileSettingsReady, GetProfileSettingsFreed, AddNewProfileReady,
       AddNewProfileFailed, ModifyProfileReady, SetupLinkReady, SetupLinkFailed,
       BindMuxDataPortReady, BindMuxDataPortFailed, StartNetworkCallFailed,
       StartNetworkError, GetCurrentSettingsReady, GetCurrentSettingsIncomplete,
       GetCurrentSettingsFailed, external
  <2>3. CASE UNCHANGED network
    BY <2>1, <2>3
  <2>4. ASSUME r.op = "start_network", InFlight(s, r), network[s] = NoNet,
               network' = [network EXCEPT ![s] = r.arg]
        PROVE  /\ \A t \in Slots : t # s => network'[t] = network[t]
               /\ network[s] = NoNet /\ network'[s] # NoNet /\ asked[s] # NoRequest
    <3>1. r.arg # NoNet
      BY <2>4, RequestArgs, ProfilesAssumption DEF Profiles, NoNet
    <3>2. asked[s] # NoRequest
      BY <2>4, WaitingFacts DEF PromptInv, AskedWhenActive
    <3> QED
      BY <1>0, <2>4, <3>1, <3>2
  <2>5. CASE StartNetworkReady(s, r)
    BY <2>1, <2>4, <2>5 DEF StartNetworkReady, Receive
  <2>6. CASE StartNetworkNoReply(s, r) /\ ~UNCHANGED network
    <3>1. /\ r.op = "start_network" /\ InFlight(s, r)
          /\ network' = [network EXCEPT ![s] =
                           IF network[s] = NoNet THEN r.arg ELSE network[s]]
      BY <2>6 DEF StartNetworkNoReply, Receive
    <3>2. network[s] = NoNet
      <4>1. [network EXCEPT ![s] = network[s]] = network
        BY DEF TypeInv, TypeOK
      <4> QED
        BY <2>6, <3>1, <4>1
    <3> QED
      BY <2>1, <2>4, <3>1, <3>2
  <2> QED
    BY <2>2, <2>3, <2>5, <2>6
<1> QED
  BY <1>0, <1>1, <1>2 DEF SessionStep

\* An announced slot is connected because the announcement was of a live call,
\* and a call never goes away.
LEMMA AnnouncedIsConnected ==
  ASSUME PromptInv, NEW s \in Slots, Announce(s)
  PROVE  network[s] # NoNet
<1>1. session[s].step = 99
  BY DEF Announce, TickFinished, Due, FINISHED
<1> QED
  BY <1>1, BackedAt DEF PromptInv, Prompted

Invs == TypeInv /\ OneIndicationPerActivation /\ PromptInv /\ AskedWhenActive /\ PhasesNest

\* Every step moves one slot's phase at most, and to the next one.
LEMMA PhaseStep ==
  ASSUME Invs, [ImsNext]_imsVars
  PROVE  /\ PhasesNest'
         /\ [P!Next]_phases
<1> USE DEF Invs
<1>0. /\ DOMAIN notified = Slots /\ DOMAIN network = Slots /\ DOMAIN asked = Slots
      /\ \A t \in Slots : notified[t] \in Nat
  BY TypeFacts DEF AskedWhenActive, TypeInv, TypeOK
<1>1. ASSUME UNCHANGED <<notified, network, asked>>
      PROVE  PhasesNest' /\ [P!Next]_phases
  <2>1. \A t \in Slots : Phase(t)' = Phase(t)
    BY <1>1 DEF Phase
  <2> QED
    BY <1>1, <2>1 DEF PhasesNest, phases
<1>2. ASSUME NEW m \in D!ActivateRequests, Activate(m)
      PROVE  PhasesNest' /\ [P!Next]_phases
  <2> DEFINE s == D!SlotOf(m)
  <2>1. s \in Slots /\ m # NoRequest
    BY SlotOfType, ImsTlvAssumption
  <2>2. UNCHANGED <<notified, network>> /\ asked' = [asked EXCEPT ![s] = m]
    BY <1>2 DEF Activate, InitiateSession, D!PdpActivate, external
  <2> HIDE DEF s
  <2>3. asked'[s] = m /\ \A t \in Slots : t # s => asked'[t] = asked[t]
    BY <1>0, <2>1, <2>2
  <2>4. PhasesNest'
    BY <2>1, <2>2, <2>3 DEF PhasesNest
  <2>5. OthersStay(s)
    BY <2>2, <2>3 DEF OthersStay, Phase
  <2>6. CASE asked[s] = NoRequest
    <3>1. network[s] = NoNet /\ ~(notified[s] > 0)
      BY <2>1, <2>6 DEF PhasesNest
    <3>2. Moves(s, "idle", "requested")
      BY <2>1, <2>2, <2>3, <2>6, <3>1 DEF Moves, Phase
    <3> QED
      BY <2>1, <2>4, <2>5, <3>2, MoveMaps
  <2>7. CASE asked[s] # NoRequest
    <3>1. Phase(s)' = Phase(s)
      BY <2>1, <2>2, <2>3, <2>7 DEF Phase
    <3> QED
      BY <2>1, <2>4, <2>5, <3>1, MoveMaps
  <2> QED
    BY <2>6, <2>7
<1>3. ASSUME NEW c \in Clients, OtherRequest(c) PROVE UNCHANGED <<notified, network, asked>>
  BY <1>3 DEF OtherRequest, D!PlainRequest, D!UnknownRequest, D!history, vars,
     external, history
<1>4. ASSUME NEW s \in Slots, Announce(s)
      PROVE  PhasesNest' /\ [P!Next]_phases
  <2>1. /\ notified' = [notified EXCEPT ![s] = notified[s] + 1]
        /\ UNCHANGED <<network, asked>>
        /\ timers[s] > 0 /\ timers[s] + notified[s] <= activations[s]
    BY <1>4, AnnounceFacts
  <2>2. network[s] # NoNet
    BY <1>4, AnnouncedIsConnected
  <2>4. notified'[s] > 0 /\ \A t \in Slots : t # s => notified'[t] = notified[t]
    BY <1>0, <2>1
  <2>5. PhasesNest'
    BY <2>1, <2>2, <2>4 DEF PhasesNest
  <2>6. OthersStay(s)
    BY <2>1, <2>4 DEF OthersStay, Phase
  <2>7. Moves(s, "connected", "announced") \/ Phase(s)' = Phase(s)
    BY <2>1, <2>2, <2>4 DEF Moves, Phase
  <2> QED
    BY <2>5, <2>6, <2>7, MoveMaps
<1>5. ASSUME NEW s \in Slots, SessionStep(s)
      PROVE  PhasesNest' /\ [P!Next]_phases
  <2>1. /\ UNCHANGED <<notified, asked>>
        /\ \A t \in Slots : t # s => network'[t] = network[t]
        /\ \/ network'[s] = network[s]
           \/ network[s] = NoNet /\ network'[s] # NoNet /\ asked[s] # NoRequest
    BY <1>5, SessionStepMoves
  <2>2. PhasesNest'
    BY <2>1 DEF PhasesNest
  <2>3. OthersStay(s)
    BY <2>1 DEF OthersStay, Phase
  <2>4. CASE network'[s] = network[s]
    <3>1. Phase(s)' = Phase(s)
      BY <2>1, <2>4 DEF Phase
    <3> QED
      BY <2>2, <2>3, <3>1, MoveMaps
  <2>5. CASE network[s] = NoNet /\ network'[s] # NoNet /\ asked[s] # NoRequest
    <3>1. ~(notified[s] > 0)
      BY <2>5 DEF PhasesNest
    <3>2. Moves(s, "requested", "connected")
      BY <2>1, <2>5, <3>1 DEF Moves, Phase
    <3> QED
      BY <2>2, <2>3, <3>2, MoveMaps
  <2> QED
    BY <2>1, <2>4, <2>5
<1>6. UNCHANGED imsVars => UNCHANGED <<notified, network, asked>>
  BY DEF imsVars, dcmVars, vars, external, history
<1> QED
  BY <1>1, <1>2, <1>3, <1>4, <1>5, <1>6 DEF ImsNext

\* Nothing comes up unasked and nothing is announced that is not up: with prompt
\* answers the two components implement the service the modem expects, however
\* often it asks.
THEOREM PdpServiceTheorem ==
  ASSUME PromptScenario
  PROVE  ImsSpec => ImplementsPdpService
<1>1. ImsInit => PhasesNest /\ P!Init
  <2> SUFFICES ASSUME ImsInit PROVE PhasesNest /\ P!Init
    OBVIOUS
  <2>1. \A s \in Slots : notified[s] = 0 /\ network[s] = NoNet /\ asked[s] = NoRequest
    BY ImsSlotsAssumption DEF ImsInit, Init, D!Init, D!SimSlots
  <2>2. \A s \in Slots : Phase(s) = "idle"
    BY <2>1 DEF Phase
  <2> QED
    BY <2>1, <2>2 DEF PhasesNest, P!Init
<1>2. Invs /\ [ImsNext]_imsVars => PhasesNest' /\ [P!Next]_phases
  BY PhaseStep
<1> QED
  BY <1>1, <1>2, SessionRefinement, TypeInvariant, OneIndicationTheorem,
     PromptInvariant, AskedInvariant, PTL
     DEF ImsSpec, Invs, phases, ImplementsPdpService, P!Spec
=============================================================================
