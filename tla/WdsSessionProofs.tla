-------------------------- MODULE WdsSessionProofs ---------------------------
(***************************************************************************)
(* Proofs about WdsSession for any number of slots, profiles, links,       *)
(* outstanding requests and activations, and for every set of faults.      *)
(***************************************************************************)
EXTENDS WdsSession, FiniteSetTheorems, SequenceTheorems, TLAPS

-----------------------------------------------------------------------------
(* Helpers: what the requests carry, and that the updates the actions are  *)
(* built from keep their variable well typed.                              *)

\* The argument of a request is of the kind its operation calls for.
LEMMA RequestArgs ==
  ASSUME NEW r \in Requests
  PROVE  /\ r.op = "get_profile_list" => r.arg \in Profiles
         /\ r.op = "start_network" => r.arg \in Profiles
         /\ r.op = "get_profile_settings" => r.arg \in 1 .. MaxProfiles
         /\ r.op = "bind_mux_data_port" => r.arg \in {NoMux} \cup MuxIds
BY ProfilesAssumption, BoundsAssumption DEF Requests, Profiles, MuxIds, NoMux

LEMMA RequestKinds ==
  /\ \A p \in Profiles : /\ Request("get_profile_list", p) \in Requests
                         /\ Request("start_network", p) \in Requests
  /\ \A p \in 1 .. MaxProfiles : Request("get_profile_settings", p) \in Requests
  /\ Request("modify_profile", 1) \in Requests
  /\ \A m \in {NoMux} \cup MuxIds : Request("bind_mux_data_port", m) \in Requests
  /\ Request("create_profile", 0) \in Requests
  /\ Request("add_link", 0) \in Requests
  /\ Request("get_current_settings", 0) \in Requests
BY DEF Request, Requests

Queues == [Requests -> Nat]

\* Sending and answering requests keeps counting them.
LEMMA SendType ==
  ASSUME pending \in [Slots -> Queues], NEW s \in Slots, NEW r \in Requests, Send(s, r)
  PROVE  pending' \in [Slots -> Queues]
<1>1. pending[s] \in Queues
  OBVIOUS
<1>2. [pending[s] EXCEPT ![r] = @ + 1] \in Queues
  BY <1>1 DEF Queues
<1>3. pending' = [pending EXCEPT ![s] = [pending[s] EXCEPT ![r] = @ + 1]]
  BY DEF Send
<1> QED
  BY <1>2, <1>3

LEMMA AnsweredType ==
  ASSUME pending \in [Slots -> Queues], NEW s \in Slots, NEW r \in Requests,
         InFlight(s, r)
  PROVE  Answered(s, r) \in Queues
<1>1. pending[s] \in Queues
  OBVIOUS
<1>2. pending[s][r] \in Nat /\ pending[s][r] > 0
  BY <1>1 DEF InFlight, Queues
<1> QED
  BY <1>1, <1>2 DEF Answered, Queues

LEMMA ReceiveType ==
  ASSUME pending \in [Slots -> Queues], NEW s \in Slots, NEW r \in Requests,
         Receive(s, r)
  PROVE  pending' \in [Slots -> Queues]
BY AnsweredType DEF Receive

LEMMA StepArithmetic ==
  ASSUME NEW n \in 0 .. 255
  PROVE  Inc(n) \in 0 .. 255 /\ Dec(n) \in 0 .. 255
BY DEF Inc, Dec

LEMMA SessionUpdates ==
  ASSUME NEW sess \in Sessions
  PROVE  /\ \A x \in 0 .. 255 : [sess EXCEPT !.step = x] \in Sessions
         /\ \A p \in Profiles, x \in 0 .. 255 :
              [sess EXCEPT !.profile_id = p, !.step = x] \in Sessions
         /\ [sess EXCEPT !.setup_link_done = 1] \in Sessions
         /\ \A m \in MuxIds, x \in 0 .. 255 :
              [sess EXCEPT !.mux_id = m, !.step = x] \in Sessions
         /\ \A x \in 0 .. 255 :
              [sess EXCEPT !.has_handle = TRUE, !.step = x] \in Sessions
         /\ \A b \in [1 .. IpLen -> Byte], x \in 0 .. 255 :
              [sess EXCEPT !.ip_address = b, !.step = x] \in Sessions
<1>1. \A x \in 0 .. 255 : [sess EXCEPT !.step = x] \in Sessions
  BY DEF Sessions
<1>2. \A p \in Profiles, x \in 0 .. 255 :
        [sess EXCEPT !.profile_id = p, !.step = x] \in Sessions
  BY DEF Sessions
<1>3. [sess EXCEPT !.setup_link_done = 1] \in Sessions
  BY DEF Sessions
<1>4. \A m \in MuxIds, x \in 0 .. 255 :
        [sess EXCEPT !.mux_id = m, !.step = x] \in Sessions
  BY DEF Sessions
<1>5. \A x \in 0 .. 255 : [sess EXCEPT !.has_handle = TRUE, !.step = x] \in Sessions
  BY DEF Sessions
<1>6. \A b \in [1 .. IpLen -> Byte], x \in 0 .. 255 :
        [sess EXCEPT !.ip_address = b, !.step = x] \in Sessions
  BY DEF Sessions
<1> QED
  BY <1>1, <1>2, <1>3, <1>4, <1>5, <1>6

LEMMA FreshType ==
  ASSUME NEW b \in [1 .. IpLen -> Byte]
  PROVE  FreshSession(b) \in Sessions
BY ProfilesAssumption DEF FreshSession, Sessions, GET_PROFILES, Profiles

LEMMA SetStepType ==
  ASSUME session \in [Slots -> Sessions], NEW s \in Slots, NEW x \in 0 .. 255,
         SetStep(s, x)
  PROVE  session' \in [Slots -> Sessions]
<1>1. [session[s] EXCEPT !.step = x] \in Sessions
  BY SessionUpdates
<1>2. session' = [session EXCEPT ![s] = [session[s] EXCEPT !.step = x]]
  BY DEF SetStep
<1> QED
  BY <1>1, <1>2

LEMMA CopyType ==
  ASSUME NEW buffer \in [1 .. IpLen -> Byte], NEW addr \in IpAddrs
  PROVE  CopyAddress(buffer, addr) \in [1 .. IpLen -> Byte]
<1>1. addr \in Seq(Byte \ {NUL})
  BY AddressAssumption
<1>2. \A k \in DOMAIN addr : addr[k] \in Byte
  BY <1>1
<1> QED
  BY <1>2 DEF CopyAddress

-----------------------------------------------------------------------------
(* Type correctness. The profile cursor has to stay inside the list: the   *)
(* profile identifier is the cursor plus one.                              *)

TypeInv == TypeOK /\ ListCursorInside

LEMMA InitTypeInv == Init => TypeInv
<1> SUFFICES ASSUME Init PROVE TypeInv
  OBVIOUS
<1> USE ProfilesAssumption, BoundsAssumption, AddressAssumption
<1>1. session \in [Slots -> Sessions]
  BY FreshType DEF Init
<1>2. profiles \in Seq(BOOLEAN) /\ Len(profiles) \in Profiles
  BY DEF Init, Profiles
<1>3. profile_list \in [Slots -> [live : BOOLEAN, i : Nat, len : Profiles]]
  BY DEF Init, Profiles
<1>4. pending \in [Slots -> [Requests -> Nat]]
  BY DEF Init
<1>5. granted \in [Slots -> {<<>>} \cup IpAddrs] /\ process \in {"running"}
  BY DEF Init
<1>6. /\ network \in [Slots -> {NoNet} \cup Profiles]
      /\ bound \in [Slots -> {NoMux} \cup MuxIds]
      /\ links \in [Slots -> SUBSET MuxIds]
      /\ wds \in [Slots -> BOOLEAN]
  BY DEF Init
<1>7. /\ timers \in [Slots -> Nat] /\ notified \in [Slots -> Nat]
      /\ activations \in [Slots -> 0 .. MaxActivations]
  BY DEF Init
<1>8. ListCursorInside
  BY DEF Init, ListCursorInside
<1> QED
  BY <1>1, <1>2, <1>3, <1>4, <1>5, <1>6, <1>7, <1>8 DEF TypeInv, TypeOK

\* Nothing but the queue and the step of the session is changed.
LEMMA GetNextTypeInv ==
  ASSUME TypeInv, NEW s \in Slots, NEW sess \in Sessions, NEW reqs \in Queues,
         NEW list \in [live : {TRUE}, i : Nat, len : Profiles],
         GetNextProfileSettings(s, sess, list, reqs)
  PROVE  /\ session' \in [Slots -> Sessions]
         /\ pending' \in [Slots -> Queues]
         /\ profile_list' \in [Slots -> [live : BOOLEAN, i : Nat, len : Profiles]]
         /\ ListCursorInside'
<1>0. /\ session \in [Slots -> Sessions]
      /\ pending \in [Slots -> Queues]
      /\ profile_list \in [Slots -> [live : BOOLEAN, i : Nat, len : Profiles]]
      /\ ListCursorInside
  BY DEF TypeInv, TypeOK, Queues
<1>1. CASE list.i >= list.len
  <2>1. [sess EXCEPT !.step = FIND_PROFILE_ADD_MODIFY] \in Sessions
    <3>1. FIND_PROFILE_ADD_MODIFY \in 0 .. 255
      BY DEF FIND_PROFILE_ADD_MODIFY
    <3> QED
      BY <3>1, SessionUpdates
  <2>2. /\ session' = [session EXCEPT ![s] =
                         IF sess.profile_id = 0
                         THEN [sess EXCEPT !.step = FIND_PROFILE_ADD_MODIFY]
                         ELSE sess]
        /\ profile_list' = [profile_list EXCEPT ![s] = [list EXCEPT !.live = FALSE]]
        /\ pending' = [pending EXCEPT ![s] = reqs]
    BY <1>1 DEF GetNextProfileSettings, SetSession
  <2>3. /\ [list EXCEPT !.live = FALSE] \in [live : {FALSE}, i : Nat, len : Profiles]
        /\ [list EXCEPT !.live = FALSE] \in [live : BOOLEAN, i : Nat, len : Profiles]
        /\ [list EXCEPT !.live = FALSE].live = FALSE
    <3>1. [list EXCEPT !.live = FALSE] \in [live : {FALSE}, i : Nat, len : Profiles]
      OBVIOUS
    <3> QED
      BY <3>1
  <2>4. session' \in [Slots -> Sessions]
    BY <1>0, <2>1, <2>2
  <2>5. pending' \in [Slots -> Queues]
    BY <1>0, <2>2
  <2>6. profile_list' \in [Slots -> [live : BOOLEAN, i : Nat, len : Profiles]]
    BY <1>0, <2>2, <2>3
  <2>7. ListCursorInside'
    BY <1>0, <2>2, <2>3 DEF ListCursorInside
  <2> QED
    BY <2>4, <2>5, <2>6, <2>7
<1>2. CASE ~(list.i >= list.len)
  <2> DEFINE r == Request("get_profile_settings", list.i + 1)
  <2>1. r \in Requests
    <3>1. list.i + 1 \in 1 .. MaxProfiles
      BY <1>2, ProfilesAssumption DEF Profiles
    <3> QED
      BY <3>1, RequestKinds
  <2>2. [reqs EXCEPT ![r] = @ + 1] \in Queues
    BY <2>1 DEF Queues
  <2>3. /\ session' = [session EXCEPT ![s] = sess]
        /\ profile_list' = [profile_list EXCEPT ![s] = list]
        /\ pending' = [pending EXCEPT ![s] = [reqs EXCEPT ![r] = @ + 1]]
    BY <1>2 DEF GetNextProfileSettings, SetSession
  <2>4. list.i < list.len
    BY <1>2 DEF Profiles
  <2>5. session' \in [Slots -> Sessions]
    BY <1>0, <2>3
  <2>6. pending' \in [Slots -> Queues]
    BY <1>0, <2>2, <2>3
  <2>7. profile_list' \in [Slots -> [live : BOOLEAN, i : Nat, len : Profiles]]
    BY <1>0, <2>3
  <2>8. ListCursorInside'
    BY <1>0, <2>3, <2>4 DEF ListCursorInside
  <2> QED
    BY <2>5, <2>6, <2>7, <2>8
<1> QED
  BY <1>1, <1>2

\* A step that leaves the profile list and the modem alone keeps TypeInv if it
\* keeps the session, the queue and the counters well typed.
LEMMA LocalStep ==
  ASSUME TypeInv, session' \in [Slots -> Sessions], pending' \in [Slots -> Queues],
         process' \in {"running", "crashed", "exited"},
         wds' \in [Slots -> BOOLEAN], timers' \in [Slots -> Nat],
         activations' \in [Slots -> 0 .. MaxActivations],
         notified' \in [Slots -> Nat],
         UNCHANGED <<profile_list, external, granted>>
  PROVE  TypeInv'
BY DEF TypeInv, TypeOK, ListCursorInside, Queues, external

LEMMA TypeFacts ==
  ASSUME TypeInv
  PROVE  /\ process \in {"running", "crashed", "exited"}
         /\ wds \in [Slots -> BOOLEAN]
         /\ session \in [Slots -> Sessions]
         /\ \A s \in Slots : /\ session[s].step \in 0 .. 255
                             /\ session[s].profile_id \in Profiles
                             /\ session[s].mux_id \in {NoMux} \cup MuxIds
                             /\ session[s].ip_address \in [1 .. IpLen -> Byte]
         /\ pending \in [Slots -> Queues]
         /\ timers \in [Slots -> Nat]
         /\ Len(profiles) \in Profiles
         /\ activations \in [Slots -> 0 .. MaxActivations]
         /\ notified \in [Slots -> Nat]
BY DEF TypeInv, TypeOK, Queues, Sessions

\* The ticks of the timer keep TypeInv.
LEMMA TickTypeInv ==
  ASSUME TypeInv, NEW s \in Slots, Tick(s)
  PROVE  TypeInv'
<1>1. CASE TickGetProfiles(s)
  <2>1. Request("get_profile_list", Len(profiles)) \in Requests
    BY TypeFacts, RequestKinds
  <2>2. pending' \in [Slots -> Queues]
    BY <1>1, <2>1, SendType, TypeFacts DEF TickGetProfiles
  <2> QED
    BY <1>1, <2>2, TypeFacts, LocalStep DEF TickGetProfiles, history
<1>2. CASE TickAddProfile(s)
  <2>1. Request("create_profile", 0) \in Requests
    BY TypeFacts, RequestKinds
  <2>2. pending' \in [Slots -> Queues]
    BY <1>2, <2>1, SendType, TypeFacts DEF TickAddProfile
  <2> QED
    BY <1>2, <2>2, TypeFacts, LocalStep DEF TickAddProfile, history
<1>3. CASE TickModifyProfile(s)
  <2>1. Request("modify_profile", 1) \in Requests
    BY TypeFacts, RequestKinds
  <2>2. pending' \in [Slots -> Queues]
    BY <1>3, <2>1, SendType, TypeFacts DEF TickModifyProfile
  <2>3. PROFILE_READY \in 0 .. 255
    BY DEF PROFILE_READY
  <2>4. session' \in [Slots -> Sessions]
    BY <1>3, <2>3, SetStepType, TypeFacts DEF TickModifyProfile
  <2> QED
    BY <1>3, <2>2, <2>4, TypeFacts, LocalStep DEF TickModifyProfile, history
<1>4. CASE TickProfileReady(s)
  <2>1. SETUP_DATA_FORMAT \in 0 .. 255
    BY DEF SETUP_DATA_FORMAT
  <2>2. session' \in [Slots -> Sessions]
    BY <1>4, <2>1, SetStepType, TypeFacts DEF TickProfileReady
  <2> QED
    BY <1>4, <2>2, TypeFacts, LocalStep DEF TickProfileReady, history
<1>5. CASE TickDummy(s)
  <2>1. Inc(session[s].step) \in 0 .. 255
    BY TypeFacts, StepArithmetic
  <2>2. session' \in [Slots -> Sessions]
    BY <1>5, <2>1, SetStepType, TypeFacts DEF TickDummy
  <2> QED
    BY <1>5, <2>2, TypeFacts, LocalStep DEF TickDummy, history
<1>6. CASE TickBindDataPort(s)
  <2>1. Request("bind_mux_data_port", session[s].mux_id) \in Requests
    BY TypeFacts, RequestKinds
  <2>2. pending' \in [Slots -> Queues]
    BY <1>6, <2>1, SendType, TypeFacts DEF TickBindDataPort
  <2> QED
    BY <1>6, <2>2, TypeFacts, LocalStep DEF TickBindDataPort, history
<1>7. CASE TickStartNetwork(s)
  <2>1. Request("start_network", session[s].profile_id) \in Requests
    BY TypeFacts, RequestKinds
  <2>2. pending' \in [Slots -> Queues]
    BY <1>7, <2>1, SendType, TypeFacts DEF TickStartNetwork
  <2>3. Inc(session[s].step) \in 0 .. 255
    BY TypeFacts, StepArithmetic
  <2>4. session' \in [Slots -> Sessions]
    BY <1>7, <2>3, SetStepType, TypeFacts DEF TickStartNetwork
  <2> QED
    BY <1>7, <2>2, <2>4, TypeFacts, LocalStep DEF TickStartNetwork, history
<1>8. CASE TickGetSettings(s)
  <2>1. Request("get_current_settings", 0) \in Requests
    BY TypeFacts, RequestKinds
  <2>2. pending' \in [Slots -> Queues]
    BY <1>8, <2>1, SendType, TypeFacts DEF TickGetSettings
  <2> QED
    BY <1>8, <2>2, TypeFacts, LocalStep DEF TickGetSettings, history
<1>9. CASE TickStop(s)
  <2>1. FINISHED \in 0 .. 255
    BY DEF FINISHED
  <2>2. session' \in [Slots -> Sessions]
    BY <1>9, <2>1, SetStepType, TypeFacts DEF TickStop
  <2> QED
    BY <1>9, <2>2, TypeFacts, LocalStep DEF TickStop, history
<1>10. CASE TickWithoutClient(s)
  BY <1>10, TypeFacts, LocalStep DEF TickWithoutClient, history
<1>11. CASE TickSetupLink(s)
  <2>1. Request("add_link", 0) \in Requests
    BY RequestKinds
  <2>2. pending' \in [Slots -> Queues]
    BY <1>11, <2>1, SendType, TypeFacts DEF TickSetupLink
  <2>3. [session[s] EXCEPT !.setup_link_done = 1] \in Sessions
    BY TypeFacts, SessionUpdates
  <2>4. \/ session' = session
        \/ session' = [session EXCEPT ![s] = [session[s] EXCEPT !.setup_link_done = 1]]
    BY <1>11 DEF TickSetupLink
  <2>5. session' \in [Slots -> Sessions]
    BY <2>3, <2>4, TypeFacts
  <2> QED
    BY <1>11, <2>2, <2>5, TypeFacts, LocalStep DEF TickSetupLink, history
<1>12. CASE TickWait(s)
  BY <1>12, TypeFacts, LocalStep DEF TickWait, vars, history
<1>13. CASE TickFinished(s)
  <2>1. timers[s] \in Nat /\ timers[s] > 0 /\ notified[s] \in Nat
    BY <1>13, TypeFacts DEF TickFinished, Due
  <2>2. timers' \in [Slots -> Nat] /\ notified' \in [Slots -> Nat]
    BY <1>13, <2>1, TypeFacts DEF TickFinished
  <2> QED
    BY <1>13, <2>2, TypeFacts, LocalStep DEF TickFinished, history
<1>14. CASE TickGiveUp(s)
  <2>1. timers[s] \in Nat /\ timers[s] > 0
    BY <1>14, TypeFacts DEF TickGiveUp, Due
  <2>2. timers' \in [Slots -> Nat]
    BY <1>14, <2>1, TypeFacts DEF TickGiveUp
  <2> QED
    BY <1>14, <2>2, TypeFacts, LocalStep DEF TickGiveUp, history
<1> QED
  BY <1>1, <1>2, <1>3, <1>4, <1>5, <1>6, <1>7, <1>8, <1>9, <1>10, <1>11, <1>12,
     <1>13, <1>14 DEF Tick, QuietTick

\* The callbacks keep TypeInv: those that only move the session on ...
LEMMA SessionCallbackTypeInv ==
  ASSUME TypeInv, NEW s \in Slots, NEW r \in Requests,
         \/ GetProfileListFailed(s, r) \/ GetProfileSettingsFreed(s, r)
         \/ ModifyProfileReady(s, r) \/ SetupLinkFailed(s, r)
         \/ BindMuxDataPortFailed(s, r) \/ StartNetworkCallFailed(s, r)
         \/ StartNetworkError(s, r) \/ GetCurrentSettingsIncomplete(s, r)
         \/ GetCurrentSettingsFailed(s, r)
  PROVE  TypeInv'
<1> DEFINE Quiet == \/ GetProfileListFailed(s, r) \/ GetProfileSettingsFreed(s, r)
                    \/ ModifyProfileReady(s, r) \/ SetupLinkFailed(s, r)
                    \/ BindMuxDataPortFailed(s, r)
                    \/ GetCurrentSettingsIncomplete(s, r)
                    \/ GetCurrentSettingsFailed(s, r)
<1>1. CASE Quiet
  <2>1. Receive(s, r)
    BY <1>1 DEF GetProfileListFailed, GetProfileSettingsFreed, ModifyProfileReady,
         SetupLinkFailed, BindMuxDataPortFailed, GetCurrentSettingsIncomplete,
         GetCurrentSettingsFailed
  <2>2. pending' \in [Slots -> Queues]
    BY <2>1, ReceiveType, TypeFacts
  <2>3. /\ process' \in {"running", "crashed", "exited"}
        /\ UNCHANGED <<wds, session, profile_list, timers, external, history>>
    BY <1>1, TypeFacts
       DEF GetProfileListFailed, GetProfileSettingsFreed, ModifyProfileReady,
           SetupLinkFailed, BindMuxDataPortFailed, GetCurrentSettingsIncomplete,
           GetCurrentSettingsFailed
  <2> QED
    BY <2>2, <2>3, TypeFacts, LocalStep DEF history
<1>2. CASE StartNetworkCallFailed(s, r)
  <2>1. pending' \in [Slots -> Queues]
    BY <1>2, ReceiveType, TypeFacts DEF StartNetworkCallFailed
  <2>2. Inc(LINK_BRINGUP) \in 0 .. 255
    BY DEF Inc, LINK_BRINGUP
  <2>3. session' \in [Slots -> Sessions]
    BY <1>2, <2>2, SetStepType, TypeFacts DEF StartNetworkCallFailed
  <2> QED
    BY <1>2, <2>1, <2>3, TypeFacts, LocalStep DEF StartNetworkCallFailed, history
<1>3. CASE StartNetworkError(s, r)
  <2>1. pending' \in [Slots -> Queues]
    BY <1>3, ReceiveType, TypeFacts DEF StartNetworkError
  <2>2. Inc(session[s].step) \in 0 .. 255
    BY TypeFacts, StepArithmetic
  <2>3. session' \in [Slots -> Sessions]
    BY <1>3, <2>2, SetStepType, TypeFacts DEF StartNetworkError
  <2> QED
    BY <1>3, <2>1, <2>3, TypeFacts, LocalStep DEF StartNetworkError, history
<1> QED
  BY <1>1, <1>2, <1>3

\* ... those that walk the profile list ...
LEMMA ListCallbackTypeInv ==
  ASSUME TypeInv, NEW s \in Slots, NEW r \in Requests,
         GetProfileListReady(s, r) \/ GetProfileSettingsReady(s, r)
  PROVE  TypeInv'
<1> DEFINE Lists == [live : BOOLEAN, i : Nat, len : Profiles]
<1>1. /\ session' \in [Slots -> Sessions]
      /\ pending' \in [Slots -> Queues]
      /\ profile_list' \in [Slots -> Lists]
      /\ ListCursorInside'
  <2>1. CASE GetProfileListReady(s, r)
    <3>1. PICK len \in r.arg .. Len(profiles) :
            IF len = 0
            THEN /\ SetStep(s, FIND_PROFILE_ADD_MODIFY)
                 /\ pending' = [pending EXCEPT ![s] = Answered(s, r)]
                 /\ UNCHANGED profile_list
            ELSE GetNextProfileSettings(s, session[s],
                   [live |-> TRUE, i |-> 0, len |-> len], Answered(s, r))
      BY <2>1 DEF GetProfileListReady
    <3>2. r.arg \in Profiles /\ InFlight(s, r)
      BY <2>1, RequestArgs DEF GetProfileListReady
    <3>3. len \in Profiles
      <4>1. Len(profiles) \in Profiles
        BY TypeFacts
      <4> QED
        BY <3>2, <4>1, ProfilesAssumption DEF Profiles
    <3>4. Answered(s, r) \in Queues
      BY <3>2, AnsweredType, TypeFacts
    <3>5. CASE len = 0
      <4>1. FIND_PROFILE_ADD_MODIFY \in 0 .. 255
        BY DEF FIND_PROFILE_ADD_MODIFY
      <4>2. session' \in [Slots -> Sessions]
        BY <3>1, <3>5, <4>1, SetStepType, TypeFacts
      <4>3. pending' = [pending EXCEPT ![s] = Answered(s, r)]
        BY <3>1, <3>5
      <4>4. pending' \in [Slots -> Queues]
        BY <3>4, <4>3, TypeFacts
      <4> QED
        BY <3>1, <3>5, <4>2, <4>4 DEF TypeInv, TypeOK, ListCursorInside
    <3>6. CASE len # 0
      <4>1. session[s] \in Sessions
        BY TypeFacts
      <4> DEFINE list == [live |-> TRUE, i |-> 0, len |-> len]
      <4>2. list \in [live : {TRUE}, i : Nat, len : Profiles]
        BY <3>3
      <4>3. GetNextProfileSettings(s, session[s], list, Answered(s, r))
        BY <3>1, <3>6
      <4> HIDE DEF list
      <4> QED
        BY <3>4, <4>1, <4>2, <4>3, GetNextTypeInv
    <3> QED
      BY <3>5, <3>6
  <2>2. CASE GetProfileSettingsReady(s, r)
    <3>1. PICK is_ims \in BOOLEAN :
            GetNextProfileSettings(s,
              IF is_ims THEN [session[s] EXCEPT !.profile_id = profile_list[s].i + 1,
                                                !.step = PROFILE_READY]
                        ELSE session[s],
              [profile_list[s] EXCEPT !.i = @ + 1], Answered(s, r))
      BY <2>2 DEF GetProfileSettingsReady
    <3>2. InFlight(s, r) /\ profile_list[s].live
      BY <2>2 DEF GetProfileSettingsReady
    <3>3. Answered(s, r) \in Queues
      BY <3>2, AnsweredType, TypeFacts
    <3>4. /\ profile_list[s] \in Lists
          /\ profile_list[s].i < profile_list[s].len
      BY <3>2 DEF TypeInv, TypeOK, ListCursorInside
    <3>5. [profile_list[s] EXCEPT !.i = @ + 1] \in [live : {TRUE}, i : Nat, len : Profiles]
      <4>1. \A l \in [live : {TRUE}, i : Nat, len : Profiles], n \in Nat :
              [l EXCEPT !.i = n] \in [live : {TRUE}, i : Nat, len : Profiles]
        OBVIOUS
      <4>2. profile_list[s] \in [live : {TRUE}, i : Nat, len : Profiles]
        BY <3>2, <3>4
      <4>3. profile_list[s].i + 1 \in Nat
        BY <3>4
      <4> QED
        BY <4>1, <4>2, <4>3
    <3> DEFINE sess == IF is_ims
                       THEN [session[s] EXCEPT !.profile_id = profile_list[s].i + 1,
                                               !.step = PROFILE_READY]
                       ELSE session[s]
               list == [profile_list[s] EXCEPT !.i = @ + 1]
    <3>6. sess \in Sessions
      <4>1. profile_list[s].i + 1 \in Profiles
        BY <3>4, ProfilesAssumption DEF Profiles
      <4>2. PROFILE_READY \in 0 .. 255
        BY DEF PROFILE_READY
      <4>3. session[s] \in Sessions
        BY TypeFacts
      <4> QED
        BY <4>1, <4>2, <4>3, SessionUpdates
    <3>7. GetNextProfileSettings(s, sess, list, Answered(s, r))
      BY <3>1
    <3> HIDE DEF sess, list
    <3>8. list \in [live : {TRUE}, i : Nat, len : Profiles]
      BY <3>5 DEF list
    <3> QED
      BY <3>3, <3>6, <3>7, <3>8, GetNextTypeInv
  <2> QED
    BY <2>1, <2>2
<1>2. UNCHANGED <<process, wds, timers, external, history>>
  BY DEF GetProfileListReady, GetProfileSettingsReady
<1> QED
  BY <1>1, <1>2 DEF TypeInv, TypeOK, Queues, external, history

\* ... and those in which the modem or the kernel takes something.
LEMMA ModemCallbackTypeInv ==
  ASSUME TypeInv, NEW s \in Slots, NEW r \in Requests,
         \/ AddNewProfileReady(s, r) \/ AddNewProfileFailed(s, r)
         \/ SetupLinkReady(s, r) \/ BindMuxDataPortReady(s, r)
         \/ StartNetworkReady(s, r) \/ StartNetworkNoReply(s, r)
         \/ GetCurrentSettingsReady(s, r)
  PROVE  TypeInv'
<1>1. Receive(s, r)
  BY DEF AddNewProfileReady, AddNewProfileFailed, SetupLinkReady,
         BindMuxDataPortReady, StartNetworkReady, StartNetworkNoReply,
         GetCurrentSettingsReady
<1>2. pending' \in [Slots -> Queues]
  BY <1>1, ReceiveType, TypeFacts
<1>3. session[s] \in Sessions /\ Inc(session[s].step) \in 0 .. 255
        /\ Dec(session[s].step) \in 0 .. 255
  BY TypeFacts, StepArithmetic
<1>4. ASSUME Len(profiles) < MaxProfiles
      PROVE  /\ Append(profiles, TRUE) \in Seq(BOOLEAN)
             /\ Len(Append(profiles, TRUE)) \in Profiles
             /\ Len(profiles) + 1 \in Profiles
  BY <1>4, ProfilesAssumption DEF TypeInv, TypeOK, Profiles
<1>5. CASE AddNewProfileReady(s, r)
  <2>1. PROFILE_READY \in 0 .. 255
    BY DEF PROFILE_READY
  <2> DEFINE sess == [session[s] EXCEPT !.profile_id = Len(profiles) + 1,
                                        !.step = PROFILE_READY]
  <2>2. sess \in Sessions
    BY <1>3, <1>4, <1>5, <2>1, SessionUpdates DEF AddNewProfileReady
  <2>3. session' = [session EXCEPT ![s] = sess]
    BY <1>5 DEF AddNewProfileReady
  <2> HIDE DEF sess
  <2>4. session' \in [Slots -> Sessions]
    BY <2>2, <2>3, TypeFacts
  <2> QED
    BY <1>2, <1>4, <1>5, <2>4 DEF AddNewProfileReady, TypeInv, TypeOK,
       ListCursorInside, Queues, history
<1>6. CASE AddNewProfileFailed(s, r)
  BY <1>2, <1>4, <1>6 DEF AddNewProfileFailed, TypeInv, TypeOK, ListCursorInside,
     Queues, history
<1>7. CASE SetupLinkReady(s, r)
  <2>1. PICK mux \in MuxIds :
          /\ links' = [links EXCEPT ![s] = @ \cup {mux}]
          /\ session' = [session EXCEPT ![s] =
               [session[s] EXCEPT !.mux_id = mux, !.step = Inc(session[s].step)]]
    BY <1>7 DEF SetupLinkReady
  <2>2. [session[s] EXCEPT !.mux_id = mux, !.step = Inc(session[s].step)] \in Sessions
    BY <1>3, SessionUpdates
  <2>3. session' \in [Slots -> Sessions]
    BY <2>1, <2>2, TypeFacts
  <2>4. links' \in [Slots -> SUBSET MuxIds]
    BY <2>1 DEF TypeInv, TypeOK
  <2>5. UNCHANGED <<process, wds, profile_list, timers, profiles, bound, network, history>>
    BY <1>7 DEF SetupLinkReady
  <2> QED
    BY <1>2, <2>3, <2>4, <2>5 DEF TypeInv, TypeOK, ListCursorInside, Queues, history
<1>8. CASE BindMuxDataPortReady(s, r)
  <2>1. r.arg \in {NoMux} \cup MuxIds
    BY <1>8, RequestArgs DEF BindMuxDataPortReady
  <2>2. session' \in [Slots -> Sessions]
    BY <1>3, <1>8, SetStepType, TypeFacts DEF BindMuxDataPortReady
  <2> QED
    BY <1>2, <1>8, <2>1, <2>2 DEF BindMuxDataPortReady, TypeInv, TypeOK,
       ListCursorInside, Queues, history
<1>9. CASE StartNetworkReady(s, r)
  <2>1. r.arg \in Profiles
    BY <1>9, RequestArgs DEF StartNetworkReady
  <2> DEFINE sess == [session[s] EXCEPT !.has_handle = TRUE, !.step = Inc(session[s].step)]
  <2>2. sess \in Sessions
    BY <1>3, SessionUpdates
  <2>3. session' = [session EXCEPT ![s] = sess]
    BY <1>9 DEF StartNetworkReady
  <2> HIDE DEF sess
  <2>4. session' \in [Slots -> Sessions]
    BY <2>2, <2>3, TypeFacts
  <2> QED
    BY <1>2, <1>9, <2>1, <2>4 DEF StartNetworkReady, TypeInv, TypeOK,
       ListCursorInside, Queues, history
<1>10. CASE StartNetworkNoReply(s, r)
  <2>1. r.arg \in Profiles
    BY <1>10, RequestArgs DEF StartNetworkNoReply
  <2>2. session' \in [Slots -> Sessions]
    BY <1>3, <1>10, SetStepType, TypeFacts DEF StartNetworkNoReply
  <2>3. network' \in [Slots -> {NoNet} \cup Profiles]
    BY <1>10, <2>1 DEF StartNetworkNoReply, TypeInv, TypeOK
  <2> QED
    BY <1>2, <1>10, <2>2, <2>3 DEF StartNetworkNoReply, TypeInv, TypeOK,
       ListCursorInside, Queues, history
<1>11. CASE GetCurrentSettingsReady(s, r)
  <2>1. PICK addr \in IpAddrs :
          /\ session' = [session EXCEPT ![s] =
               [session[s] EXCEPT !.ip_address = CopyAddress(session[s].ip_address, addr),
                                  !.step = Inc(session[s].step)]]
          /\ granted' = [granted EXCEPT ![s] = addr]
    BY <1>11 DEF GetCurrentSettingsReady
  <2> DEFINE buf == CopyAddress(session[s].ip_address, addr)
  <2>2. buf \in [1 .. IpLen -> Byte]
    BY CopyType, TypeFacts
  <2> HIDE DEF buf
  <2>3. [session[s] EXCEPT !.ip_address = buf, !.step = Inc(session[s].step)] \in Sessions
    BY <1>3, <2>2, SessionUpdates
  <2>4. session' \in [Slots -> Sessions]
    BY <2>1, <2>3, TypeFacts DEF buf
  <2>5. granted' \in [Slots -> {<<>>} \cup IpAddrs]
    BY <2>1 DEF TypeInv, TypeOK
  <2> QED
    BY <1>2, <1>11, <2>4, <2>5 DEF GetCurrentSettingsReady, TypeInv, TypeOK,
       ListCursorInside, Queues, external
<1> QED
  BY <1>5, <1>6, <1>7, <1>8, <1>9, <1>10, <1>11

LEMMA ClientTypeInv ==
  ASSUME TypeInv, NEW s \in Slots, AllocateClientReady(s) \/ InitiateSession(s)
  PROVE  TypeInv'
<1>1. CASE AllocateClientReady(s)
  BY <1>1, TypeFacts, LocalStep DEF AllocateClientReady, history
<1>2. CASE InitiateSession(s)
  <2> DEFINE sess == FreshSession(session[s].ip_address)
  <2>2. sess \in Sessions
    BY TypeFacts, FreshType
  <2>3. session' = [session EXCEPT ![s] = sess]
    BY <1>2 DEF InitiateSession, SetSession
  <2> HIDE DEF sess
  <2>4. session' \in [Slots -> Sessions]
    BY <2>2, <2>3, TypeFacts
  <2>5. timers' \in [Slots -> Nat]
    BY <1>2, TypeFacts DEF InitiateSession
  <2>6. activations' \in [Slots -> 0 .. MaxActivations]
    BY <1>2, TypeFacts, BoundsAssumption DEF InitiateSession
  <2> QED
    BY <1>2, <2>4, <2>5, <2>6, TypeFacts, LocalStep DEF InitiateSession
<1> QED
  BY <1>1, <1>2

LEMMA NextTypeInv == TypeInv /\ [Next]_vars => TypeInv'
<1> SUFFICES ASSUME TypeInv, [Next]_vars PROVE TypeInv'
  OBVIOUS
<1>1. ASSUME NEW s \in Slots, NEW r \in Requests, Callback(s, r) PROVE TypeInv'
  BY <1>1, SessionCallbackTypeInv, ListCallbackTypeInv, ModemCallbackTypeInv
     DEF Callback
<1>2. CASE UNCHANGED vars
  BY <1>2 DEF vars, external, history, TypeInv, TypeOK, ListCursorInside
<1> QED
  BY <1>1, <1>2, TickTypeInv, ClientTypeInv DEF Next

LEMMA TypeInvariant == Spec => []TypeInv
BY InitTypeInv, NextTypeInv, PTL DEF Spec

\* Type correctness for every instance: in particular the step stays a uint8,
\* profile identifiers stay inside the modem's table and a mux identifier is
\* one the kernel handed out.
THEOREM TypeCorrect == Spec => []TypeOK
BY TypeInvariant, PTL DEF TypeInv

\* The profile list is never read past its end.
THEOREM CursorCorrect == Spec => []ListCursorInside
BY TypeInvariant, PTL DEF TypeInv

-----------------------------------------------------------------------------
(* One indication per activation: a timer is worth one announcement, an    *)
(* activation arms one timer, and only the tick that removes the timer     *)
(* announces.                                                              *)

LEMMA NextOneIndication ==
  TypeInv /\ OneIndicationPerActivation /\ [Next]_vars => OneIndicationPerActivation'
<1> SUFFICES ASSUME TypeInv, OneIndicationPerActivation, [Next]_vars
             PROVE  OneIndicationPerActivation'
  OBVIOUS
<1>1. \A s \in Slots : /\ timers[s] \in Nat /\ notified[s] \in Nat
                       /\ activations[s] \in Nat
  BY TypeFacts, BoundsAssumption
<1>2. CASE UNCHANGED <<timers, notified, activations>>
  BY <1>2 DEF OneIndicationPerActivation
<1>3. ASSUME NEW s \in Slots, InitiateSession(s) PROVE OneIndicationPerActivation'
  <2>1. /\ timers' = [timers EXCEPT ![s] = timers[s] + 1]
        /\ activations' = [activations EXCEPT ![s] = activations[s] + 1]
        /\ UNCHANGED notified
    BY <1>3 DEF InitiateSession
  <2> QED
    BY <1>1, <2>1, TypeFacts DEF OneIndicationPerActivation
<1>4. ASSUME NEW s \in Slots, TickFinished(s) PROVE OneIndicationPerActivation'
  <2>1. /\ timers' = [timers EXCEPT ![s] = timers[s] - 1]
        /\ notified' = [notified EXCEPT ![s] = notified[s] + 1]
        /\ UNCHANGED activations
    BY <1>4 DEF TickFinished
  <2> QED
    BY <1>1, <2>1, TypeFacts DEF OneIndicationPerActivation
<1>5. ASSUME NEW s \in Slots, TickGiveUp(s) PROVE OneIndicationPerActivation'
  <2>1. /\ timers' = [timers EXCEPT ![s] = timers[s] - 1]
        /\ UNCHANGED <<notified, activations>>
    BY <1>5 DEF TickGiveUp, history
  <2> QED
    BY <1>1, <2>1, TypeFacts DEF OneIndicationPerActivation
<1>6. ASSUME NEW s \in Slots, Tick(s), ~TickFinished(s), ~TickGiveUp(s)
      PROVE  UNCHANGED <<timers, notified, activations>>
  BY <1>6 DEF Tick, QuietTick, TickGetProfiles, TickWithoutClient, TickAddProfile,
     TickModifyProfile, TickProfileReady, TickDummy, TickSetupLink,
     TickBindDataPort, TickStartNetwork, TickWait, TickGetSettings, TickStop,
     vars, history
<1>7. ASSUME NEW s \in Slots, NEW r \in Requests, Callback(s, r)
      PROVE  UNCHANGED <<timers, notified, activations>>
  BY <1>7 DEF Callback, GetProfileListReady, GetProfileListFailed,
     GetProfileSettingsReady, GetProfileSettingsFreed, AddNewProfileReady,
     AddNewProfileFailed, ModifyProfileReady, SetupLinkReady, SetupLinkFailed,
     BindMuxDataPortReady, BindMuxDataPortFailed, StartNetworkReady,
     StartNetworkNoReply, StartNetworkCallFailed, StartNetworkError,
     GetCurrentSettingsReady, GetCurrentSettingsIncomplete,
     GetCurrentSettingsFailed, history
<1>8. ASSUME NEW s \in Slots, AllocateClientReady(s)
      PROVE  UNCHANGED <<timers, notified, activations>>
  BY <1>8 DEF AllocateClientReady, history
<1>9. CASE UNCHANGED vars
  BY <1>2, <1>9 DEF vars, history
<1> QED
  BY <1>2, <1>3, <1>4, <1>5, <1>6, <1>7, <1>8, <1>9 DEF Next

\* However late and however many callbacks push the step counter around, an
\* activation is announced to DCM at most once.
THEOREM OneIndicationTheorem == Spec => []OneIndicationPerActivation
<1>1. Init => OneIndicationPerActivation
  BY DEF Init, OneIndicationPerActivation
<1> QED
  BY <1>1, NextOneIndication, TypeInvariant, PTL DEF Spec

-----------------------------------------------------------------------------
(* One link per activation. What is counted is the budget of a slot: links *)
(* made, requests for a link in flight, and one more while setup_link_done *)
(* is 0. An activation raises it by one at most (it clears the flag), the  *)
(* tick at SETUP_LINK trades the flag for a request, and the answer trades *)
(* the request for a link.                                                 *)

AddLink == Request("add_link", 0)

Unspent(s) == IF activations[s] > 0 /\ session[s].setup_link_done = 0 THEN 1 ELSE 0

LEMMA AddLinkOnly ==
  ASSUME NEW r \in Requests
  PROVE  r.op = "add_link" <=> r = AddLink
BY DEF Requests, AddLink, Request

LEMMA BudgetTypes ==
  ASSUME TypeInv, NEW s \in Slots
  PROVE  /\ IsFiniteSet(links[s]) /\ Cardinality(links[s]) \in Nat
         /\ pending[s] \in Queues
         /\ pending[s][AddLink] \in Nat
         /\ activations[s] \in Nat
         /\ session[s].setup_link_done \in {0, 1}
         /\ Unspent(s) \in {0, 1}
<1>1. links[s] \in SUBSET MuxIds
  BY DEF TypeInv, TypeOK
<1>2. IsFiniteSet(MuxIds)
  BY FS_Interval, BoundsAssumption DEF MuxIds
<1>3. IsFiniteSet(links[s])
  BY <1>1, <1>2, FS_Subset
<1>4. AddLink \in Requests
  BY RequestKinds DEF AddLink
<1> QED
  BY <1>3, <1>4, FS_CardinalityType, TypeFacts, BoundsAssumption
     DEF Queues, Sessions, Unspent

\* Steps that make no link and ask for none.
LinksUntouched ==
  /\ UNCHANGED <<links, activations>>
  /\ \A t \in Slots : /\ session'[t].setup_link_done = session[t].setup_link_done
                      /\ pending'[t][AddLink] = pending[t][AddLink]

LEMMA UntouchedBudget ==
  ASSUME TypeInv, LinkBudget, LinksUntouched
  PROVE  LinkBudget'
BY DEF LinkBudget, LinksUntouched, AddLink

\* Moving the step or any other field keeps the flag.
LEMMA FlagKept ==
  ASSUME TypeInv, NEW s \in Slots, NEW sess \in Sessions, SetSession(s, sess),
         sess.setup_link_done = session[s].setup_link_done
  PROVE  \A t \in Slots : session'[t].setup_link_done = session[t].setup_link_done
BY TypeFacts DEF SetSession

LEMMA FlagKeptByStep ==
  ASSUME TypeInv, NEW s \in Slots, NEW x, SetStep(s, x)
  PROVE  \A t \in Slots : session'[t].setup_link_done = session[t].setup_link_done
BY TypeFacts DEF SetStep, Sessions

\* Sending another request, or answering one, keeps the link requests.
LEMMA SendKeepsAddLink ==
  ASSUME TypeInv, NEW s \in Slots, NEW r \in Requests, r.op # "add_link", Send(s, r)
  PROVE  \A t \in Slots : pending'[t][AddLink] = pending[t][AddLink]
BY AddLinkOnly, TypeFacts DEF Send, Queues

LEMMA AnswerKeepsAddLink ==
  ASSUME TypeInv, NEW s \in Slots, NEW r \in Requests, r.op # "add_link"
  PROVE  Answered(s, r)[AddLink] = pending[s][AddLink]
BY AddLinkOnly, TypeFacts, RequestKinds DEF Answered, Queues

LEMMA ReceiveKeepsAddLink ==
  ASSUME TypeInv, NEW s \in Slots, NEW r \in Requests, r.op # "add_link", Receive(s, r)
  PROVE  \A t \in Slots : pending'[t][AddLink] = pending[t][AddLink]
BY AnswerKeepsAddLink, TypeFacts DEF Receive

LEMMA GetNextKeepsLinks ==
  ASSUME TypeInv, NEW s \in Slots, NEW sess \in Sessions, NEW reqs \in Queues,
         NEW list, GetNextProfileSettings(s, sess, list, reqs),
         sess.setup_link_done = session[s].setup_link_done,
         reqs[AddLink] = pending[s][AddLink]
  PROVE  \A t \in Slots : /\ session'[t].setup_link_done = session[t].setup_link_done
                          /\ pending'[t][AddLink] = pending[t][AddLink]
<1>1. CASE list.i >= list.len
  <2>1. PICK new \in {sess, [sess EXCEPT !.step = FIND_PROFILE_ADD_MODIFY]} :
          SetSession(s, new)
    BY <1>1 DEF GetNextProfileSettings
  <2>2. new \in Sessions /\ new.setup_link_done = sess.setup_link_done
    <3>1. FIND_PROFILE_ADD_MODIFY \in 0 .. 255
      BY DEF FIND_PROFILE_ADD_MODIFY
    <3>2. [sess EXCEPT !.step = FIND_PROFILE_ADD_MODIFY] \in Sessions
      BY <3>1, SessionUpdates
    <3>3. [sess EXCEPT !.step = FIND_PROFILE_ADD_MODIFY].setup_link_done
            = sess.setup_link_done
      BY DEF Sessions
    <3> QED
      BY <3>2, <3>3
  <2>3. pending' = [pending EXCEPT ![s] = reqs]
    BY <1>1 DEF GetNextProfileSettings
  <2> QED
    BY <2>1, <2>2, <2>3, FlagKept, TypeFacts
<1>2. CASE ~(list.i >= list.len)
  <2> DEFINE r == Request("get_profile_settings", list.i + 1)
  <2>1. r # AddLink
    BY DEF Request, AddLink
  <2>2. [reqs EXCEPT ![r] = @ + 1][AddLink] = reqs[AddLink]
    BY <2>1, RequestKinds DEF Queues, AddLink
  <2>3. /\ pending' = [pending EXCEPT ![s] = [reqs EXCEPT ![r] = @ + 1]]
        /\ SetSession(s, sess)
    BY <1>2 DEF GetNextProfileSettings
  <2> QED
    BY <2>2, <2>3, FlagKept, TypeFacts
<1> QED
  BY <1>1, <1>2

\* Every tick but the one at SETUP_LINK.
LEMMA TickKeepsLinks ==
  ASSUME TypeInv, NEW s \in Slots, Tick(s), ~TickSetupLink(s)
  PROVE  LinksUntouched
<1>1. UNCHANGED <<links, activations>>
  BY DEF Tick, QuietTick, TickGetProfiles, TickWithoutClient, TickAddProfile,
     TickModifyProfile, TickProfileReady, TickDummy, TickBindDataPort,
     TickStartNetwork, TickWait, TickGetSettings, TickStop, TickFinished,
     TickGiveUp, vars, external, history
<1>2. \A t \in Slots : session'[t].setup_link_done = session[t].setup_link_done
  <2>1. ASSUME NEW x, SetStep(s, x)
        PROVE  \A t \in Slots :
                 session'[t].setup_link_done = session[t].setup_link_done
    BY <2>1, FlagKeptByStep
  <2> QED
    BY <2>1 DEF Tick, QuietTick, TickGetProfiles, TickWithoutClient,
       TickAddProfile, TickModifyProfile, TickProfileReady, TickDummy,
       TickBindDataPort, TickStartNetwork, TickWait, TickGetSettings, TickStop,
       TickFinished, TickGiveUp, vars
<1>3. \A t \in Slots : pending'[t][AddLink] = pending[t][AddLink]
  <2>1. ASSUME NEW r \in Requests, r.op # "add_link", Send(s, r)
        PROVE  \A t \in Slots : pending'[t][AddLink] = pending[t][AddLink]
    BY <2>1, SendKeepsAddLink
  <2>2. CASE TickGetProfiles(s)
    <3> DEFINE r == Request("get_profile_list", Len(profiles))
    <3>1. r \in Requests /\ r.op # "add_link" /\ Send(s, r)
      BY <2>2, TypeFacts, RequestKinds DEF TickGetProfiles, Request
    <3> QED
      BY <2>1, <3>1
  <2>3. CASE TickAddProfile(s)
    <3> DEFINE r == Request("create_profile", 0)
    <3>1. r \in Requests /\ r.op # "add_link" /\ Send(s, r)
      BY <2>3, RequestKinds DEF TickAddProfile, Request
    <3> QED
      BY <2>1, <3>1
  <2>4. CASE TickModifyProfile(s)
    <3> DEFINE r == Request("modify_profile", 1)
    <3>1. r \in Requests /\ r.op # "add_link" /\ Send(s, r)
      BY <2>4, RequestKinds DEF TickModifyProfile, Request
    <3> QED
      BY <2>1, <3>1
  <2>5. CASE TickBindDataPort(s)
    <3> DEFINE r == Request("bind_mux_data_port", session[s].mux_id)
    <3>1. r \in Requests /\ r.op # "add_link" /\ Send(s, r)
      BY <2>5, TypeFacts, RequestKinds DEF TickBindDataPort, Request
    <3> QED
      BY <2>1, <3>1
  <2>6. CASE TickStartNetwork(s)
    <3> DEFINE r == Request("start_network", session[s].profile_id)
    <3>1. r \in Requests /\ r.op # "add_link" /\ Send(s, r)
      BY <2>6, TypeFacts, RequestKinds DEF TickStartNetwork, Request
    <3> QED
      BY <2>1, <3>1
  <2>7. CASE TickGetSettings(s)
    <3> DEFINE r == Request("get_current_settings", 0)
    <3>1. r \in Requests /\ r.op # "add_link" /\ Send(s, r)
      BY <2>7, RequestKinds DEF TickGetSettings, Request
    <3> QED
      BY <2>1, <3>1
  <2>8. CASE UNCHANGED pending
    BY <2>8
  <2> QED
    BY <2>2, <2>3, <2>4, <2>5, <2>6, <2>7, <2>8
       DEF Tick, QuietTick, TickWithoutClient, TickProfileReady, TickDummy,
           TickWait, TickStop, TickFinished, TickGiveUp, vars
<1> QED
  BY <1>1, <1>2, <1>3 DEF LinksUntouched

\* Every callback but those of the link request.
LEMMA CallbackKeepsLinks ==
  ASSUME TypeInv, NEW s \in Slots, NEW r \in Requests, Callback(s, r),
         r.op # "add_link"
  PROVE  LinksUntouched
<1>1. UNCHANGED <<links, activations>>
  BY DEF Callback, GetProfileListReady, GetProfileListFailed,
     GetProfileSettingsReady, GetProfileSettingsFreed, AddNewProfileReady,
     AddNewProfileFailed, ModifyProfileReady, SetupLinkReady, SetupLinkFailed,
     BindMuxDataPortReady, BindMuxDataPortFailed, StartNetworkReady,
     StartNetworkNoReply, StartNetworkCallFailed, StartNetworkError,
     GetCurrentSettingsReady, GetCurrentSettingsIncomplete,
     GetCurrentSettingsFailed, external, history
<1>2. Answered(s, r)[AddLink] = pending[s][AddLink]
  BY AnswerKeepsAddLink
<1>3. session[s] \in Sessions
  BY TypeFacts
<1>4. CASE GetProfileListReady(s, r)
  <2>1. InFlight(s, r)
    BY <1>4 DEF GetProfileListReady
  <2>2. Answered(s, r) \in Queues
    BY <2>1, AnsweredType, TypeFacts
  <2>3. CASE /\ SetStep(s, FIND_PROFILE_ADD_MODIFY)
             /\ pending' = [pending EXCEPT ![s] = Answered(s, r)]
    BY <1>1, <1>2, <2>3, FlagKeptByStep, TypeFacts DEF LinksUntouched
  <2>4. ASSUME NEW list,
               GetNextProfileSettings(s, session[s], list, Answered(s, r))
        PROVE  LinksUntouched
    BY <1>1, <1>2, <1>3, <2>2, <2>4, GetNextKeepsLinks DEF LinksUntouched
  <2> QED
    BY <1>4, <2>3, <2>4 DEF GetProfileListReady
<1>5. CASE GetProfileSettingsReady(s, r)
  <2>1. InFlight(s, r) /\ profile_list[s].live
    BY <1>5 DEF GetProfileSettingsReady
  <2>2. Answered(s, r) \in Queues
    BY <2>1, AnsweredType, TypeFacts
  <2> DEFINE found == [session[s] EXCEPT !.profile_id = profile_list[s].i + 1,
                                         !.step = PROFILE_READY]
  <2>3. found \in Sessions /\ found.setup_link_done = session[s].setup_link_done
    <3>1. profile_list[s].i + 1 \in Profiles
      <4>1. /\ profile_list[s].i \in Nat /\ profile_list[s].len \in Profiles
            /\ profile_list[s].i < profile_list[s].len
        BY <2>1 DEF TypeInv, TypeOK, ListCursorInside
      <4> QED
        BY <4>1, ProfilesAssumption DEF Profiles
    <3>2. PROFILE_READY \in 0 .. 255
      BY DEF PROFILE_READY
    <3>3. found \in Sessions
      BY <1>3, <3>1, <3>2, SessionUpdates
    <3>4. found.setup_link_done = session[s].setup_link_done
      BY <1>3 DEF Sessions
    <3> QED
      BY <3>3, <3>4
  <2>4. PICK sess \in {found, session[s]} :
          GetNextProfileSettings(s, sess, [profile_list[s] EXCEPT !.i = @ + 1],
                                 Answered(s, r))
    BY <1>5 DEF GetProfileSettingsReady
  <2> HIDE DEF found
  <2>5. sess \in Sessions /\ sess.setup_link_done = session[s].setup_link_done
    BY <1>3, <2>3, <2>4
  <2> QED
    BY <1>1, <1>2, <2>2, <2>4, <2>5, GetNextKeepsLinks DEF LinksUntouched
<1>6. CASE Receive(s, r)
  <2>1. \A t \in Slots : pending'[t][AddLink] = pending[t][AddLink]
    BY <1>6, ReceiveKeepsAddLink
  <2>2. \A t \in Slots : session'[t].setup_link_done = session[t].setup_link_done
    <3>1. ASSUME NEW x, SetStep(s, x)
          PROVE  \A t \in Slots :
                   session'[t].setup_link_done = session[t].setup_link_done
      BY <3>1, FlagKeptByStep
    <3>2. CASE AddNewProfileReady(s, r)
      BY <1>3, <3>2, TypeFacts DEF AddNewProfileReady, Sessions
    <3>3. CASE StartNetworkReady(s, r)
      BY <1>3, <3>3, TypeFacts DEF StartNetworkReady, Sessions
    <3>4. CASE GetCurrentSettingsReady(s, r)
      BY <1>3, <3>4, TypeFacts DEF GetCurrentSettingsReady, Sessions
    <3>5. CASE GetProfileListReady(s, r) \/ GetProfileSettingsReady(s, r)
      BY <1>4, <1>5, <3>5 DEF LinksUntouched
    <3> QED
      BY <3>1, <3>2, <3>3, <3>4, <3>5
         DEF Callback, GetProfileListFailed, GetProfileSettingsFreed,
             AddNewProfileFailed, ModifyProfileReady, SetupLinkReady,
             SetupLinkFailed, BindMuxDataPortReady, BindMuxDataPortFailed,
             StartNetworkNoReply, StartNetworkCallFailed, StartNetworkError,
             GetCurrentSettingsIncomplete, GetCurrentSettingsFailed
  <2> QED
    BY <1>1, <2>1, <2>2 DEF LinksUntouched
<1>7. \/ GetProfileListReady(s, r) \/ GetProfileSettingsReady(s, r) \/ Receive(s, r)
  BY DEF Callback, GetProfileListFailed, GetProfileSettingsFreed,
     AddNewProfileReady, AddNewProfileFailed, ModifyProfileReady, SetupLinkReady,
     SetupLinkFailed, BindMuxDataPortReady, BindMuxDataPortFailed,
     StartNetworkReady, StartNetworkNoReply, StartNetworkCallFailed,
     StartNetworkError, GetCurrentSettingsReady, GetCurrentSettingsIncomplete,
     GetCurrentSettingsFailed
<1> QED
  BY <1>4, <1>5, <1>6, <1>7

LEMMA NextLinkBudget ==
  TypeInv /\ OneIndicationPerActivation /\ LinkBudget /\ [Next]_vars => LinkBudget'
<1> SUFFICES ASSUME TypeInv, OneIndicationPerActivation, LinkBudget, [Next]_vars
             PROVE  LinkBudget'
  OBVIOUS
<1>1. CASE LinksUntouched
  BY <1>1, UntouchedBudget
<1>2. ASSUME NEW s \in Slots, InitiateSession(s) PROVE LinkBudget'
  <2>1. /\ activations' = [activations EXCEPT ![s] = activations[s] + 1]
        /\ session' = [session EXCEPT ![s] = FreshSession(session[s].ip_address)]
        /\ UNCHANGED <<links, pending>>
    BY <1>2 DEF InitiateSession, SetSession, external
  <2>2. SUFFICES ASSUME NEW t \in Slots
                 PROVE  Cardinality(links[t]) + pending[t][AddLink] + Unspent(t)'
                          <= activations'[t]
    BY <2>1 DEF LinkBudget, Unspent, AddLink
  <2>3. Cardinality(links[t]) + pending[t][AddLink] + Unspent(t) <= activations[t]
    BY DEF LinkBudget, Unspent, AddLink
  <2>4. CASE t = s
    <3>1. activations'[t] = activations[t] + 1 /\ Unspent(t)' \in {0, 1}
      BY <2>1, <2>4, TypeFacts DEF Unspent
    <3> QED
      BY <2>3, <3>1, BudgetTypes
  <2>5. CASE t # s
    <3>1. activations'[t] = activations[t] /\ session'[t] = session[t]
      BY <2>1, <2>5, TypeFacts
    <3> QED
      BY <2>3, <3>1 DEF Unspent
  <2> QED
    BY <2>4, <2>5
<1>3. ASSUME NEW s \in Slots, TickSetupLink(s) PROVE LinkBudget'
  <2>1. CASE session[s].setup_link_done # 0
    BY <1>3, <2>1, <1>1 DEF TickSetupLink, external, history, LinksUntouched
  <2>2. CASE session[s].setup_link_done = 0
    <3>1. timers[s] > 0
      BY <1>3 DEF TickSetupLink, Due
    <3>2. activations[s] > 0
      BY <3>1, BudgetTypes, TypeFacts DEF OneIndicationPerActivation
    <3>3. AddLink \in Requests
      BY RequestKinds DEF AddLink
    <3>4. /\ pending' = [pending EXCEPT ![s][AddLink] = @ + 1]
          /\ session' = [session EXCEPT ![s].setup_link_done = 1]
          /\ UNCHANGED <<links, activations>>
      BY <1>3, <2>2 DEF TickSetupLink, Send, AddLink, external, history
    <3>5. SUFFICES ASSUME NEW t \in Slots
                   PROVE  Cardinality(links[t]) + pending'[t][AddLink] + Unspent(t)'
                            <= activations[t]
      BY <3>4 DEF LinkBudget, Unspent, AddLink
    <3>6. Cardinality(links[t]) + pending[t][AddLink] + Unspent(t) <= activations[t]
      BY DEF LinkBudget, Unspent, AddLink
    <3>7. CASE t = s
      <4>1. pending'[t][AddLink] = pending[t][AddLink] + 1
        BY <3>3, <3>4, <3>7, TypeFacts DEF Queues
      <4>2. session'[t].setup_link_done = 1
        BY <3>4, <3>7, TypeFacts DEF Sessions
      <4>3. Unspent(t) = 1 /\ Unspent(t)' = 0
        BY <2>2, <3>2, <3>7, <4>2 DEF Unspent
      <4> QED
        BY <3>6, <4>1, <4>3, BudgetTypes
    <3>8. CASE t # s
      <4>1. pending'[t] = pending[t] /\ session'[t] = session[t]
        BY <3>4, <3>8, TypeFacts
      <4>2. Unspent(t)' = Unspent(t)
        BY <3>4, <4>1 DEF Unspent
      <4> QED
        BY <3>6, <4>1, <4>2
    <3> QED
      BY <3>7, <3>8
  <2> QED
    BY <2>1, <2>2
<1>4. ASSUME NEW s \in Slots, NEW r \in Requests, Callback(s, r), r.op = "add_link"
      PROVE  LinkBudget'
  <2>1. r = AddLink
    BY <1>4, AddLinkOnly
  <2>2. SetupLinkReady(s, r) \/ SetupLinkFailed(s, r)
    BY <1>4 DEF Callback, GetProfileListReady, GetProfileListFailed,
       GetProfileSettingsReady, GetProfileSettingsFreed, AddNewProfileReady,
       AddNewProfileFailed, ModifyProfileReady, BindMuxDataPortReady,
       BindMuxDataPortFailed, StartNetworkReady, StartNetworkNoReply,
       StartNetworkCallFailed, StartNetworkError, GetCurrentSettingsReady,
       GetCurrentSettingsIncomplete, GetCurrentSettingsFailed
  <2>3. /\ InFlight(s, AddLink)
        /\ pending' = [pending EXCEPT ![s] = Answered(s, AddLink)]
        /\ UNCHANGED activations
    BY <2>1, <2>2 DEF SetupLinkReady, SetupLinkFailed, Receive, history
  <2>4. pending[s][AddLink] > 0 /\ Answered(s, AddLink)[AddLink] = pending[s][AddLink] - 1
    BY <2>1, <2>3, BudgetTypes DEF InFlight, Answered, Queues
  <2>5. \A t \in Slots : session'[t].setup_link_done = session[t].setup_link_done
    <3>1. CASE SetupLinkReady(s, r)
      BY <3>1, TypeFacts DEF SetupLinkReady, Sessions
    <3>2. CASE SetupLinkFailed(s, r)
      BY <3>2 DEF SetupLinkFailed
    <3> QED
      BY <2>2, <3>1, <3>2
  <2>6. /\ Cardinality(links'[s]) <= Cardinality(links[s]) + 1
        /\ Cardinality(links'[s]) \in Nat
        /\ \A t \in Slots : t # s => links'[t] = links[t]
    <3>1. CASE SetupLinkReady(s, r)
      <4>0. DOMAIN links = Slots
        BY DEF TypeInv, TypeOK
      <4>1. PICK mux : links' = [links EXCEPT ![s] = links[s] \cup {mux}]
        BY <3>1 DEF SetupLinkReady
      <4>2. links'[s] = links[s] \cup {mux}
        BY <4>1, <4>0
      <4>3. /\ Cardinality(links[s] \cup {mux}) \in Nat
            /\ Cardinality(links[s] \cup {mux}) <= Cardinality(links[s]) + 1
        <5>1. IsFiniteSet(links[s]) /\ Cardinality(links[s]) \in Nat
          BY BudgetTypes
        <5>2. \/ Cardinality(links[s] \cup {mux}) = Cardinality(links[s])
              \/ Cardinality(links[s] \cup {mux}) = Cardinality(links[s]) + 1
          BY <5>1, FS_AddElement, Zenon
        <5> QED
          BY <5>1, <5>2
      <4>4. \A t \in Slots : t # s => links'[t] = links[t]
        BY <4>0, <4>1
      <4> QED
        BY <4>2, <4>3, <4>4
    <3>2. CASE SetupLinkFailed(s, r)
      BY <3>2, BudgetTypes DEF SetupLinkFailed, external
    <3> QED
      BY <2>2, <3>1, <3>2
  <2>7. SUFFICES ASSUME NEW t \in Slots
                 PROVE  Cardinality(links'[t]) + pending'[t][AddLink] + Unspent(t)'
                          <= activations'[t]
    BY DEF LinkBudget, Unspent, AddLink
  <2>8. Cardinality(links[t]) + pending[t][AddLink] + Unspent(t) <= activations[t]
    BY DEF LinkBudget, Unspent, AddLink
  <2>9. Unspent(t)' = Unspent(t) /\ activations'[t] = activations[t]
    BY <2>3, <2>5 DEF Unspent
  <2>10. CASE t = s
    <3>1. pending'[t][AddLink] = pending[t][AddLink] - 1
      BY <2>3, <2>4, <2>10, TypeFacts
    <3> QED
      BY <2>6, <2>8, <2>9, <2>10, <3>1, BudgetTypes
  <2>11. CASE t # s
    <3>1. pending'[t] = pending[t] /\ links'[t] = links[t]
      BY <2>3, <2>6, <2>11, TypeFacts
    <3> QED
      BY <2>8, <2>9, <3>1
  <2> QED
    BY <2>10, <2>11
<1>5. ASSUME NEW s \in Slots, AllocateClientReady(s) PROVE LinksUntouched
  BY <1>5 DEF AllocateClientReady, external, history, LinksUntouched
<1>6. CASE UNCHANGED vars
  BY <1>1, <1>6 DEF vars, external, history, LinksUntouched
<1> QED
  BY <1>1, <1>2, <1>3, <1>4, <1>5, <1>6, TickKeepsLinks, CallbackKeepsLinks DEF Next

LEMMA LinkBudgetInvariant == Spec => []LinkBudget
<1>1. ASSUME Init PROVE LinkBudget
  <2>1. SUFFICES ASSUME NEW s \in Slots
                 PROVE  Cardinality(links[s]) + pending[s][AddLink] + Unspent(s)
                          <= activations[s]
    BY DEF LinkBudget, Unspent, AddLink
  <2>2. /\ links[s] = {} /\ activations[s] = 0
        /\ pending[s][AddLink] = 0
    BY <1>1, RequestKinds DEF Init, AddLink
  <2>3. Unspent(s) = 0
    BY <2>2 DEF Unspent
  <2> QED
    BY <2>2, <2>3, FS_EmptySet
<1>2. Spec => []OneIndicationPerActivation
  BY OneIndicationTheorem
<1> QED
  BY <1>1, <1>2, NextLinkBudget, TypeInvariant, PTL DEF Spec

\* An activation costs at most one network link, whatever is repeated, late or
\* left over from an earlier activation.
THEOREM OneLinkTheorem == Spec => []OneLinkPerActivation
<1>1. TypeInv /\ LinkBudget => OneLinkPerActivation
  <2> SUFFICES ASSUME TypeInv, LinkBudget, NEW s \in Slots
               PROVE  Cardinality(links[s]) <= activations[s]
    BY DEF OneLinkPerActivation
  <2>1. Cardinality(links[s]) + pending[s][AddLink] + Unspent(s) <= activations[s]
    BY DEF LinkBudget, Unspent, AddLink
  <2> QED
    BY <2>1, BudgetTypes
<1> QED
  BY <1>1, TypeInvariant, LinkBudgetInvariant, PTL

-----------------------------------------------------------------------------
(* The stages of a first activation rest on their resources, and with one  *)
(* activation per slot the bring-up implements Bearer. First the invariant *)
(* of one slot, and the moves that keep it.                                *)

Staged(s) ==
  /\ StageHasResources(s)
  /\ RequestsFitSession(s)
  /\ links[s] = {session[s].mux_id} \ {NoMux}
  /\ links[s] # {} => session[s].setup_link_done = 1
  /\ network[s] # 0
  /\ activations[s] = 0 => NothingTakenYet(s)

StageInv == \A s \in Slots : activations[s] <= 1 => Staged(s)

\* A request that slot s may send in the stage it has reached.
Sendable(s, r) ==
  /\ r.op = "bind_mux_data_port" => r.arg = session[s].mux_id /\ NeedsLink(s)
  /\ r.op = "start_network" => r.arg # 0 /\ NeedsBinding(s)
  /\ r.op = "get_current_settings" => NeedsBinding(s)
  /\ r.op = "add_link" => session'[s].setup_link_done = 1

\* The queue, the session and the modem's side of slot s change like this in
\* every step but an activation and the making of a link.
QueueMove(s) ==
  \A r \in Requests : pending'[s][r] > 0 => pending[s][r] > 0 \/ Sendable(s, r)

SessionMove(s) ==
  /\ session'[s].mux_id = session[s].mux_id
  /\ session[s].profile_id # 0 => session'[s].profile_id # 0
  /\ session[s].setup_link_done = 1 => session'[s].setup_link_done = 1
  /\ session'[s].setup_link_done = 1 => NeedsProfile(s)
  /\ session'[s].step >= PROFILE_READY => NeedsProfile(s) \/ session'[s].profile_id # 0
  /\ session'[s].step >= LINK_BRINGUP => NeedsLink(s)
  /\ session'[s].step >= SELECT_IP_FAMILY_IPV4 =>
       NeedsBinding(s) \/ (NeedsLink(s) /\ bound'[s] = session[s].mux_id)

ModemMove(s) ==
  /\ links'[s] = links[s]
  /\ bound'[s] \in {bound[s], session[s].mux_id}
  /\ network'[s] = network[s] \/ (network'[s] # 0 /\ NeedsBinding(s))

StageMove(s) ==
  /\ activations'[s] = activations[s] /\ activations[s] # 0
  /\ QueueMove(s) /\ SessionMove(s) /\ ModemMove(s)

\* A link needs a profile, because it needed setup_link_done.
LEMMA LinkNeedsProfile ==
  ASSUME NEW s \in Slots, Staged(s), NeedsLink(s)
  PROVE  /\ session[s].mux_id # NoMux /\ session[s].mux_id \in links[s]
         /\ session[s].setup_link_done = 1
         /\ session[s].profile_id # 0
<1>1. session[s].mux_id \in links[s]
  BY DEF Staged, StageHasResources
<1>2. session[s].setup_link_done = 1
  BY <1>1 DEF Staged
<1>3. session[s].profile_id # 0
  BY <1>2 DEF Staged, StageHasResources, NeedsProfile
<1> QED
  BY <1>1, <1>2, <1>3 DEF Staged

LEMMA MoveKeepsStage ==
  ASSUME TypeInv, NEW s \in Slots, Staged(s), StageMove(s)
  PROVE  Staged(s)'
<1>1. NeedsBinding(s) => NeedsLink(s)
  BY DEF NeedsLink
<1>2. ASSUME NEW op, op \in {"start_network", "get_current_settings"},
             Waiting(s, op)'
      PROVE  NeedsBinding(s)
  <2>1. PICK r \in Requests : r.op = op /\ pending'[s][r] > 0
    BY <1>2 DEF Waiting
  <2>2. CASE pending[s][r] > 0
    BY <1>2, <2>1, <2>2 DEF NeedsBinding, Waiting
  <2>3. CASE Sendable(s, r)
    BY <1>2, <2>1, <2>3 DEF Sendable
  <2> QED
    BY <2>1, <2>2, <2>3 DEF StageMove, QueueMove
<1>3. ASSUME Waiting(s, "bind_mux_data_port")' PROVE NeedsLink(s)
  <2>1. PICK r \in Requests : r.op = "bind_mux_data_port" /\ pending'[s][r] > 0
    BY <1>3 DEF Waiting
  <2>2. CASE pending[s][r] > 0
    BY <2>1, <2>2 DEF NeedsLink, Waiting
  <2>3. CASE Sendable(s, r)
    BY <2>1, <2>3 DEF Sendable
  <2> QED
    BY <2>1, <2>2, <2>3 DEF StageMove, QueueMove
<1>4. NeedsBinding(s)' => NeedsBinding(s) \/ (NeedsLink(s) /\ bound'[s] = session[s].mux_id)
  <2>1. network'[s] # NoNet => NeedsBinding(s)
    BY DEF StageMove, ModemMove, NeedsBinding
  <2> QED
    BY <1>2, <2>1 DEF StageMove, SessionMove, NeedsBinding
<1>5. NeedsLink(s)' => NeedsLink(s)
  BY <1>1, <1>3, <1>4 DEF NeedsLink, StageMove, SessionMove
<1>6. NeedsProfile(s)' => NeedsProfile(s) \/ session'[s].profile_id # 0
  BY DEF NeedsProfile, StageMove, SessionMove
<1>7. StageHasResources(s)'
  <2>1. NeedsProfile(s)' => session'[s].profile_id # 0
    BY <1>6 DEF Staged, StageHasResources, StageMove, SessionMove
  <2>2. NeedsLink(s)' => session'[s].mux_id \in links'[s]
    BY <1>5 DEF Staged, StageHasResources, StageMove, SessionMove, ModemMove
  <2>3. NeedsBinding(s)' => bound'[s] = session'[s].mux_id
    BY <1>4 DEF Staged, StageHasResources, StageMove, SessionMove, ModemMove
  <2> QED
    BY <2>1, <2>2, <2>3 DEF StageHasResources
<1>8. RequestsFitSession(s)'
  <2> SUFFICES ASSUME NEW r \in Requests, pending'[s][r] > 0
               PROVE  /\ r.op = "bind_mux_data_port" => r.arg = session'[s].mux_id
                      /\ r.op = "start_network" => r.arg # 0
                      /\ r.op = "add_link" => session'[s].setup_link_done = 1
    BY DEF RequestsFitSession
  <2>1. CASE pending[s][r] > 0
    BY <2>1 DEF Staged, RequestsFitSession, StageMove, SessionMove
  <2>2. CASE Sendable(s, r)
    BY <2>2 DEF Sendable, StageMove, SessionMove
  <2> QED
    BY <2>1, <2>2 DEF StageMove, QueueMove
<1>9. /\ links'[s] = {session'[s].mux_id} \ {NoMux}
      /\ links'[s] # {} => session'[s].setup_link_done = 1
      /\ network'[s] # 0
      /\ activations'[s] # 0
  BY DEF Staged, StageMove, SessionMove, ModemMove
<1> QED
  BY <1>7, <1>8, <1>9 DEF Staged

\* What happens in one slot leaves the others alone.
LEMMA OtherSlot ==
  ASSUME NEW t \in Slots, Staged(t),
         session'[t] = session[t], pending'[t] = pending[t], links'[t] = links[t],
         bound'[t] = bound[t], network'[t] = network[t],
         activations'[t] = activations[t]
  PROVE  Staged(t)'
BY DEF Staged, StageHasResources, NeedsProfile, NeedsLink, NeedsBinding, Waiting,
   RequestsFitSession, NothingTakenYet, Idle

-----------------------------------------------------------------------------
(* The moves the actions are made of.                                      *)

LEMMA SendMove ==
  ASSUME TypeInv, NEW s \in Slots, NEW r \in Requests, Send(s, r), Sendable(s, r)
  PROVE  QueueMove(s)
<1>1. \A q \in Requests : q # r => pending'[s][q] = pending[s][q]
  BY TypeFacts DEF Send, Queues
<1> QED
  BY <1>1 DEF QueueMove

LEMMA AnswerMove ==
  ASSUME TypeInv, NEW s \in Slots, NEW r \in Requests, NEW q \in Requests,
         Answered(s, r)[q] > 0
  PROVE  pending[s][q] > 0
BY TypeFacts DEF Answered, Queues

LEMMA ReceiveMove ==
  ASSUME TypeInv, NEW s \in Slots, NEW r \in Requests, Receive(s, r)
  PROVE  QueueMove(s)
<1>1. pending'[s] = Answered(s, r)
  BY TypeFacts DEF Receive
<1> QED
  BY <1>1, AnswerMove DEF QueueMove

\* A step the session may be set to.
Reaches(s, x) ==
  \/ x < PROFILE_READY
  \/ x < LINK_BRINGUP /\ (NeedsProfile(s) \/ session[s].profile_id # 0)
  \/ x < SELECT_IP_FAMILY_IPV4 /\ NeedsLink(s)
  \/ NeedsLink(s) /\ bound'[s] = session[s].mux_id
  \/ NeedsBinding(s)

LEMMA SessionMoveBy ==
  ASSUME TypeInv, NEW s \in Slots, Staged(s), NEW sess, SetSession(s, sess),
         sess.mux_id = session[s].mux_id,
         sess.setup_link_done = session[s].setup_link_done,
         sess.profile_id = session[s].profile_id,
         sess.step \in 0 .. 255, Reaches(s, sess.step)
  PROVE  SessionMove(s)
<1>1. session'[s] = sess
  BY TypeFacts DEF SetSession
<1>2. NeedsBinding(s) => NeedsLink(s)
  BY DEF NeedsLink
<1>3. NeedsLink(s) => NeedsProfile(s)
  BY LinkNeedsProfile DEF NeedsProfile
<1>4. session[s].setup_link_done = 1 => NeedsProfile(s)
  BY DEF NeedsProfile
<1> QED
  BY <1>1, <1>2, <1>3, <1>4 DEF SessionMove, Reaches, PROFILE_READY, LINK_BRINGUP,
     SELECT_IP_FAMILY_IPV4

LEMMA StepMove ==
  ASSUME TypeInv, NEW s \in Slots, Staged(s), NEW x \in 0 .. 255, SetStep(s, x),
         Reaches(s, x)
  PROVE  SessionMove(s)
<1> DEFINE sess == [session[s] EXCEPT !.step = x]
<1>1. SetSession(s, sess)
  BY DEF SetStep, SetSession
<1>2. /\ sess.mux_id = session[s].mux_id
      /\ sess.setup_link_done = session[s].setup_link_done
      /\ sess.profile_id = session[s].profile_id
      /\ sess.step = x
  BY TypeFacts DEF Sessions
<1> HIDE DEF sess
<1> QED
  BY <1>1, <1>2, SessionMoveBy

LEMMA SessionStays ==
  ASSUME TypeInv, NEW s \in Slots, Staged(s), UNCHANGED session
  PROVE  SessionMove(s)
<1>1. NeedsBinding(s) => NeedsLink(s)
  BY DEF NeedsLink
<1>2. NeedsLink(s) => NeedsProfile(s)
  BY LinkNeedsProfile DEF NeedsProfile
<1> QED
  BY <1>1, <1>2, TypeFacts DEF SessionMove, NeedsProfile, NeedsLink, NeedsBinding

LEMMA QueueStays ==
  ASSUME NEW s \in Slots, UNCHANGED pending
  PROVE  QueueMove(s)
BY DEF QueueMove

LEMMA ModemStays ==
  ASSUME NEW s \in Slots, UNCHANGED <<links, bound, network>>
  PROVE  ModemMove(s)
BY DEF ModemMove

-----------------------------------------------------------------------------
(* Every tick is a move of its slot.                                       *)

LEMMA TickMove ==
  ASSUME TypeInv, OneIndicationPerActivation, NEW s \in Slots, Staged(s), Tick(s)
  PROVE  StageMove(s)
<1>1. activations[s] # 0
  <2>1. timers[s] > 0
    BY DEF Tick, QuietTick, TickGetProfiles, TickWithoutClient, TickAddProfile,
       TickModifyProfile, TickProfileReady, TickDummy, TickSetupLink,
       TickBindDataPort, TickStartNetwork, TickWait, TickGetSettings, TickStop,
       TickFinished, TickGiveUp, Due
  <2> QED
    BY <2>1, TypeFacts, BoundsAssumption DEF OneIndicationPerActivation
<1>2. UNCHANGED <<links, bound, network, activations>>
  BY DEF Tick, QuietTick, TickGetProfiles, TickWithoutClient, TickAddProfile,
     TickModifyProfile, TickProfileReady, TickDummy, TickSetupLink,
     TickBindDataPort, TickStartNetwork, TickWait, TickGetSettings, TickStop,
     TickFinished, TickGiveUp, vars, external, history
<1>3. SUFFICES QueueMove(s) /\ SessionMove(s)
  BY <1>1, <1>2, ModemStays DEF StageMove
<1>4. session[s].step \in 0 .. 255 /\ session[s] \in Sessions
  BY TypeFacts
<1>5. CASE TickGetProfiles(s)
  <2> DEFINE r == Request("get_profile_list", Len(profiles))
  <2>1. r \in Requests /\ Sendable(s, r) /\ Send(s, r)
    BY <1>5, TypeFacts, RequestKinds DEF TickGetProfiles, Sendable, Request
  <2> QED
    BY <1>5, <2>1, SendMove, SessionStays DEF TickGetProfiles
<1>6. CASE TickAddProfile(s)
  <2> DEFINE r == Request("create_profile", 0)
  <2>1. r \in Requests /\ Sendable(s, r) /\ Send(s, r)
    BY <1>6, RequestKinds DEF TickAddProfile, Sendable, Request
  <2> QED
    BY <1>6, <2>1, SendMove, SessionStays DEF TickAddProfile
<1>7. CASE TickModifyProfile(s)
  <2> DEFINE r == Request("modify_profile", 1)
  <2>1. r \in Requests /\ Sendable(s, r) /\ Send(s, r)
    BY <1>7, RequestKinds DEF TickModifyProfile, Sendable, Request
  <2>2. Reaches(s, PROFILE_READY) /\ PROFILE_READY \in 0 .. 255
    BY <1>7 DEF TickModifyProfile, Reaches, PROFILE_READY, LINK_BRINGUP
  <2> QED
    BY <1>7, <2>1, <2>2, SendMove, StepMove DEF TickModifyProfile
<1>8. CASE TickProfileReady(s)
  <2>1. Reaches(s, SETUP_DATA_FORMAT) /\ SETUP_DATA_FORMAT \in 0 .. 255
    BY <1>8 DEF TickProfileReady, Due, Reaches, NeedsProfile, PROFILE_READY,
       SETUP_DATA_FORMAT, LINK_BRINGUP
  <2> QED
    BY <1>8, <2>1, QueueStays, StepMove DEF TickProfileReady
<1>9. CASE TickDummy(s)
  <2>1. session[s].step \in {3, 5, 6, 8, 11}
    BY <1>9 DEF TickDummy, Due, DummySteps, SETUP_DATA_FORMAT, LINK_BRINGUP,
       SET_IP_BEARER_METHOD, SELECT_IP_FAMILY_IPV4, REGISTER_INDICATIONS
  <2>2. Reaches(s, Inc(session[s].step))
    BY <2>1 DEF Reaches, Inc, NeedsProfile, NeedsLink, NeedsBinding, PROFILE_READY,
       LINK_BRINGUP, SELECT_IP_FAMILY_IPV4
  <2> QED
    BY <1>4, <1>9, <2>2, QueueStays, StepMove, StepArithmetic DEF TickDummy
<1>10. CASE TickSetupLink(s)
  <2>1. NeedsProfile(s)
    BY <1>10 DEF TickSetupLink, Due, NeedsProfile, SETUP_LINK, PROFILE_READY
  <2>2. CASE session[s].setup_link_done = 0
    <3>1. /\ session'[s] = [session[s] EXCEPT !.setup_link_done = 1]
          /\ Send(s, Request("add_link", 0))
      BY <1>10, <2>2, TypeFacts DEF TickSetupLink
    <3>2. /\ session'[s].setup_link_done = 1
          /\ session'[s].mux_id = session[s].mux_id
          /\ session'[s].profile_id = session[s].profile_id
          /\ session'[s].step = SETUP_LINK
      BY <1>4, <1>10, <3>1 DEF Sessions, TickSetupLink, Due
    <3>3. SessionMove(s)
      BY <2>1, <3>2 DEF SessionMove, SETUP_LINK, PROFILE_READY, LINK_BRINGUP,
         SELECT_IP_FAMILY_IPV4
    <3>4. Request("add_link", 0) \in Requests /\ Sendable(s, Request("add_link", 0))
      BY <3>2, RequestKinds DEF Sendable, Request
    <3> QED
      BY <3>1, <3>3, <3>4, SendMove
  <2>3. CASE session[s].setup_link_done # 0
    BY <1>10, <2>3, QueueStays, SessionStays DEF TickSetupLink
  <2> QED
    BY <2>2, <2>3
<1>11. CASE TickBindDataPort(s)
  <2> DEFINE r == Request("bind_mux_data_port", session[s].mux_id)
  <2>1. NeedsLink(s)
    BY <1>11 DEF TickBindDataPort, Due, NeedsLink, BIND_DATA_PORT_IPV4, LINK_BRINGUP
  <2>2. r \in Requests /\ Sendable(s, r) /\ Send(s, r)
    BY <1>11, <2>1, TypeFacts, RequestKinds DEF TickBindDataPort, Sendable, Request
  <2> QED
    BY <1>11, <2>2, SendMove, SessionStays DEF TickBindDataPort
<1>12. CASE TickStartNetwork(s)
  <2> DEFINE r == Request("start_network", session[s].profile_id)
  <2>1. NeedsBinding(s) /\ NeedsLink(s)
    BY <1>12 DEF TickStartNetwork, Due, NeedsLink, NeedsBinding,
       DO_START_NETWORK_IPV4, SELECT_IP_FAMILY_IPV4
  <2>2. r \in Requests /\ Sendable(s, r) /\ Send(s, r)
    <3>1. session[s].profile_id # 0
      BY <2>1, LinkNeedsProfile
    <3> QED
      BY <1>12, <2>1, <3>1, TypeFacts, RequestKinds
         DEF TickStartNetwork, Sendable, Request
  <2>3. Reaches(s, Inc(session[s].step))
    BY <2>1 DEF Reaches
  <2> QED
    BY <1>4, <1>12, <2>2, <2>3, SendMove, StepMove, StepArithmetic
       DEF TickStartNetwork
<1>13. CASE TickGetSettings(s)
  <2> DEFINE r == Request("get_current_settings", 0)
  <2>1. NeedsBinding(s)
    BY <1>13 DEF TickGetSettings, Due, NeedsBinding, GET_SETTINGS_IPV4,
       SELECT_IP_FAMILY_IPV4
  <2>2. r \in Requests /\ Sendable(s, r) /\ Send(s, r)
    BY <1>13, <2>1, RequestKinds DEF TickGetSettings, Sendable, Request
  <2> QED
    BY <1>13, <2>2, SendMove, SessionStays DEF TickGetSettings
<1>14. CASE TickStop(s)
  <2>1. Reaches(s, FINISHED) /\ FINISHED \in 0 .. 255
    BY <1>14 DEF TickStop, Due, Reaches, NeedsBinding, BIND_DATA_PORT_IPV6,
       SELECT_IP_FAMILY_IPV4, FINISHED
  <2> QED
    BY <1>14, <2>1, QueueStays, StepMove DEF TickStop
<1>15. CASE UNCHANGED <<pending, session>>
  BY <1>15, QueueStays, SessionStays
<1> QED
  BY <1>5, <1>6, <1>7, <1>8, <1>9, <1>10, <1>11, <1>12, <1>13, <1>14, <1>15
     DEF Tick, QuietTick, TickWithoutClient, TickWait, TickFinished, TickGiveUp, vars

-----------------------------------------------------------------------------
(* Every callback but the one that brings a new link is a move of its slot.*)

\* A profile has been found or made.
LEMMA ProfileMove ==
  ASSUME TypeInv, NEW s \in Slots, Staged(s), NEW sess, SetSession(s, sess),
         sess.mux_id = session[s].mux_id,
         sess.setup_link_done = session[s].setup_link_done,
         sess.profile_id # 0, sess.step = PROFILE_READY
  PROVE  SessionMove(s)
<1>1. session'[s] = sess
  BY TypeFacts DEF SetSession
<1> QED
  BY <1>1 DEF SessionMove, NeedsProfile, PROFILE_READY, LINK_BRINGUP,
     SELECT_IP_FAMILY_IPV4

\* The list is walked on: nothing found yet, or a profile just now.
LEMMA GetNextMove ==
  ASSUME TypeInv, NEW s \in Slots, Staged(s), NEW sess \in Sessions,
         NEW list \in [live : {TRUE}, i : Nat, len : Profiles],
         NEW r \in Requests,
         GetNextProfileSettings(s, sess, list, Answered(s, r)),
         \/ sess = session[s]
         \/ /\ sess.mux_id = session[s].mux_id
            /\ sess.setup_link_done = session[s].setup_link_done
            /\ sess.profile_id # 0 /\ sess.step = PROFILE_READY
  PROVE  QueueMove(s) /\ SessionMove(s)
<1>1. Reaches(s, session[s].step) /\ session[s].step \in 0 .. 255
  <2>1. session[s].step \in 0 .. 255
    BY TypeFacts
  <2> QED
    BY <2>1 DEF Reaches, NeedsProfile, NeedsLink, NeedsBinding, PROFILE_READY,
       LINK_BRINGUP, SELECT_IP_FAMILY_IPV4
<1>2. ASSUME SetSession(s, sess) PROVE SessionMove(s)
  BY <1>1, <1>2, SessionMoveBy, ProfileMove
<1>3. ASSUME sess.profile_id = 0,
             SetSession(s, [sess EXCEPT !.step = FIND_PROFILE_ADD_MODIFY])
      PROVE  SessionMove(s)
  <2>1. sess = session[s]
    BY <1>3
  <2>2. SetStep(s, FIND_PROFILE_ADD_MODIFY)
    BY <1>3, <2>1 DEF SetSession, SetStep
  <2>3. Reaches(s, FIND_PROFILE_ADD_MODIFY) /\ FIND_PROFILE_ADD_MODIFY \in 0 .. 255
    BY DEF Reaches, FIND_PROFILE_ADD_MODIFY, PROFILE_READY
  <2> QED
    BY <2>2, <2>3, StepMove
<1>4. CASE list.i >= list.len
  <2>1. pending'[s] = Answered(s, r)
    BY <1>4, TypeFacts DEF GetNextProfileSettings
  <2>2. QueueMove(s)
    BY <2>1, AnswerMove DEF QueueMove
  <2> QED
    BY <1>2, <1>3, <1>4, <2>2 DEF GetNextProfileSettings
<1>5. CASE ~(list.i >= list.len)
  <2> DEFINE next == Request("get_profile_settings", list.i + 1)
  <2>1. /\ pending'[s] = [Answered(s, r) EXCEPT ![next] = @ + 1]
        /\ SetSession(s, sess)
    BY <1>5, TypeFacts DEF GetNextProfileSettings
  <2>2. Sendable(s, next)
    BY DEF Sendable, Request
  <2>3. \A q \in Requests : q # next => pending'[s][q] = Answered(s, r)[q]
    BY <2>1, TypeFacts DEF Answered, Queues
  <2>4. QueueMove(s)
    BY <2>2, <2>3, AnswerMove DEF QueueMove
  <2> QED
    BY <1>2, <2>1, <2>4
<1> QED
  BY <1>4, <1>5

LEMMA ListCallbackMove ==
  ASSUME TypeInv, NEW s \in Slots, Staged(s), NEW r \in Requests,
         GetProfileListReady(s, r) \/ GetProfileSettingsReady(s, r)
  PROVE  QueueMove(s) /\ SessionMove(s)
<1>0. session[s] \in Sessions
  BY TypeFacts
<1>1. CASE GetProfileListReady(s, r)
  <2>1. PICK len \in r.arg .. Len(profiles) :
          IF len = 0
          THEN /\ SetStep(s, FIND_PROFILE_ADD_MODIFY)
               /\ pending' = [pending EXCEPT ![s] = Answered(s, r)]
               /\ UNCHANGED profile_list
          ELSE GetNextProfileSettings(s, session[s],
                 [live |-> TRUE, i |-> 0, len |-> len], Answered(s, r))
    BY <1>1 DEF GetProfileListReady
  <2>2. CASE len = 0
    <3>1. Reaches(s, FIND_PROFILE_ADD_MODIFY) /\ FIND_PROFILE_ADD_MODIFY \in 0 .. 255
      BY DEF Reaches, FIND_PROFILE_ADD_MODIFY, PROFILE_READY
    <3>2. pending'[s] = Answered(s, r)
      BY <2>1, <2>2, TypeFacts
    <3>3. QueueMove(s)
      BY <3>2, AnswerMove DEF QueueMove
    <3> QED
      BY <2>1, <2>2, <3>1, <3>3, StepMove
  <2>3. CASE len # 0
    <3> DEFINE list == [live |-> TRUE, i |-> 0, len |-> len]
    <3>1. r.arg \in Profiles /\ Len(profiles) \in Profiles
      BY <1>1, RequestArgs, TypeFacts DEF GetProfileListReady
    <3>2. list \in [live : {TRUE}, i : Nat, len : Profiles]
      BY <3>1, ProfilesAssumption DEF Profiles
    <3>3. GetNextProfileSettings(s, session[s], list, Answered(s, r))
      BY <2>1, <2>3
    <3> HIDE DEF list
    <3> QED
      BY <1>0, <3>2, <3>3, GetNextMove
  <2> QED
    BY <2>2, <2>3
<1>2. CASE GetProfileSettingsReady(s, r)
  <2>1. profile_list[s] \in [live : BOOLEAN, i : Nat, len : Profiles]
    BY DEF TypeInv, TypeOK
  <2>2. profile_list[s].live /\ profile_list[s].i < profile_list[s].len
    BY <1>2 DEF GetProfileSettingsReady, TypeInv, ListCursorInside
  <2>3. profile_list[s].i + 1 \in Profiles /\ profile_list[s].i + 1 # 0
    <3>1. /\ profile_list[s].i \in Nat /\ profile_list[s].len \in Profiles
          /\ profile_list[s].i < profile_list[s].len
      BY <2>1, <2>2
    <3> QED
      BY <3>1, ProfilesAssumption DEF Profiles
  <2> DEFINE found == [session[s] EXCEPT !.profile_id = profile_list[s].i + 1,
                                         !.step = PROFILE_READY]
             list == [profile_list[s] EXCEPT !.i = @ + 1]
  <2>4. PICK sess \in {found, session[s]} :
          GetNextProfileSettings(s, sess, list, Answered(s, r))
    BY <1>2 DEF GetProfileSettingsReady
  <2>5. list \in [live : {TRUE}, i : Nat, len : Profiles]
    <3>1. \A l \in [live : {TRUE}, i : Nat, len : Profiles], n \in Nat :
            [l EXCEPT !.i = n] \in [live : {TRUE}, i : Nat, len : Profiles]
      OBVIOUS
    <3>2. profile_list[s] \in [live : {TRUE}, i : Nat, len : Profiles]
      BY <2>1, <2>2
    <3>3. profile_list[s].i + 1 \in Nat
      BY <2>1
    <3> QED
      BY <3>1, <3>2, <3>3
  <2>6. /\ found \in Sessions
        /\ found.mux_id = session[s].mux_id
        /\ found.setup_link_done = session[s].setup_link_done
        /\ found.profile_id # 0 /\ found.step = PROFILE_READY
    <3>1. PROFILE_READY \in 0 .. 255
      BY DEF PROFILE_READY
    <3>2. found \in Sessions
      BY <1>0, <2>3, <3>1, SessionUpdates
    <3> QED
      BY <1>0, <2>3, <3>2 DEF Sessions
  <2> HIDE DEF found, list
  <2> QED
    BY <1>0, <2>4, <2>5, <2>6, GetNextMove
<1> QED
  BY <1>1, <1>2

LEMMA CallbackMove ==
  ASSUME TypeInv, NEW s \in Slots, Staged(s), NEW r \in Requests, Callback(s, r),
         ~SetupLinkReady(s, r)
  PROVE  StageMove(s)
<1>1. pending[s][r] > 0 /\ UNCHANGED <<links, activations>>
  BY DEF Callback, InFlight, Receive, GetProfileListReady, GetProfileListFailed,
     GetProfileSettingsReady, GetProfileSettingsFreed, AddNewProfileReady,
     AddNewProfileFailed, ModifyProfileReady, SetupLinkFailed,
     BindMuxDataPortReady, BindMuxDataPortFailed, StartNetworkReady,
     StartNetworkNoReply, StartNetworkCallFailed, StartNetworkError,
     GetCurrentSettingsReady, GetCurrentSettingsIncomplete,
     GetCurrentSettingsFailed, external, history
<1>2. activations[s] # 0
  BY <1>1, TypeFacts DEF Staged, NothingTakenYet, Idle, Queues
<1>3. SUFFICES QueueMove(s) /\ SessionMove(s) /\ ModemMove(s)
  BY <1>1, <1>2 DEF StageMove
<1>4. session[s] \in Sessions /\ Inc(session[s].step) \in 0 .. 255
        /\ Dec(session[s].step) \in 0 .. 255
  BY TypeFacts, StepArithmetic
<1>5. CASE GetProfileListReady(s, r) \/ GetProfileSettingsReady(s, r)
  <2>1. UNCHANGED external
    BY <1>5 DEF GetProfileListReady, GetProfileSettingsReady
  <2> QED
    BY <1>5, <2>1, ListCallbackMove, ModemStays DEF external
<1>6. ASSUME Receive(s, r) PROVE QueueMove(s)
  BY <1>6, ReceiveMove
<1>7. CASE AddNewProfileReady(s, r)
  <2> DEFINE sess == [session[s] EXCEPT !.profile_id = Len(profiles) + 1,
                                        !.step = PROFILE_READY]
  <2>1. SetSession(s, sess)
    BY <1>7 DEF AddNewProfileReady, SetSession
  <2>2. /\ sess.mux_id = session[s].mux_id
        /\ sess.setup_link_done = session[s].setup_link_done
        /\ sess.profile_id # 0 /\ sess.step = PROFILE_READY
    BY <1>4, TypeFacts, ProfilesAssumption DEF Sessions, Profiles
  <2> HIDE DEF sess
  <2>3. SessionMove(s)
    BY <2>1, <2>2, ProfileMove
  <2> QED
    BY <1>6, <1>7, <2>3, ModemStays DEF AddNewProfileReady
<1>8. CASE BindMuxDataPortReady(s, r)
  <2>1. NeedsLink(s) /\ r.arg = session[s].mux_id
    BY <1>1, <1>8
       DEF BindMuxDataPortReady, NeedsLink, Waiting, Staged, RequestsFitSession
  <2>2. bound'[s] = session[s].mux_id
    BY <1>8, <2>1 DEF BindMuxDataPortReady, TypeInv, TypeOK
  <2>3. Reaches(s, Inc(session[s].step))
    BY <2>1, <2>2 DEF Reaches
  <2>4. SessionMove(s)
    BY <1>4, <1>8, <2>3, StepMove DEF BindMuxDataPortReady
  <2>5. ModemMove(s)
    BY <1>8, <2>2 DEF BindMuxDataPortReady, ModemMove
  <2> QED
    BY <1>6, <1>8, <2>4, <2>5 DEF BindMuxDataPortReady
<1>9. ASSUME r.op = "start_network" PROVE NeedsBinding(s) /\ r.arg # 0
  BY <1>1, <1>9 DEF NeedsBinding, Waiting, Staged, RequestsFitSession
<1>10. CASE StartNetworkReady(s, r)
  <2> DEFINE sess == [session[s] EXCEPT !.has_handle = TRUE, !.step = Inc(session[s].step)]
  <2>1. SetSession(s, sess)
    BY <1>10 DEF StartNetworkReady, SetSession
  <2>2. /\ sess.mux_id = session[s].mux_id
        /\ sess.setup_link_done = session[s].setup_link_done
        /\ sess.profile_id = session[s].profile_id
        /\ sess.step = Inc(session[s].step)
    BY <1>4 DEF Sessions
  <2> HIDE DEF sess
  <2>3. NeedsBinding(s) /\ r.arg # 0
    BY <1>9, <1>10 DEF StartNetworkReady
  <2>4. SessionMove(s)
    BY <1>4, <2>1, <2>2, <2>3, SessionMoveBy DEF Reaches
  <2>5. ModemMove(s)
    BY <1>10, <2>3 DEF StartNetworkReady, ModemMove, TypeInv, TypeOK
  <2> QED
    BY <1>6, <1>10, <2>4, <2>5 DEF StartNetworkReady
<1>11. CASE StartNetworkNoReply(s, r)
  <2>1. NeedsBinding(s) /\ r.arg # 0
    BY <1>9, <1>11 DEF StartNetworkNoReply
  <2>2. SessionMove(s)
    BY <1>4, <1>11, <2>1, StepMove DEF StartNetworkNoReply, Reaches
  <2>3. ModemMove(s)
    BY <1>11, <2>1 DEF StartNetworkNoReply, ModemMove, TypeInv, TypeOK
  <2> QED
    BY <1>6, <1>11, <2>2, <2>3 DEF StartNetworkNoReply
<1>12. CASE StartNetworkCallFailed(s, r)
  <2>1. NeedsBinding(s)
    BY <1>9, <1>12 DEF StartNetworkCallFailed
  <2>2. Inc(LINK_BRINGUP) \in 0 .. 255
    BY DEF Inc, LINK_BRINGUP
  <2>3. SessionMove(s)
    BY <1>12, <2>1, <2>2, StepMove DEF StartNetworkCallFailed, Reaches
  <2> QED
    BY <1>6, <1>12, <2>3, ModemStays DEF StartNetworkCallFailed, external
<1>13. CASE StartNetworkError(s, r)
  <2>1. NeedsBinding(s)
    BY <1>9, <1>13 DEF StartNetworkError
  <2>2. SessionMove(s)
    BY <1>4, <1>13, <2>1, StepMove DEF StartNetworkError, Reaches
  <2> QED
    BY <1>6, <1>13, <2>2, ModemStays DEF StartNetworkError, external
<1>14. CASE GetCurrentSettingsReady(s, r)
  <2>1. NeedsBinding(s)
    BY <1>1, <1>14 DEF GetCurrentSettingsReady, NeedsBinding, Waiting
  <2>2. PICK addr \in IpAddrs :
          SetSession(s, [session[s] EXCEPT
            !.ip_address = CopyAddress(session[s].ip_address, addr),
            !.step = Inc(session[s].step)])
    BY <1>14 DEF GetCurrentSettingsReady, SetSession
  <2> DEFINE sess == [session[s] EXCEPT
                        !.ip_address = CopyAddress(session[s].ip_address, addr),
                        !.step = Inc(session[s].step)]
  <2>3. /\ sess.mux_id = session[s].mux_id
        /\ sess.setup_link_done = session[s].setup_link_done
        /\ sess.profile_id = session[s].profile_id
        /\ sess.step = Inc(session[s].step)
    BY <1>4 DEF Sessions
  <2>4. SetSession(s, sess)
    BY <2>2
  <2> HIDE DEF sess
  <2>5. SessionMove(s)
    BY <1>4, <2>1, <2>3, <2>4, SessionMoveBy DEF Reaches
  <2> QED
    BY <1>6, <1>14, <2>5, ModemStays DEF GetCurrentSettingsReady, external
<1>15. CASE Receive(s, r) /\ UNCHANGED <<session, links, bound, network>>
  BY <1>6, <1>15, SessionStays, ModemStays
<1>16. ASSUME \/ GetProfileListFailed(s, r) \/ GetProfileSettingsFreed(s, r)
              \/ AddNewProfileFailed(s, r) \/ ModifyProfileReady(s, r)
              \/ SetupLinkFailed(s, r) \/ BindMuxDataPortFailed(s, r)
              \/ GetCurrentSettingsIncomplete(s, r)
              \/ GetCurrentSettingsFailed(s, r)
       PROVE  Receive(s, r) /\ UNCHANGED <<session, links, bound, network>>
  BY <1>16 DEF GetProfileListFailed, GetProfileSettingsFreed, AddNewProfileFailed,
     ModifyProfileReady, SetupLinkFailed, BindMuxDataPortFailed,
     GetCurrentSettingsIncomplete, GetCurrentSettingsFailed, external
<1> QED
  BY <1>5, <1>7, <1>8, <1>10, <1>11, <1>12, <1>13, <1>14, <1>15, <1>16 DEF Callback

-----------------------------------------------------------------------------
(* The steps that are no moves: an activation and the making of a link.    *)

SlotKept(t) ==
  /\ session'[t] = session[t] /\ pending'[t] = pending[t] /\ links'[t] = links[t]
  /\ bound'[t] = bound[t] /\ network'[t] = network[t]
  /\ activations'[t] = activations[t]

LEMMA ListStepKeepsOthers ==
  ASSUME TypeInv, NEW s \in Slots, NEW sess, NEW list, NEW reqs,
         GetNextProfileSettings(s, sess, list, reqs), NEW t \in Slots, t # s
  PROVE  session'[t] = session[t] /\ pending'[t] = pending[t]
BY TypeFacts DEF GetNextProfileSettings, SetSession

LEMMA CallbackKeepsOthers ==
  ASSUME TypeInv, NEW s \in Slots, NEW r \in Requests, Callback(s, r),
         NEW t \in Slots, t # s
  PROVE  SlotKept(t)
<1>1. /\ DOMAIN links = Slots /\ DOMAIN bound = Slots /\ DOMAIN network = Slots
      /\ DOMAIN session = Slots /\ DOMAIN pending = Slots
  BY DEF TypeInv, TypeOK
<1>2. CASE GetProfileListReady(s, r) \/ GetProfileSettingsReady(s, r)
  <2>1. session'[t] = session[t] /\ pending'[t] = pending[t]
    BY <1>1, <1>2, ListStepKeepsOthers
       DEF GetProfileListReady, GetProfileSettingsReady, SetStep
  <2> QED
    BY <1>2, <2>1
       DEF GetProfileListReady, GetProfileSettingsReady, SlotKept, external, history
<1>3. CASE Receive(s, r)
  <2>1. pending'[t] = pending[t]
    BY <1>1, <1>3 DEF Receive
  <2>2. ~(GetProfileListReady(s, r) \/ GetProfileSettingsReady(s, r)) =>
          /\ session'[t] = session[t] /\ links'[t] = links[t] /\ bound'[t] = bound[t]
          /\ network'[t] = network[t] /\ activations'[t] = activations[t]
    BY <1>1 DEF Callback, SetStep, GetProfileListFailed, GetProfileSettingsFreed,
       AddNewProfileReady, AddNewProfileFailed, ModifyProfileReady, SetupLinkReady,
       SetupLinkFailed, BindMuxDataPortReady, BindMuxDataPortFailed,
       StartNetworkReady, StartNetworkNoReply, StartNetworkCallFailed,
       StartNetworkError, GetCurrentSettingsReady, GetCurrentSettingsIncomplete,
       GetCurrentSettingsFailed, external, history
  <2> QED
    BY <1>2, <2>1, <2>2 DEF SlotKept
<1> QED
  BY <1>2, <1>3 DEF Callback, GetProfileListFailed, GetProfileSettingsFreed,
     AddNewProfileReady, AddNewProfileFailed, ModifyProfileReady, SetupLinkReady,
     SetupLinkFailed, BindMuxDataPortReady, BindMuxDataPortFailed,
     StartNetworkReady, StartNetworkNoReply, StartNetworkCallFailed,
     StartNetworkError, GetCurrentSettingsReady, GetCurrentSettingsIncomplete,
     GetCurrentSettingsFailed

LEMMA TickKeepsOthers ==
  ASSUME TypeInv, NEW s \in Slots, Tick(s), NEW t \in Slots, t # s
  PROVE  SlotKept(t)
BY TypeFacts DEF Tick, QuietTick, TickGetProfiles, TickWithoutClient,
   TickAddProfile, TickModifyProfile, TickProfileReady, TickDummy, TickSetupLink,
   TickBindDataPort, TickStartNetwork, TickWait, TickGetSettings, TickStop,
   TickFinished, TickGiveUp, Send, SetStep, SlotKept, vars, external, history

\* Before its first link is made, a slot has needed none.
LEMMA NoLinkYet ==
  ASSUME NEW s \in Slots, Staged(s), links[s] = {}
  PROVE  /\ session[s].mux_id = NoMux
         /\ ~NeedsLink(s) /\ ~NeedsBinding(s)
<1>1. session[s].mux_id = NoMux
  BY DEF Staged
<1>2. ~NeedsLink(s)
  BY DEF Staged, StageHasResources
<1> QED
  BY <1>1, <1>2 DEF NeedsLink

\* The budget of a slot's first activation pays for one link.
LEMMA BudgetOfFirst ==
  ASSUME TypeInv, LinkBudget, NEW s \in Slots, activations[s] <= 1,
         activations[s] = 0 \/ pending[s][AddLink] > 0
  PROVE  links[s] = {}
<1>1. Cardinality(links[s]) + pending[s][AddLink] + Unspent(s) <= activations[s]
  BY DEF LinkBudget, Unspent, AddLink
<1>2. Cardinality(links[s]) = 0
  BY <1>1, BudgetTypes
<1> QED
  BY <1>2, BudgetTypes, FS_EmptySet

LEMMA FirstActivationStage ==
  ASSUME TypeInv, LinkBudget, NEW s \in Slots, activations[s] = 0, Staged(s),
         InitiateSession(s)
  PROVE  Staged(s)'
<1>1. links[s] = {}
  BY BudgetOfFirst
<1>2. session'[s] = FreshSession(session[s].ip_address)
  BY TypeFacts DEF InitiateSession, SetSession
<1>3. /\ session'[s].step = GET_PROFILES /\ session'[s].profile_id = 0
      /\ session'[s].setup_link_done = 0 /\ session'[s].mux_id = NoMux
  BY <1>2 DEF FreshSession
<1>4. /\ UNCHANGED <<pending, links, bound, network>>
      /\ activations'[s] # 0
  BY TypeFacts DEF InitiateSession, external
<1>5. \A r \in Requests : pending'[s][r] = 0
  BY <1>4 DEF Staged, NothingTakenYet, Idle
<1>6. network'[s] = NoNet
  BY <1>1, <1>4, NoLinkYet DEF NeedsBinding
<1>7. ~NeedsProfile(s)' /\ ~NeedsLink(s)' /\ ~NeedsBinding(s)'
  BY <1>3, <1>5, <1>6 DEF NeedsProfile, NeedsLink, NeedsBinding, Waiting,
     GET_PROFILES, PROFILE_READY, LINK_BRINGUP, SELECT_IP_FAMILY_IPV4
<1> QED
  BY <1>1, <1>3, <1>4, <1>5, <1>6, <1>7
     DEF Staged, StageHasResources, RequestsFitSession, NoNet

LEMMA NewLinkStage ==
  ASSUME TypeInv, LinkBudget, NEW s \in Slots, activations[s] <= 1, Staged(s),
         NEW r \in Requests, SetupLinkReady(s, r)
  PROVE  Staged(s)'
<1>1. r = AddLink /\ r.op = "add_link" /\ pending[s][r] > 0
  BY AddLinkOnly DEF SetupLinkReady, Receive, InFlight
<1>2. links[s] = {}
  BY <1>1, BudgetOfFirst
<1>3. PICK mux \in MuxIds :
        /\ links' = [links EXCEPT ![s] = @ \cup {mux}]
        /\ session' = [session EXCEPT ![s] =
             [session[s] EXCEPT !.mux_id = mux, !.step = Inc(session[s].step)]]
  BY DEF SetupLinkReady
<1>4. links'[s] = {mux} /\ mux # NoMux
  BY <1>2, <1>3 DEF TypeInv, TypeOK, MuxIds, NoMux
<1>5. /\ session'[s].mux_id = mux
      /\ session'[s].step = Inc(session[s].step)
      /\ session'[s].profile_id = session[s].profile_id
      /\ session'[s].setup_link_done = session[s].setup_link_done
  BY <1>3, TypeFacts DEF Sessions
<1>6. session[s].setup_link_done = 1 /\ session[s].profile_id # 0
  BY <1>1 DEF Staged, RequestsFitSession, StageHasResources, NeedsProfile
<1>7. ~NeedsLink(s) /\ ~NeedsBinding(s)
  BY <1>2, NoLinkYet
<1>8. QueueMove(s) /\ \A q \in Requests : pending'[s][q] > 0 => pending[s][q] > 0
  <2>1. pending'[s] = Answered(s, r)
    BY TypeFacts DEF SetupLinkReady, Receive
  <2> QED
    BY <2>1, AnswerMove DEF QueueMove
<1>9. UNCHANGED <<bound, network, activations>>
  BY DEF SetupLinkReady, history
<1>10. ~NeedsBinding(s)'
  <2>1. session[s].step \in 0 .. 255
    BY TypeFacts
  <2>2. ~(session[s].step >= LINK_BRINGUP)
    BY <1>7 DEF NeedsLink
  <2>3. ~(session'[s].step >= SELECT_IP_FAMILY_IPV4)
    BY <1>5, <2>1, <2>2 DEF Inc, LINK_BRINGUP, SELECT_IP_FAMILY_IPV4
  <2> QED
    BY <1>7, <1>8, <1>9, <2>3 DEF NeedsBinding, Waiting
<1>11. StageHasResources(s)'
  BY <1>4, <1>5, <1>6, <1>10 DEF StageHasResources
<1>12. RequestsFitSession(s)'
  BY <1>5, <1>6, <1>7, <1>8 DEF Staged, RequestsFitSession, NeedsLink, Waiting
<1>13. activations[s] # 0
  BY <1>1 DEF Staged, NothingTakenYet, Idle
<1> QED
  BY <1>4, <1>5, <1>6, <1>9, <1>11, <1>12, <1>13 DEF Staged

LEMMA NextStage ==
  /\ TypeInv /\ OneIndicationPerActivation /\ LinkBudget /\ StageInv
  /\ [Next]_vars
  => StageInv'
<1> SUFFICES ASSUME TypeInv, OneIndicationPerActivation, LinkBudget, StageInv,
                    [Next]_vars, NEW t \in Slots, activations'[t] <= 1
             PROVE  Staged(t)'
  BY DEF StageInv
<1>0. \A u \in Slots : activations[u] \in Nat
  BY BudgetTypes
<1>1. ASSUME SlotKept(t) PROVE Staged(t)'
  BY <1>1, OtherSlot DEF SlotKept, StageInv
<1>2. CASE UNCHANGED vars
  BY <1>1, <1>2 DEF vars, external, history, SlotKept
<1>3. ASSUME NEW s \in Slots, AllocateClientReady(s) PROVE Staged(t)'
  BY <1>1, <1>3 DEF AllocateClientReady, external, history, SlotKept
<1>4. ASSUME NEW s \in Slots, InitiateSession(s) PROVE Staged(t)'
  <2>1. CASE t = s
    <3>1. activations'[s] = activations[s] + 1
      BY <1>4, TypeFacts DEF InitiateSession
    <3>2. activations[s] = 0
      BY <1>0, <2>1, <3>1
    <3> QED
      BY <1>4, <2>1, <3>2, FirstActivationStage DEF StageInv
  <2>2. CASE t # s
    BY <1>1, <1>4, <2>2, TypeFacts DEF InitiateSession, SetSession, SlotKept, external
  <2> QED
    BY <2>1, <2>2
<1>5. ASSUME NEW s \in Slots, Tick(s) PROVE Staged(t)'
  <2>1. CASE t = s
    <3>1. UNCHANGED activations
      BY <1>5 DEF Tick, QuietTick, TickGetProfiles, TickWithoutClient,
         TickAddProfile, TickModifyProfile, TickProfileReady, TickDummy,
         TickSetupLink, TickBindDataPort, TickStartNetwork, TickWait,
         TickGetSettings, TickStop, TickFinished, TickGiveUp, vars, history
    <3>2. Staged(s)
      BY <2>1, <3>1 DEF StageInv
    <3> QED
      BY <1>5, <2>1, <3>2, TickMove, MoveKeepsStage
  <2>2. CASE t # s
    BY <1>1, <1>5, <2>2, TickKeepsOthers
  <2> QED
    BY <2>1, <2>2
<1>6. ASSUME NEW s \in Slots, NEW r \in Requests, Callback(s, r) PROVE Staged(t)'
  <2>1. CASE t = s
    <3>1. UNCHANGED activations
      BY <1>6 DEF Callback, GetProfileListReady, GetProfileListFailed,
         GetProfileSettingsReady, GetProfileSettingsFreed, AddNewProfileReady,
         AddNewProfileFailed, ModifyProfileReady, SetupLinkReady, SetupLinkFailed,
         BindMuxDataPortReady, BindMuxDataPortFailed, StartNetworkReady,
         StartNetworkNoReply, StartNetworkCallFailed, StartNetworkError,
         GetCurrentSettingsReady, GetCurrentSettingsIncomplete,
         GetCurrentSettingsFailed, history
    <3>2. Staged(s) /\ activations[s] <= 1
      BY <2>1, <3>1 DEF StageInv
    <3>3. CASE SetupLinkReady(s, r)
      BY <2>1, <3>2, <3>3, NewLinkStage
    <3>4. CASE ~SetupLinkReady(s, r)
      BY <1>6, <2>1, <3>2, <3>4, CallbackMove, MoveKeepsStage
    <3> QED
      BY <3>3, <3>4
  <2>2. CASE t # s
    BY <1>1, <1>6, <2>2, CallbackKeepsOthers
  <2> QED
    BY <2>1, <2>2
<1> QED
  BY <1>2, <1>3, <1>4, <1>5, <1>6 DEF Next

LEMMA InitStage == Init => StageInv
<1> SUFFICES ASSUME Init, NEW s \in Slots PROVE Staged(s)
  BY DEF StageInv
<1>1. /\ session[s] = FreshSession(InitialBuffer)
      /\ \A r \in Requests : pending[s][r] = 0
      /\ links[s] = {} /\ bound[s] = NoMux /\ network[s] = NoNet
  BY DEF Init
<1>2. /\ session[s].step = GET_PROFILES /\ session[s].profile_id = 0
      /\ session[s].setup_link_done = 0 /\ session[s].mux_id = NoMux
  BY <1>1 DEF FreshSession
<1>3. ~NeedsProfile(s) /\ ~NeedsLink(s) /\ ~NeedsBinding(s)
  BY <1>1, <1>2 DEF NeedsProfile, NeedsLink, NeedsBinding, Waiting,
     GET_PROFILES, PROFILE_READY, LINK_BRINGUP, SELECT_IP_FAMILY_IPV4
<1> QED
  BY <1>1, <1>2, <1>3 DEF Staged, StageHasResources, RequestsFitSession,
     NothingTakenYet, Idle, NoNet

LEMMA StageInvariant == Spec => []StageInv
<1>1. Spec => []OneIndicationPerActivation /\ []LinkBudget
  BY OneIndicationTheorem, LinkBudgetInvariant
<1> QED
  BY <1>1, InitStage, NextStage, TypeInvariant, PTL DEF Spec

\* During a slot's first activation no stage is reached without the profile,
\* the link and the binding it rests on, for any order of answers and ticks.
THEOREM StagesTheorem == Spec => []StagesInOrder
<1>1. StageInv => StagesInOrder
  BY DEF StageInv, Staged, StagesInOrder
<1> QED
  BY <1>1, StageInvariant, PTL

-----------------------------------------------------------------------------
(* The whole inductive invariant.                                          *)

LEMMA NextLinksOfOneSlot ==
  TypeInv /\ LinksOfOneSlot /\ [Next]_vars => LinksOfOneSlot'
<1> SUFFICES ASSUME TypeInv, LinksOfOneSlot, [Next]_vars PROVE LinksOfOneSlot'
  OBVIOUS
<1>1. CASE UNCHANGED links
  BY <1>1 DEF LinksOfOneSlot
<1>2. ASSUME NEW s \in Slots, NEW r \in Requests, SetupLinkReady(s, r)
      PROVE  LinksOfOneSlot'
  <2>1. PICK mux \in MuxIds \ UNION {links[t] : t \in Slots} :
          links' = [links EXCEPT ![s] = @ \cup {mux}]
    BY <1>2 DEF SetupLinkReady
  <2>2. \A t \in Slots : mux \notin links[t]
    BY <2>1
  <2>3. \A t \in Slots : links'[t] = IF t = s THEN links[t] \cup {mux} ELSE links[t]
    BY <2>1 DEF TypeInv, TypeOK
  <2> SUFFICES ASSUME NEW t \in Slots, NEW u \in Slots, t # u
               PROVE  links'[t] \cap links'[u] = {}
    BY DEF LinksOfOneSlot
  <2>4. links[t] \cap links[u] = {}
    BY DEF LinksOfOneSlot
  <2> QED
    BY <2>2, <2>3, <2>4
<1>3. ASSUME NEW s \in Slots, NEW r \in Requests, Callback(s, r),
             ~SetupLinkReady(s, r)
      PROVE  UNCHANGED links
  BY <1>3 DEF Callback, GetProfileListReady, GetProfileListFailed,
     GetProfileSettingsReady, GetProfileSettingsFreed, AddNewProfileReady,
     AddNewProfileFailed, ModifyProfileReady, SetupLinkFailed,
     BindMuxDataPortReady, BindMuxDataPortFailed, StartNetworkReady,
     StartNetworkNoReply, StartNetworkCallFailed, StartNetworkError,
     GetCurrentSettingsReady, GetCurrentSettingsIncomplete,
     GetCurrentSettingsFailed, external
<1>4. ASSUME NEW s \in Slots,
             AllocateClientReady(s) \/ InitiateSession(s) \/ Tick(s)
      PROVE  UNCHANGED links
  BY <1>4 DEF AllocateClientReady, InitiateSession, Tick, QuietTick,
     TickGetProfiles, TickWithoutClient, TickAddProfile, TickModifyProfile,
     TickProfileReady, TickDummy, TickSetupLink, TickBindDataPort,
     TickStartNetwork, TickWait, TickGetSettings, TickStop, TickFinished,
     TickGiveUp, vars, external
<1> QED
  BY <1>1, <1>2, <1>3, <1>4 DEF Next, vars, external

\* What the runs check as IndInv holds of every instance: the conjuncts are
\* inductive together, in the order in which they are proved here.
THEOREM IndInvTheorem == Spec => []IndInv
<1>1. Init => LinksOfOneSlot
  BY DEF Init, LinksOfOneSlot
<1>2. Spec => []LinksOfOneSlot
  BY <1>1, NextLinksOfOneSlot, TypeInvariant, PTL DEF Spec
<1>3. /\ TypeInv /\ OneIndicationPerActivation /\ LinkBudget /\ LinksOfOneSlot
      /\ StageInv
      => IndInv
  BY DEF IndInv, TypeInv, StageInv, Staged, FirstActivation, StagesInOrder
<1>4. Spec => []OneIndicationPerActivation /\ []LinkBudget
  BY OneIndicationTheorem, LinkBudgetInvariant
<1> QED
  BY <1>2, <1>3, <1>4, TypeInvariant, StageInvariant, PTL

-----------------------------------------------------------------------------
(* Refinement: with one activation per slot, every step of the bring-up is *)
(* a step of Bearer or changes nothing that Bearer sees.                   *)

ProfileOf == [u \in Slots |-> session[u].profile_id]
MuxOf     == [u \in Slots |-> session[u].mux_id]

LEMMA MapSession ==
  ASSUME TypeInv, NEW s \in Slots, NEW sess, SetSession(s, sess)
  PROVE  /\ ProfileOf' = [ProfileOf EXCEPT ![s] = sess.profile_id]
         /\ MuxOf' = [MuxOf EXCEPT ![s] = sess.mux_id]
<1>1. session' = [session EXCEPT ![s] = sess] /\ DOMAIN session = Slots
  BY TypeFacts DEF SetSession
<1>2. \A u \in Slots : session'[u] = IF u = s THEN sess ELSE session[u]
  BY <1>1
<1> QED
  BY <1>2 DEF ProfileOf, MuxOf

LEMMA MapSame ==
  ASSUME TypeInv, NEW s \in Slots, NEW sess, SetSession(s, sess),
         sess.profile_id = session[s].profile_id, sess.mux_id = session[s].mux_id
  PROVE  UNCHANGED <<ProfileOf, MuxOf>>
<1>1. /\ [ProfileOf EXCEPT ![s] = session[s].profile_id] = ProfileOf
      /\ [MuxOf EXCEPT ![s] = session[s].mux_id] = MuxOf
  BY DEF ProfileOf, MuxOf
<1> QED
  BY <1>1, MapSession

LEMMA MapStep ==
  ASSUME TypeInv, NEW s \in Slots, NEW x, SetStep(s, x)
  PROVE  UNCHANGED <<ProfileOf, MuxOf>>
<1> DEFINE sess == [session[s] EXCEPT !.step = x]
<1>1. SetSession(s, sess)
  BY DEF SetStep, SetSession
<1>2. sess.profile_id = session[s].profile_id /\ sess.mux_id = session[s].mux_id
  BY TypeFacts DEF Sessions
<1> HIDE DEF sess
<1> QED
  BY <1>1, <1>2, MapSame

Unseen == UNCHANGED <<ProfileOf, MuxOf, bound, network>>

LEMMA UnseenStutters ==
  ASSUME Unseen
  PROVE  [B!Next]_(B!vars)
BY DEF Unseen, B!vars, ProfileOf, MuxOf

LEMMA SelectMaps ==
  ASSUME TypeInv, NEW s \in Slots, NEW sess, SetSession(s, sess),
         sess.profile_id \in 1 .. MaxProfiles, sess.mux_id = session[s].mux_id,
         UNCHANGED <<bound, network>>
  PROVE  [B!Next]_(B!vars)
<1>1. [MuxOf EXCEPT ![s] = session[s].mux_id] = MuxOf
  BY DEF MuxOf
<1>2. /\ ProfileOf' = [ProfileOf EXCEPT ![s] = sess.profile_id]
      /\ MuxOf' = MuxOf
  BY <1>1, MapSession
<1>3. B!SelectProfile(s)
  BY <1>2 DEF B!SelectProfile, ProfileOf, MuxOf
<1> QED
  BY <1>3 DEF B!Next

LEMMA TickMaps ==
  ASSUME TypeInv, NEW s \in Slots, Tick(s)
  PROVE  Unseen
<1>1. UNCHANGED <<bound, network>>
  BY DEF Tick, QuietTick, TickGetProfiles, TickWithoutClient, TickAddProfile,
     TickModifyProfile, TickProfileReady, TickDummy, TickSetupLink,
     TickBindDataPort, TickStartNetwork, TickWait, TickGetSettings, TickStop,
     TickFinished, TickGiveUp, vars, external
<1>2. CASE UNCHANGED session
  BY <1>1, <1>2 DEF Unseen, ProfileOf, MuxOf
<1>3. ASSUME NEW x, SetStep(s, x) PROVE Unseen
  BY <1>1, <1>3, MapStep DEF Unseen
<1>4. CASE session' = [session EXCEPT ![s].setup_link_done = 1]
  <2> DEFINE sess == [session[s] EXCEPT !.setup_link_done = 1]
  <2>1. SetSession(s, sess)
    BY <1>4 DEF SetSession
  <2>2. sess.profile_id = session[s].profile_id /\ sess.mux_id = session[s].mux_id
    BY TypeFacts DEF Sessions
  <2> HIDE DEF sess
  <2> QED
    BY <1>1, <2>1, <2>2, MapSame DEF Unseen
<1> QED
  BY <1>2, <1>3, <1>4 DEF Tick, QuietTick, TickGetProfiles, TickWithoutClient,
     TickAddProfile, TickModifyProfile, TickProfileReady, TickDummy, TickSetupLink,
     TickBindDataPort, TickStartNetwork, TickWait, TickGetSettings, TickStop,
     TickFinished, TickGiveUp, vars

\* A first activation finds nothing that it could reset.
LEMMA ActivationMaps ==
  ASSUME TypeInv, LinkBudget, NEW s \in Slots, activations[s] = 0, Staged(s),
         InitiateSession(s)
  PROVE  Unseen
<1>1. session[s].mux_id = NoMux /\ session[s].profile_id = 0
  <2>1. links[s] = {}
    BY BudgetOfFirst
  <2> QED
    BY <2>1, NoLinkYet DEF Staged, NothingTakenYet
<1> DEFINE sess == FreshSession(session[s].ip_address)
<1>2. SetSession(s, sess)
  BY DEF InitiateSession
<1>3. sess.profile_id = session[s].profile_id /\ sess.mux_id = session[s].mux_id
  BY <1>1 DEF FreshSession
<1> HIDE DEF sess
<1> QED
  BY <1>2, <1>3, MapSame DEF Unseen, InitiateSession, external

LEMMA ListCallbackMaps ==
  ASSUME TypeInv, NEW s \in Slots, NEW r \in Requests,
         GetProfileListReady(s, r) \/ GetProfileSettingsReady(s, r)
  PROVE  [B!Next]_(B!vars)
<1>1. UNCHANGED <<bound, network>>
  BY DEF GetProfileListReady, GetProfileSettingsReady, external
<1>2. session[s] \in Sessions
  BY TypeFacts
<1>3. ASSUME NEW x, SetStep(s, x) PROVE [B!Next]_(B!vars)
  BY <1>1, <1>3, MapStep, UnseenStutters DEF Unseen
<1>4. ASSUME NEW list, GetNextProfileSettings(s, session[s], list, Answered(s, r))
      PROVE  [B!Next]_(B!vars)
  <2>1. SetSession(s, session[s]) \/ SetStep(s, FIND_PROFILE_ADD_MODIFY)
    BY <1>4 DEF GetNextProfileSettings, SetSession, SetStep
  <2> QED
    BY <1>1, <1>3, <2>1, MapSame, UnseenStutters DEF Unseen
<1>5. CASE GetProfileListReady(s, r)
  BY <1>3, <1>4, <1>5 DEF GetProfileListReady
<1>6. CASE GetProfileSettingsReady(s, r)
  <2>1. profile_list[s].i + 1 \in 1 .. MaxProfiles
    <3>1. profile_list[s] \in [live : BOOLEAN, i : Nat, len : Profiles]
      BY DEF TypeInv, TypeOK
    <3>2. profile_list[s].i < profile_list[s].len
      BY <1>6 DEF GetProfileSettingsReady, TypeInv, ListCursorInside
    <3>3. /\ profile_list[s].i \in Nat /\ profile_list[s].len \in Profiles
          /\ profile_list[s].i < profile_list[s].len
      BY <3>1, <3>2
    <3>4. \A i \in Nat, len \in Profiles : i < len => i + 1 \in 1 .. MaxProfiles
      BY ProfilesAssumption DEF Profiles
    <3> QED
      BY <3>3, <3>4
  <2> DEFINE found == [session[s] EXCEPT !.profile_id = profile_list[s].i + 1,
                                         !.step = PROFILE_READY]
             list == [profile_list[s] EXCEPT !.i = @ + 1]
  <2>2. PICK sess \in {found, session[s]} :
          GetNextProfileSettings(s, sess, list, Answered(s, r))
    BY <1>6 DEF GetProfileSettingsReady
  <2>3. found.profile_id \in 1 .. MaxProfiles /\ found.mux_id = session[s].mux_id
    BY <1>2, <2>1 DEF Sessions
  <2> HIDE DEF found, list
  <2>4. CASE sess = session[s]
    BY <1>4, <2>2, <2>4
  <2>5. CASE sess = found
    <3>1. SetSession(s, found)
      <4>1. found.profile_id # 0
        BY <2>3
      <4> QED
        BY <2>2, <2>5, <4>1 DEF GetNextProfileSettings
    <3> QED
      BY <1>1, <2>3, <3>1, SelectMaps
  <2> QED
    BY <2>2, <2>4, <2>5
<1> QED
  BY <1>5, <1>6

LEMMA LinkMaps ==
  ASSUME TypeInv, LinkBudget, StageInv, \A t \in Slots : activations[t] <= 1,
         NEW s \in Slots, NEW r \in Requests, SetupLinkReady(s, r)
  PROVE  B!AddLink(s)
<1>1. r.op = "add_link" /\ r = AddLink /\ pending[s][r] > 0
  BY AddLinkOnly DEF SetupLinkReady, Receive, InFlight
<1>2. session[s].mux_id = NoMux /\ session[s].profile_id # 0
  <2>1. Staged(s)
    BY DEF StageInv
  <2>2. links[s] = {}
    BY <1>1, BudgetOfFirst
  <2>3. session[s].setup_link_done = 1
    BY <1>1, <2>1 DEF Staged, RequestsFitSession
  <2> QED
    BY <2>1, <2>2, <2>3, NoLinkYet DEF Staged, StageHasResources, NeedsProfile
<1>3. PICK mux \in MuxIds \ UNION {links[t] : t \in Slots} :
        session' = [session EXCEPT ![s] =
          [session[s] EXCEPT !.mux_id = mux, !.step = Inc(session[s].step)]]
  BY DEF SetupLinkReady
<1>4. \A t \in Slots : session[t].mux_id # mux
  <2>1. \A t \in Slots : links[t] = {session[t].mux_id} \ {NoMux}
    BY DEF StageInv, Staged
  <2>2. mux # NoMux
    BY <1>3 DEF MuxIds, NoMux
  <2> QED
    BY <1>3, <2>1, <2>2
<1> DEFINE sess == [session[s] EXCEPT !.mux_id = mux, !.step = Inc(session[s].step)]
<1>5. SetSession(s, sess)
  BY <1>3 DEF SetSession
<1>6. sess.profile_id = session[s].profile_id /\ sess.mux_id = mux
  BY TypeFacts DEF Sessions
<1> HIDE DEF sess
<1>7. [ProfileOf EXCEPT ![s] = session[s].profile_id] = ProfileOf
  BY DEF ProfileOf
<1>8. ProfileOf' = ProfileOf /\ MuxOf' = [MuxOf EXCEPT ![s] = mux]
  BY <1>5, <1>6, <1>7, MapSession
<1>9. UNCHANGED <<bound, network>>
  BY DEF SetupLinkReady
<1>10. /\ ProfileOf[s] # NoMux /\ MuxOf[s] = NoMux
       /\ mux \in MuxIds /\ \A t \in Slots : MuxOf[t] # mux
  BY <1>2, <1>3, <1>4 DEF ProfileOf, MuxOf, NoMux
<1> QED
  BY <1>8, <1>9, <1>10 DEF B!AddLink, ProfileOf, MuxOf

\* The port and the call: the answers to the two requests.
LEMMA BindMaps ==
  ASSUME TypeInv, NEW s \in Slots, Staged(s), NEW r \in Requests,
         BindMuxDataPortReady(s, r)
  PROVE  B!Bind(s)
<1>1. NeedsLink(s) /\ r.arg = session[s].mux_id
  BY DEF BindMuxDataPortReady, Receive, InFlight, NeedsLink, Waiting, Staged,
     RequestsFitSession
<1>2. session[s].mux_id # NoMux
  BY <1>1, LinkNeedsProfile
<1>3. UNCHANGED <<ProfileOf, MuxOf>>
  BY MapStep DEF BindMuxDataPortReady
<1>4. bound' = [bound EXCEPT ![s] = session[s].mux_id] /\ UNCHANGED network
  BY <1>1 DEF BindMuxDataPortReady
<1> QED
  BY <1>2, <1>3, <1>4 DEF B!Bind, ProfileOf, MuxOf

LEMMA StartMaps ==
  ASSUME TypeInv, NEW s \in Slots, Staged(s), NEW r \in Requests,
         StartNetworkReady(s, r) \/ StartNetworkNoReply(s, r)
  PROVE  B!Start(s) \/ Unseen
<1>1. NeedsBinding(s) /\ NeedsLink(s) /\ r.arg # 0 /\ r.arg \in Profiles
  BY RequestArgs DEF StartNetworkReady, StartNetworkNoReply, Receive, InFlight,
     NeedsBinding, NeedsLink, Waiting, Staged, RequestsFitSession
<1>2. bound[s] = session[s].mux_id /\ session[s].mux_id # NoMux
  BY <1>1, LinkNeedsProfile DEF Staged, StageHasResources
<1>3. r.arg \in 1 .. MaxProfiles
  BY <1>1, ProfilesAssumption DEF Profiles
<1>4. UNCHANGED bound
  BY DEF StartNetworkReady, StartNetworkNoReply
<1>5. UNCHANGED <<ProfileOf, MuxOf>>
  <2>1. CASE StartNetworkReady(s, r)
    <3> DEFINE sess == [session[s] EXCEPT !.has_handle = TRUE,
                                          !.step = Inc(session[s].step)]
    <3>1. SetSession(s, sess)
      BY <2>1 DEF StartNetworkReady, SetSession
    <3>2. sess.profile_id = session[s].profile_id /\ sess.mux_id = session[s].mux_id
      BY TypeFacts DEF Sessions
    <3> HIDE DEF sess
    <3> QED
      BY <3>1, <3>2, MapSame
  <2>2. CASE StartNetworkNoReply(s, r)
    BY <2>2, MapStep DEF StartNetworkNoReply
  <2> QED
    BY <2>1, <2>2
<1>6. \/ network[s] = NoNet /\ network' = [network EXCEPT ![s] = r.arg]
      \/ UNCHANGED network
  <2>1. CASE StartNetworkReady(s, r)
    BY <2>1 DEF StartNetworkReady
  <2>2. CASE StartNetworkNoReply(s, r)
    BY <2>2 DEF StartNetworkNoReply, TypeInv, TypeOK
  <2> QED
    BY <2>1, <2>2
<1>7. CASE network[s] = NoNet /\ network' = [network EXCEPT ![s] = r.arg]
  BY <1>2, <1>3, <1>4, <1>5, <1>7 DEF B!Start, ProfileOf, MuxOf
<1>8. CASE UNCHANGED network
  BY <1>4, <1>5, <1>8 DEF Unseen
<1> QED
  BY <1>6, <1>7, <1>8

LEMMA CallbackMaps ==
  ASSUME TypeInv, LinkBudget, StageInv, \A t \in Slots : activations[t] <= 1,
         NEW s \in Slots, NEW r \in Requests, Callback(s, r)
  PROVE  [B!Next]_(B!vars)
<1>1. Staged(s) /\ session[s] \in Sessions
  BY TypeFacts DEF StageInv
<1>2. ASSUME NEW x, SetStep(s, x), UNCHANGED <<bound, network>>
      PROVE  [B!Next]_(B!vars)
  BY <1>2, MapStep, UnseenStutters DEF Unseen
<1>3. CASE UNCHANGED <<session, bound, network>>
  BY <1>3, UnseenStutters DEF Unseen, ProfileOf, MuxOf
<1>4. CASE GetProfileListReady(s, r) \/ GetProfileSettingsReady(s, r)
  BY <1>4, ListCallbackMaps
<1>5. CASE AddNewProfileReady(s, r)
  <2> DEFINE sess == [session[s] EXCEPT !.profile_id = Len(profiles) + 1,
                                        !.step = PROFILE_READY]
  <2>1. SetSession(s, sess) /\ UNCHANGED <<bound, network>>
    BY <1>5 DEF AddNewProfileReady, SetSession
  <2>2. Len(profiles) \in Profiles /\ Len(profiles) < MaxProfiles
    BY <1>5, TypeFacts DEF AddNewProfileReady
  <2>3. Len(profiles) + 1 \in 1 .. MaxProfiles
    BY <2>2, ProfilesAssumption DEF Profiles
  <2>4. sess.profile_id = Len(profiles) + 1 /\ sess.mux_id = session[s].mux_id
    BY <1>1 DEF Sessions
  <2> HIDE DEF sess
  <2> QED
    BY <2>1, <2>3, <2>4, SelectMaps
<1>6. CASE SetupLinkReady(s, r)
  BY <1>6, LinkMaps DEF B!Next
<1>7. CASE BindMuxDataPortReady(s, r)
  BY <1>1, <1>7, BindMaps DEF B!Next
<1>8. CASE StartNetworkReady(s, r) \/ StartNetworkNoReply(s, r)
  BY <1>1, <1>8, StartMaps, UnseenStutters DEF B!Next
<1>9. CASE StartNetworkCallFailed(s, r) \/ StartNetworkError(s, r)
  BY <1>2, <1>9 DEF StartNetworkCallFailed, StartNetworkError, external
<1>10. CASE GetCurrentSettingsReady(s, r)
  <2>1. PICK buffer :
          SetSession(s, [session[s] EXCEPT !.ip_address = buffer,
                                           !.step = Inc(session[s].step)])
    BY <1>10 DEF GetCurrentSettingsReady, SetSession
  <2> DEFINE sess == [session[s] EXCEPT !.ip_address = buffer,
                                        !.step = Inc(session[s].step)]
  <2>2. SetSession(s, sess)
    BY <2>1
  <2>3. sess.profile_id = session[s].profile_id /\ sess.mux_id = session[s].mux_id
    BY <1>1 DEF Sessions
  <2> HIDE DEF sess
  <2>4. UNCHANGED <<bound, network>>
    BY <1>10 DEF GetCurrentSettingsReady, external
  <2> QED
    BY <2>2, <2>3, <2>4, MapSame, UnseenStutters DEF Unseen
<1> QED
  BY <1>3, <1>4, <1>5, <1>6, <1>7, <1>8, <1>9, <1>10
     DEF Callback, GetProfileListFailed, GetProfileSettingsFreed,
         AddNewProfileFailed, ModifyProfileReady, SetupLinkFailed,
         BindMuxDataPortFailed, GetCurrentSettingsIncomplete,
         GetCurrentSettingsFailed, external

LEMMA NextMaps ==
  ASSUME MaxActivations <= 1
  PROVE  TypeInv /\ LinkBudget /\ StageInv /\ [Next]_vars => [B!Next]_(B!vars)
<1> SUFFICES ASSUME TypeInv, LinkBudget, StageInv, [Next]_vars
             PROVE  [B!Next]_(B!vars)
  OBVIOUS
<1>1. \A t \in Slots : activations[t] \in Nat /\ activations[t] <= 1
  BY TypeFacts, BoundsAssumption
<1>2. CASE UNCHANGED vars
  BY <1>2, UnseenStutters DEF Unseen, ProfileOf, MuxOf, vars, external
<1>3. ASSUME NEW s \in Slots, AllocateClientReady(s) PROVE [B!Next]_(B!vars)
  BY <1>3, UnseenStutters DEF AllocateClientReady, Unseen, ProfileOf, MuxOf, external
<1>4. ASSUME NEW s \in Slots, InitiateSession(s) PROVE [B!Next]_(B!vars)
  <2>1. activations[s] = 0
    BY <1>1, <1>4, BoundsAssumption DEF InitiateSession
  <2>2. Staged(s)
    BY <1>1 DEF StageInv
  <2> QED
    BY <1>4, <2>1, <2>2, ActivationMaps, UnseenStutters
<1>5. ASSUME NEW s \in Slots, Tick(s) PROVE [B!Next]_(B!vars)
  BY <1>5, TickMaps, UnseenStutters
<1>6. ASSUME NEW s \in Slots, NEW r \in Requests, Callback(s, r)
      PROVE  [B!Next]_(B!vars)
  BY <1>1, <1>6, CallbackMaps
<1> QED
  BY <1>2, <1>3, <1>4, <1>5, <1>6 DEF Next

\* For any slots, profiles, links and faults, and answers in any order: what a
\* slot takes from modem and kernel, it takes in the order of Bearer and from
\* its own link, as long as the modem activates it once.
THEOREM BearerTheorem ==
  ASSUME MaxActivations <= 1
  PROVE  Spec => ImplementsBearer
<1>1. Init => B!Init
  BY DEF Init, FreshSession, B!Init, NoMux
<1>2. TypeInv /\ LinkBudget /\ StageInv /\ [Next]_vars => [B!Next]_(B!vars)
  BY NextMaps
<1> QED
  BY <1>1, <1>2, TypeInvariant, LinkBudgetInvariant, StageInvariant, PTL
     DEF Spec, ImplementsBearer, B!Spec

-----------------------------------------------------------------------------
(* What the address buffer holds. CopyAddress writes no NUL, so the string *)
(* DCM finds is the address only if a NUL stands behind it already.        *)

\* The string in a buffer ends before its first NUL.
LEMMA CStringAt ==
  ASSUME NEW b \in [1 .. IpLen -> Byte], NEW n \in Nat, n < IpLen,
         b[n + 1] = NUL, \A k \in 1 .. n : b[k] # NUL
  PROVE  CString(b) = SubSeq(b, 1, n)
<1> DEFINE ends == {k \in DOMAIN b : b[k] = NUL}
           first == CHOOSE k \in ends : \A j \in ends : k <= j
<1>1. IpLen \in Nat /\ DOMAIN b = 1 .. IpLen
  BY AddressAssumption
<1>2. n + 1 \in ends /\ \A j \in ends : n + 1 <= j
  BY <1>1
<1>3. first = n + 1
  <2>1. first \in ends /\ \A j \in ends : first <= j
    BY <1>2
  <2>2. first \in Nat /\ first <= n + 1 /\ n + 1 <= first
    BY <1>1, <1>2, <2>1
  <2> QED
    BY <2>2
<1>4. ends # {} /\ first - 1 = n
  BY <1>2, <1>3
<1> QED
  BY <1>4 DEF CString

LEMMA CopiedString ==
  ASSUME NEW b \in [1 .. IpLen -> Byte], NEW a \in IpAddrs, b[Len(a) + 1] = NUL
  PROVE  CString(CopyAddress(b, a)) = a
<1> DEFINE c == CopyAddress(b, a)
<1>1. /\ a \in Seq(Byte \ {NUL}) /\ Len(a) \in Nat /\ DOMAIN a = 1 .. Len(a)
      /\ Len(a) < IpLen /\ IpLen \in Nat
      /\ \A k \in 1 .. Len(a) : a[k] \in Byte \ {NUL}
  BY AddressAssumption, LenProperties, ElementOfSeq
<1>2. c \in [1 .. IpLen -> Byte]
  BY CopyType
<1>3. \A k \in 1 .. Len(a) : c[k] = a[k]
  BY <1>1 DEF CopyAddress
<1>4. c[Len(a) + 1] = NUL
  BY <1>1 DEF CopyAddress
<1> HIDE DEF c
<1>5. CString(c) = SubSeq(c, 1, Len(a))
  <2>1. \A k \in 1 .. Len(a) : c[k] # NUL
    BY <1>1, <1>3
  <2> QED
    BY <1>1, <1>2, <1>4, <2>1, CStringAt
<1>6. SubSeq(c, 1, Len(a)) = a
  <2> DEFINE s == SubSeq(c, 1, Len(a))
  <2>1. \A i \in 1 .. Len(a) : c[i] \in Byte
    BY <1>1, <1>3
  <2>2. /\ s \in Seq(Byte) /\ Len(s) = (IF 1 <= Len(a) THEN Len(a) - 1 + 1 ELSE 0)
        /\ \A i \in 1 .. Len(a) - 1 + 1 : s[i] = c[1 + i - 1]
    BY <1>1, <2>1, SubSeqProperties
  <2>3. Len(s) = Len(a)
    BY <1>1, <2>2
  <2>4. \A i \in 1 .. Len(s) : s[i] = a[i]
    BY <1>1, <1>3, <2>2, <2>3
  <2>5. a \in Seq(Byte)
    BY <1>1, SeqMonotonic
  <2> HIDE DEF s
  <2> QED
    BY <2>2, <2>3, <2>4, <2>5, SeqEqual
<1> QED
  BY <1>5, <1>6 DEF c

LEMMA EmptyString ==
  ASSUME NEW b \in [1 .. IpLen -> Byte], b[1] = NUL
  PROVE  CString(b) = <<>>
<1>1. 0 \in Nat /\ 0 < IpLen /\ b[0 + 1] = NUL /\ \A k \in 1 .. 0 : b[k] # NUL
  BY AddressAssumption
<1>2. CString(b) = SubSeq(b, 1, 0)
  BY <1>1, CStringAt
<1> QED
  BY <1>2, SubSeqEmpty

-----------------------------------------------------------------------------
\* Only the answer to a settings request touches a slot's address.
GrantsAddress(t) ==
  \E a \in IpAddrs :
    /\ session'[t].ip_address = CopyAddress(session[t].ip_address, a)
    /\ granted'[t] = a

AddressKept(t) ==
  session'[t].ip_address = session[t].ip_address /\ granted'[t] = granted[t]

LEMMA UpdatesKeepAddress ==
  ASSUME NEW sess \in Sessions
  PROVE  /\ \A x : [sess EXCEPT !.step = x].ip_address = sess.ip_address
         /\ \A p, x : [sess EXCEPT !.profile_id = p, !.step = x].ip_address
                       = sess.ip_address
         /\ \A x : [sess EXCEPT !.setup_link_done = x].ip_address = sess.ip_address
         /\ \A b, x : [sess EXCEPT !.ip_address = b, !.step = x].ip_address = b
BY DEF Sessions

LEMMA SessionKeepsAddress ==
  ASSUME TypeInv, NEW s \in Slots, NEW t \in Slots, NEW sess,
         session' = [session EXCEPT ![s] = sess],
         sess.ip_address = session[s].ip_address, UNCHANGED granted
  PROVE  AddressKept(t)
BY TypeFacts DEF AddressKept

LEMMA StepKeepsAddress ==
  ASSUME TypeInv, NEW s \in Slots, NEW t \in Slots, NEW x, SetStep(s, x),
         UNCHANGED granted
  PROVE  AddressKept(t)
<1>1. session' = [session EXCEPT ![s] = [session[s] EXCEPT !.step = x]]
  BY DEF SetStep
<1> QED
  BY <1>1, TypeFacts, UpdatesKeepAddress, SessionKeepsAddress

LEMMA TickKeepsAddress ==
  ASSUME TypeInv, NEW s \in Slots, Tick(s), NEW t \in Slots
  PROVE  AddressKept(t)
<1>1. UNCHANGED granted
  BY DEF Tick, QuietTick, TickGetProfiles, TickWithoutClient,
     TickAddProfile, TickModifyProfile, TickProfileReady, TickDummy, TickSetupLink,
     TickBindDataPort, TickStartNetwork, TickWait, TickGetSettings, TickStop,
     TickFinished, TickGiveUp, vars, history
<1>2. UNCHANGED session \/ (\E x : SetStep(s, x))
      \/ session' = [session EXCEPT ![s].setup_link_done = 1]
  BY DEF Tick, QuietTick, TickGetProfiles, TickWithoutClient,
     TickAddProfile, TickModifyProfile, TickProfileReady, TickDummy, TickSetupLink,
     TickBindDataPort, TickStartNetwork, TickWait, TickGetSettings, TickStop,
     TickFinished, TickGiveUp, vars
<1>3. CASE UNCHANGED session
  BY <1>1, <1>3 DEF AddressKept
<1>4. CASE session' = [session EXCEPT ![s].setup_link_done = 1]
  <2>1. session' = [session EXCEPT ![s] = [session[s] EXCEPT !.setup_link_done = 1]]
    BY <1>4
  <2> QED
    BY <1>1, <2>1, TypeFacts, UpdatesKeepAddress, SessionKeepsAddress
<1> QED
  BY <1>1, <1>2, <1>3, <1>4, StepKeepsAddress

LEMMA ListKeepsAddress ==
  ASSUME TypeInv, NEW s \in Slots, NEW t \in Slots, NEW sess \in Sessions,
         sess.ip_address = session[s].ip_address, NEW list, NEW reqs,
         GetNextProfileSettings(s, sess, list, reqs), UNCHANGED granted
  PROVE  AddressKept(t)
<1> DEFINE kept == IF sess.profile_id = 0
                   THEN [sess EXCEPT !.step = FIND_PROFILE_ADD_MODIFY] ELSE sess
<1>1. kept.ip_address = session[s].ip_address
  BY UpdatesKeepAddress
<1>2. SetSession(s, kept) \/ SetSession(s, sess)
  BY DEF GetNextProfileSettings
<1> HIDE DEF kept
<1> QED
  BY <1>1, <1>2, SessionKeepsAddress DEF SetSession

LEMMA CallbackGrants ==
  ASSUME TypeInv, NEW s \in Slots, NEW r \in Requests, Callback(s, r), NEW t \in Slots
  PROVE  IF t = s /\ GetCurrentSettingsReady(s, r)
         THEN GrantsAddress(t)
         ELSE AddressKept(t)
<1>0. session[s] \in Sessions /\ DOMAIN session = Slots /\ DOMAIN granted = Slots
  BY TypeFacts DEF TypeInv, TypeOK
<1>1. CASE GetCurrentSettingsReady(s, r)
  <2>1. PICK a \in IpAddrs :
          /\ session' = [session EXCEPT ![s] =
               [session[s] EXCEPT !.ip_address = CopyAddress(session[s].ip_address, a),
                                  !.step = Inc(session[s].step)]]
          /\ granted' = [granted EXCEPT ![s] = a]
    BY <1>1 DEF GetCurrentSettingsReady
  <2> DEFINE buf == CopyAddress(session[s].ip_address, a)
             sess == [session[s] EXCEPT !.ip_address = buf, !.step = Inc(session[s].step)]
  <2>2. sess.ip_address = buf
    BY <1>0, UpdatesKeepAddress
  <2>3. session' = [session EXCEPT ![s] = sess]
    BY <2>1
  <2> HIDE DEF sess, buf
  <2>4. CASE t = s
    <3>1. session'[t].ip_address = buf /\ granted'[t] = a
      BY <1>0, <2>1, <2>2, <2>3, <2>4
    <3> QED
      BY <1>1, <2>4, <3>1 DEF GrantsAddress, buf
  <2>5. CASE t # s
    BY <1>0, <2>1, <2>3, <2>5 DEF AddressKept
  <2> QED
    BY <2>4, <2>5
<1> SUFFICES ASSUME ~GetCurrentSettingsReady(s, r)
             PROVE  AddressKept(t)
  BY <1>1
<1>2. UNCHANGED granted
  BY DEF Callback, GetProfileListReady, GetProfileListFailed,
     GetProfileSettingsReady, GetProfileSettingsFreed, AddNewProfileReady,
     AddNewProfileFailed, ModifyProfileReady, SetupLinkReady, SetupLinkFailed,
     BindMuxDataPortReady, BindMuxDataPortFailed, StartNetworkReady,
     StartNetworkNoReply, StartNetworkCallFailed, StartNetworkError,
     GetCurrentSettingsIncomplete, GetCurrentSettingsFailed, history
<1>3. CASE GetProfileListReady(s, r)
  <2>1. UNCHANGED granted
    BY <1>3 DEF GetProfileListReady, history
  <2>2. (\E x : SetStep(s, x))
        \/ \E list, reqs : GetNextProfileSettings(s, session[s], list, reqs)
    BY <1>3 DEF GetProfileListReady
  <2> QED
    BY <1>0, <2>1, <2>2, StepKeepsAddress, ListKeepsAddress
<1>4. CASE GetProfileSettingsReady(s, r)
  <2> DEFINE found == [session[s] EXCEPT !.profile_id = profile_list[s].i + 1,
                                         !.step = PROFILE_READY]
  <2>1. UNCHANGED granted /\ profile_list[s].live
    BY <1>4 DEF GetProfileSettingsReady, history
  <2>2. found \in Sessions
    <3>1. profile_list[s].i + 1 \in Profiles
      <4>1. /\ profile_list[s].i \in Nat /\ profile_list[s].len \in Profiles
            /\ profile_list[s].i < profile_list[s].len
        BY <2>1 DEF TypeInv, TypeOK, ListCursorInside
      <4> QED
        BY <4>1, ProfilesAssumption DEF Profiles
    <3>2. PROFILE_READY \in 0 .. 255
      BY DEF PROFILE_READY
    <3> QED
      BY <1>0, <3>1, <3>2, SessionUpdates
  <2>3. found.ip_address = session[s].ip_address
    BY <1>0, UpdatesKeepAddress
  <2>4. PICK sess, list, reqs : /\ sess \in {found, session[s]}
                               /\ GetNextProfileSettings(s, sess, list, reqs)
    BY <1>4 DEF GetProfileSettingsReady
  <2> HIDE DEF found
  <2> QED
    BY <1>0, <2>1, <2>2, <2>3, <2>4, ListKeepsAddress
<1>5. CASE AddNewProfileReady(s, r)
  <2> DEFINE sess == [session[s] EXCEPT !.profile_id = Len(profiles) + 1,
                                         !.step = PROFILE_READY]
  <2>1. session' = [session EXCEPT ![s] = sess] /\ UNCHANGED granted
    BY <1>5 DEF AddNewProfileReady, history
  <2>2. sess.ip_address = session[s].ip_address
    BY <1>0 DEF Sessions
  <2> HIDE DEF sess
  <2> QED
    BY <2>1, <2>2, SessionKeepsAddress
<1>6. CASE SetupLinkReady(s, r)
  <2> DEFINE sess(mux) == [session[s] EXCEPT !.mux_id = mux, !.step = Inc(session[s].step)]
  <2>1. PICK mux \in MuxIds : session' = [session EXCEPT ![s] = sess(mux)]
    BY <1>6 DEF SetupLinkReady
  <2>2. sess(mux).ip_address = session[s].ip_address
    BY <1>0 DEF Sessions
  <2>3. UNCHANGED granted
    BY <1>6 DEF SetupLinkReady, history
  <2> HIDE DEF sess
  <2> QED
    BY <2>1, <2>2, <2>3, SessionKeepsAddress
<1>7. CASE StartNetworkReady(s, r)
  <2> DEFINE sess == [session[s] EXCEPT !.has_handle = TRUE,
                                         !.step = Inc(session[s].step)]
  <2>1. session' = [session EXCEPT ![s] = sess] /\ UNCHANGED granted
    BY <1>7 DEF StartNetworkReady, history
  <2>2. sess.ip_address = session[s].ip_address
    BY <1>0 DEF Sessions
  <2> HIDE DEF sess
  <2> QED
    BY <2>1, <2>2, SessionKeepsAddress
<1>8. CASE UNCHANGED session /\ UNCHANGED granted
  BY <1>8 DEF AddressKept
<1>9. CASE UNCHANGED granted /\ \E x : SetStep(s, x)
  BY <1>9, StepKeepsAddress
<1>10. \/ UNCHANGED session \/ (\E x : SetStep(s, x)) \/ GetCurrentSettingsReady(s, r)
       \/ GetProfileListReady(s, r) \/ GetProfileSettingsReady(s, r)
       \/ AddNewProfileReady(s, r) \/ SetupLinkReady(s, r) \/ StartNetworkReady(s, r)
  BY DEF Callback, GetProfileListFailed, GetProfileSettingsFreed,
     AddNewProfileFailed, ModifyProfileReady, SetupLinkFailed,
     BindMuxDataPortReady, BindMuxDataPortFailed,
     StartNetworkNoReply, StartNetworkCallFailed, StartNetworkError,
     GetCurrentSettingsIncomplete, GetCurrentSettingsFailed
<1> QED
  BY <1>1, <1>2, <1>3, <1>4, <1>5, <1>6, <1>7, <1>8, <1>9, <1>10

LEMMA ClientKeepsAddress ==
  ASSUME TypeInv, NEW s \in Slots, AllocateClientReady(s) \/ InitiateSession(s),
         NEW t \in Slots
  PROVE  AddressKept(t)
<1>1. CASE AllocateClientReady(s)
  BY <1>1 DEF AllocateClientReady, AddressKept, history
<1>2. CASE InitiateSession(s)
  <2>1. FreshSession(session[s].ip_address).ip_address = session[s].ip_address
    BY DEF FreshSession
  <2>2. UNCHANGED granted
    BY <1>2 DEF InitiateSession
  <2> QED
    BY <1>2, <2>1, <2>2, SessionKeepsAddress DEF InitiateSession, SetSession
<1> QED
  BY <1>1, <1>2
=============================================================================
