----------------------------- MODULE WdsSession -----------------------------
(***************************************************************************)
(* The data-session bring-up of imsd (wds.c): for each SIM slot a step     *)
(* counter, advanced by a 5 ms GLib timer (get_wds_ready_to_connect) and   *)
(* by the callbacks of the asynchronous QMI requests that the timer sends. *)
(* Timer and callbacks run on the one thread of the GLib main loop, so     *)
(* each of them is one atomic action; what interleaves is their order.     *)
(*                                                                         *)
(* The modem is external: a request waits in `pending' until the modem     *)
(* executes it and its callback runs, in any order; a failure is possible  *)
(* only if `Faults' names it.                                              *)
(***************************************************************************)
EXTENDS Integers, Sequences, FiniteSets

CONSTANTS
  Slots,            \* the SIM slots in use (at most MAX_SIM_SLOTS)
  InitialProfiles,  \* the modem's 3GPP profiles at start: TRUE is an IMS one;
                    \* a profile's index is its position
  MaxProfiles,      \* room in the modem's profile table
  MaxLinks,         \* mux identifiers the network driver can hand out
  IpLen,            \* sizeof(ip_address)
  IpAddrs,          \* addresses the network may assign: strings, see Byte
  InitialBuffer,    \* ip_address before the first write
  MaxOutstanding,   \* bound: equal requests of a slot that may be in flight
  MaxActivations,   \* bound: activation requests per slot
  Prompt,           \* TRUE: the modem answers before the next timer tick
  Faults            \* the failures of the environment that may happen

NUL  == 0
Byte == 0 .. 9      \* the characters of an address; NUL ends a string

AllFaults == {"early_activation", "allocate", "list", "profile_settings",
              "create", "create_lost", "link", "bind",
              "start_noreply", "start_executed_noreply", "start_call_failed",
              "start_error", "settings_noreply", "settings_error",
              "settings_incomplete"}

ASSUME SlotsAssumption == IsFiniteSet(Slots)

ASSUME ProfilesAssumption ==
  /\ InitialProfiles \in Seq(BOOLEAN)
  /\ MaxProfiles \in 1 .. 255
  /\ Len(InitialProfiles) <= MaxProfiles

ASSUME BoundsAssumption ==
  /\ MaxLinks \in Nat \ {0}
  /\ MaxOutstanding \in Nat \ {0}
  /\ MaxActivations \in Nat

ASSUME AddressAssumption ==
  /\ IpLen \in Nat \ {0}
  /\ InitialBuffer \in [1 .. IpLen -> Byte]
  /\ IpAddrs \in SUBSET Seq(Byte \ {NUL})
  /\ \A a \in IpAddrs : Len(a) < IpLen

ASSUME ScenarioAssumption ==
  /\ Prompt \in BOOLEAN
  /\ Faults \in SUBSET AllFaults

-----------------------------------------------------------------------------
(* The values of connection_readiness_step (wds.h).                        *)
GET_PROFILES            == 0
FIND_PROFILE_ADD_MODIFY == 1
PROFILE_READY           == 2
SETUP_DATA_FORMAT       == 3
SETUP_LINK              == 4
LINK_BRINGUP            == 5
SET_IP_BEARER_METHOD    == 6
BIND_DATA_PORT_IPV4     == 7
SELECT_IP_FAMILY_IPV4   == 8
DO_START_NETWORK_IPV4   == 9
WAIT_FOR_COMPLETION     == 10
REGISTER_INDICATIONS    == 11
GET_SETTINGS_IPV4       == 12
BIND_DATA_PORT_IPV6     == 13
GET_SETTINGS_IPV6       == 17
FINISHED                == 99

DummySteps == {SETUP_DATA_FORMAT, LINK_BRINGUP, SET_IP_BEARER_METHOD,
               SELECT_IP_FAMILY_IPV4, REGISTER_INDICATIONS}
WaitSteps  == {WAIT_FOR_COMPLETION} \cup 14 .. GET_SETTINGS_IPV6
KnownSteps == 0 .. GET_SETTINGS_IPV6 \cup {FINISHED}

\* connection_readiness_step is a uint8_t.
Inc(step) == (step + 1) % 256
Dec(step) == (step + 255) % 256

MuxIds   == 1 .. MaxLinks
NoMux    == 0
Profiles == 0 .. MaxProfiles        \* 0: none
NoNet    == -1

Ops  == {"get_profile_list", "get_profile_settings", "create_profile",
         "modify_profile", "add_link", "bind_mux_data_port",
         "start_network", "get_current_settings"}
Requests ==
  [op : {"get_profile_list", "start_network"}, arg : Profiles]
    \cup [op : {"get_profile_settings"}, arg : 1 .. MaxProfiles]
    \cup [op : {"modify_profile"}, arg : {1}]
    \cup [op : {"bind_mux_data_port"}, arg : {NoMux} \cup MuxIds]
    \cup [op : {"create_profile", "add_link", "get_current_settings"}, arg : {0}]

VARIABLES
  process,       \* "running", "crashed" or "exited"
  wds,           \* the QMI WDS client of a slot is allocated
  session,       \* _WDS_Packet_Session of a slot
  profile_list,  \* _Profile_List: live, the cursor i and the list's length
  timers,        \* get_wds_ready_to_connect timers armed for a slot
  pending,       \* requests in flight: how many of each
  profiles,      \* modem: the 3GPP profile table
  links,         \* kernel: the mux identifiers of the links made for a slot
  bound,         \* modem: the mux identifier a slot's client is bound to
  network,       \* modem: the profile a slot's data call is on, or NoNet
  granted,       \* history: the address last reported for a slot
  activations,   \* history: activation requests of a slot
  notified       \* history: address indications handed to DCM for a slot

external == <<profiles, links, bound, network>>
history  == <<granted, activations, notified>>
vars == <<process, wds, session, profile_list, timers, pending, external, history>>

Sessions == [step : 0 .. 255, profile_id : Profiles, setup_link_done : {0, 1},
             mux_id : {NoMux} \cup MuxIds, has_handle : BOOLEAN,
             ip_address : [1 .. IpLen -> Byte]]

TypeOK ==
  /\ process \in {"running", "crashed", "exited"}
  /\ wds \in [Slots -> BOOLEAN]
  /\ session \in [Slots -> Sessions]
  /\ profile_list \in [Slots -> [live : BOOLEAN, i : Nat, len : Profiles]]
  /\ timers \in [Slots -> Nat]
  /\ pending \in [Slots -> [Requests -> Nat]]
  /\ profiles \in Seq(BOOLEAN)
  /\ Len(profiles) \in Profiles
  /\ links \in [Slots -> SUBSET MuxIds]
  /\ bound \in [Slots -> {NoMux} \cup MuxIds]
  /\ network \in [Slots -> {NoNet} \cup Profiles]
  /\ granted \in [Slots -> {<<>>} \cup IpAddrs]
  /\ activations \in [Slots -> 0 .. MaxActivations]
  /\ notified \in [Slots -> Nat]

-----------------------------------------------------------------------------
\* What initiate_wds_session makes of a session: the address buffer is kept.
FreshSession(buffer) ==
  [step |-> GET_PROFILES, profile_id |-> 0, setup_link_done |-> 0,
   mux_id |-> NoMux, has_handle |-> FALSE, ip_address |-> buffer]

Init ==
  /\ process = "running"
  /\ wds = [s \in Slots |-> FALSE]
  /\ session = [s \in Slots |-> FreshSession(InitialBuffer)]
  /\ profile_list = [s \in Slots |-> [live |-> FALSE, i |-> 0, len |-> 0]]
  /\ timers = [s \in Slots |-> 0]
  /\ pending = [s \in Slots |-> [r \in Requests |-> 0]]
  /\ profiles = InitialProfiles
  /\ links = [s \in Slots |-> {}]
  /\ bound = [s \in Slots |-> NoMux]
  /\ network = [s \in Slots |-> NoNet]
  /\ granted = [s \in Slots |-> <<>>]
  /\ activations = [s \in Slots |-> 0]
  /\ notified = [s \in Slots |-> 0]

Request(op, arg) == [op |-> op, arg |-> arg]

Idle(s) == \A r \in Requests : pending[s][r] = 0

\* The timer of slot s fires while the session is at `step'.
Due(s, step) ==
  /\ process = "running"
  /\ timers[s] > 0
  /\ session[s].step = step
  /\ Prompt => Idle(s)

Send(s, r) ==
  /\ pending[s][r] < MaxOutstanding
  /\ pending' = [pending EXCEPT ![s][r] = @ + 1]

InFlight(s, r) == process = "running" /\ pending[s][r] > 0
Answered(s, r) == [pending[s] EXCEPT ![r] = @ - 1]
Receive(s, r)  == InFlight(s, r) /\ pending' = [pending EXCEPT ![s] = Answered(s, r)]

SetSession(s, sess) == session' = [session EXCEPT ![s] = sess]
SetStep(s, step) == session' = [session EXCEPT ![s].step = step]

-----------------------------------------------------------------------------
(* Client allocation and activation (qmi-ims-client.c, wds.c).             *)

\* wds_allocate_client_ready
AllocateClientReady(s) ==
  /\ process = "running"
  /\ ~wds[s]
  /\ \/ /\ wds' = [wds EXCEPT ![s] = TRUE]
        /\ UNCHANGED process
     \/ /\ "allocate" \in Faults
        /\ process' = "exited"
        /\ UNCHANGED wds
  /\ UNCHANGED <<session, profile_list, timers, pending, external, history>>

\* request_network_start, initiate_wds_session: neither the timers nor the
\* requests of an earlier activation are cancelled.
InitiateSession(s) ==
  /\ process = "running"
  /\ wds[s] \/ "early_activation" \in Faults
  /\ activations[s] < MaxActivations
  /\ SetSession(s, FreshSession(session[s].ip_address))
  /\ timers' = [timers EXCEPT ![s] = @ + 1]
  /\ activations' = [activations EXCEPT ![s] = @ + 1]
  /\ UNCHANGED <<process, wds, profile_list, pending, external, granted, notified>>

-----------------------------------------------------------------------------
(* get_wds_ready_to_connect: one action per case of its switch.            *)

TickGetProfiles(s) ==
  /\ Due(s, GET_PROFILES)
  /\ wds[s]
  /\ Send(s, Request("get_profile_list", Len(profiles)))
  /\ UNCHANGED <<process, wds, session, profile_list, timers, external, history>>

\* Activated before its client was allocated: the request dereferences the
\* context, NULL until some slot's client is there, or uses a handle nobody
\* has set, which libqmi rejects or crashes on.
TickWithoutClient(s) ==
  /\ Due(s, GET_PROFILES)
  /\ ~wds[s]
  /\ \/ process' = "crashed"
     \/ (\E t \in Slots : wds[t]) /\ UNCHANGED process
  /\ UNCHANGED <<wds, session, profile_list, timers, pending, external, history>>

TickAddProfile(s) ==
  /\ Due(s, FIND_PROFILE_ADD_MODIFY)
  /\ session[s].profile_id = 0
  /\ Send(s, Request("create_profile", 0))
  /\ UNCHANGED <<process, wds, session, profile_list, timers, external, history>>

\* wds_modify_profile_by_id: always profile 1, and it does not wait.
TickModifyProfile(s) ==
  /\ Due(s, FIND_PROFILE_ADD_MODIFY)
  /\ session[s].profile_id # 0
  /\ Send(s, Request("modify_profile", 1))
  /\ SetStep(s, PROFILE_READY)
  /\ UNCHANGED <<process, wds, profile_list, timers, external, history>>

TickProfileReady(s) ==
  /\ Due(s, PROFILE_READY)
  /\ SetStep(s, SETUP_DATA_FORMAT)
  /\ UNCHANGED <<process, wds, profile_list, timers, pending, external, history>>

TickDummy(s) ==
  /\ \E step \in DummySteps : Due(s, step)
  /\ SetStep(s, Inc(session[s].step))
  /\ UNCHANGED <<process, wds, profile_list, timers, pending, external, history>>

\* Mutant: setup_link_done is not looked at.
TickSetupLink_Unguarded(s) ==
  /\ Due(s, SETUP_LINK)
  /\ Send(s, Request("add_link", 0))
  /\ session' = [session EXCEPT ![s].setup_link_done = 1]
  /\ UNCHANGED <<process, wds, profile_list, timers, external, history>>

\* Mutant: the step advances without waiting for the link.
TickSetupLink_NoWait(s) ==
  /\ Due(s, SETUP_LINK)
  /\ Send(s, Request("add_link", 0))
  /\ session' = [session EXCEPT ![s] =
       [@ EXCEPT !.setup_link_done = 1, !.step = Inc(session[s].step)]]
  /\ UNCHANGED <<process, wds, profile_list, timers, external, history>>

\* wds_connection_setup_link; a second call is ignored as spurious.
TickSetupLink(s) ==
  /\ Due(s, SETUP_LINK)
  /\ IF session[s].setup_link_done = 0
     THEN /\ Send(s, Request("add_link", 0))
          /\ session' = [session EXCEPT ![s].setup_link_done = 1]
     ELSE UNCHANGED <<pending, session>>
  /\ UNCHANGED <<process, wds, profile_list, timers, external, history>>

TickBindDataPort(s) ==
  /\ Due(s, BIND_DATA_PORT_IPV4)
  /\ Send(s, Request("bind_mux_data_port", session[s].mux_id))
  /\ UNCHANGED <<process, wds, session, profile_list, timers, external, history>>

TickStartNetwork(s) ==
  /\ Due(s, DO_START_NETWORK_IPV4)
  /\ Send(s, Request("start_network", session[s].profile_id))
  /\ SetStep(s, Inc(session[s].step))
  /\ UNCHANGED <<process, wds, profile_list, timers, external, history>>

TickWait(s) ==
  /\ \E step \in WaitSteps : Due(s, step)
  /\ UNCHANGED vars

TickGetSettings(s) ==
  /\ Due(s, GET_SETTINGS_IPV4)
  /\ Send(s, Request("get_current_settings", 0))
  /\ UNCHANGED <<process, wds, session, profile_list, timers, external, history>>

TickStop(s) ==
  /\ Due(s, BIND_DATA_PORT_IPV6)
  /\ SetStep(s, FINISHED)
  /\ UNCHANGED <<process, wds, profile_list, timers, pending, external, history>>

\* Mutant: returns TRUE, the timer stays.
TickFinished_TimerKept(s) ==
  /\ Due(s, FINISHED)
  /\ notified' = [notified EXCEPT ![s] = @ + 1]
  /\ UNCHANGED <<process, wds, session, profile_list, timers, pending, external,
                 granted, activations>>

\* notify_pdp_ipaddress_change and return FALSE: the timer is removed.
TickFinished(s) ==
  /\ Due(s, FINISHED)
  /\ timers' = [timers EXCEPT ![s] = @ - 1]
  /\ notified' = [notified EXCEPT ![s] = @ + 1]
  /\ UNCHANGED <<process, wds, session, profile_list, pending, external,
                 granted, activations>>

\* The default case: the timer is removed and nobody is told.
TickGiveUp(s) ==
  /\ session[s].step \notin KnownSteps
  /\ Due(s, session[s].step)
  /\ timers' = [timers EXCEPT ![s] = @ - 1]
  /\ UNCHANGED <<process, wds, session, profile_list, pending, external, history>>

-----------------------------------------------------------------------------
(* The callbacks of the QMI requests.                                      *)

\* wds_get_next_profile_settings(sess, list), with `reqs' what is in flight:
\* ask for the profile under the cursor or, at the end, free the list.
GetNextProfileSettings(s, sess, list, reqs) ==
  IF list.i >= list.len
  THEN /\ SetSession(s, IF sess.profile_id = 0
                        THEN [sess EXCEPT !.step = FIND_PROFILE_ADD_MODIFY]
                        ELSE sess)
       /\ profile_list' = [profile_list EXCEPT ![s] = [list EXCEPT !.live = FALSE]]
       /\ pending' = [pending EXCEPT ![s] = reqs]
  ELSE LET r == Request("get_profile_settings", list.i + 1) IN
       /\ reqs[r] < MaxOutstanding
       /\ pending' = [pending EXCEPT ![s] = [reqs EXCEPT ![r] = @ + 1]]
       /\ profile_list' = [profile_list EXCEPT ![s] = list]
       /\ SetSession(s, sess)

\* wds_get_profile_list_ready: the modem's answer holds the profiles there
\* were at some moment since the request was sent (r.arg of them).
GetProfileListReady(s, r) ==
  /\ r.op = "get_profile_list"
  /\ InFlight(s, r)
  /\ \E len \in r.arg .. Len(profiles) :
       IF len = 0
       THEN /\ SetStep(s, FIND_PROFILE_ADD_MODIFY)
            /\ pending' = [pending EXCEPT ![s] = Answered(s, r)]
            /\ UNCHANGED profile_list
       ELSE GetNextProfileSettings(s, session[s],
              [live |-> TRUE, i |-> 0, len |-> len], Answered(s, r))
  /\ UNCHANGED <<process, wds, timers, external, history>>

GetProfileListFailed(s, r) ==
  /\ r.op = "get_profile_list"
  /\ "list" \in Faults
  /\ Receive(s, r)
  /\ UNCHANGED <<process, wds, session, profile_list, timers, external, history>>

\* Mutant: the APN type is not compared.
GetProfileSettingsReady_AnyApn(s, r) ==
  /\ r.op = "get_profile_settings"
  /\ InFlight(s, r)
  /\ profile_list[s].live
  /\ LET list == profile_list[s] IN
     GetNextProfileSettings(s,
       [session[s] EXCEPT !.profile_id = list.i + 1, !.step = PROFILE_READY],
       [list EXCEPT !.i = @ + 1], Answered(s, r))
  /\ UNCHANGED <<process, wds, timers, external, history>>

\* wds_get_profile_settings_ready: the answer is taken to be about the profile
\* under the cursor of the slot's current list.
GetProfileSettingsReady(s, r) ==
  /\ r.op = "get_profile_settings"
  /\ InFlight(s, r)
  /\ profile_list[s].live
  /\ \E is_ims \in BOOLEAN :
       /\ is_ims = profiles[r.arg] \/ (~is_ims /\ "profile_settings" \in Faults)
       /\ LET list == profile_list[s] IN
          GetNextProfileSettings(s,
            IF is_ims THEN [session[s] EXCEPT !.profile_id = list.i + 1,
                                              !.step = PROFILE_READY]
                      ELSE session[s],
            [list EXCEPT !.i = @ + 1], Answered(s, r))
  /\ UNCHANGED <<process, wds, timers, external, history>>

\* The same callback once the list has been freed: a use after free.
GetProfileSettingsFreed(s, r) ==
  /\ r.op = "get_profile_settings"
  /\ Receive(s, r)
  /\ ~profile_list[s].live
  /\ process' = "crashed"
  /\ UNCHANGED <<wds, session, profile_list, timers, external, history>>

\* wds_add_new_profile_ready
AddNewProfileReady(s, r) ==
  /\ r.op = "create_profile"
  /\ Receive(s, r)
  /\ Len(profiles) < MaxProfiles
  /\ profiles' = Append(profiles, TRUE)
  /\ session' = [session EXCEPT ![s] =
       [@ EXCEPT !.profile_id = Len(profiles) + 1, !.step = PROFILE_READY]]
  /\ UNCHANGED <<process, wds, profile_list, timers, links, bound, network, history>>

\* No answer, an error, or no identifier in the answer: the profile may have
\* been made, but the session does not learn of it.
AddNewProfileFailed(s, r) ==
  /\ r.op = "create_profile"
  /\ Receive(s, r)
  /\ \/ /\ "create" \in Faults \/ Len(profiles) = MaxProfiles
        /\ UNCHANGED profiles
     \/ /\ "create_lost" \in Faults
        /\ Len(profiles) < MaxProfiles
        /\ profiles' = Append(profiles, TRUE)
  /\ UNCHANGED <<process, wds, session, profile_list, timers, links, bound,
                 network, history>>

\* wds_modify_profile_ready looks at the outcome and changes nothing; the
\* request names a 3GPP2 profile (PROFILE_TYPE_3GPP is 1 in wds.h, which is
\* 3GPP2 to the modem), so the 3GPP table stays as it is.
ModifyProfileReady(s, r) ==
  /\ r.op = "modify_profile"
  /\ Receive(s, r)
  /\ UNCHANGED <<process, wds, session, profile_list, timers, external, history>>

\* Mutant: the multiplex identifier is not stored.
SetupLinkReady_NoMux(s, r) ==
  /\ r.op = "add_link"
  /\ Receive(s, r)
  /\ \E mux \in MuxIds \ UNION {links[t] : t \in Slots} :
       links' = [links EXCEPT ![s] = @ \cup {mux}]
  /\ SetStep(s, Inc(session[s].step))
  /\ UNCHANGED <<process, wds, profile_list, timers, profiles, bound, network, history>>

\* wds_connection_setup_link_ready
SetupLinkReady(s, r) ==
  /\ r.op = "add_link"
  /\ Receive(s, r)
  /\ \E mux \in MuxIds \ UNION {links[t] : t \in Slots} :
       /\ links' = [links EXCEPT ![s] = @ \cup {mux}]
       /\ session' = [session EXCEPT ![s] =
            [@ EXCEPT !.mux_id = mux, !.step = Inc(session[s].step)]]
  /\ UNCHANGED <<process, wds, profile_list, timers, profiles, bound, network, history>>

SetupLinkFailed(s, r) ==
  /\ r.op = "add_link"
  /\ Receive(s, r)
  /\ "link" \in Faults \/ MuxIds \subseteq UNION {links[t] : t \in Slots}
  /\ UNCHANGED <<process, wds, session, profile_list, timers, external, history>>

\* wds_bind_mux_data_port_ready
BindMuxDataPortReady(s, r) ==
  /\ r.op = "bind_mux_data_port"
  /\ Receive(s, r)
  /\ bound' = [bound EXCEPT ![s] = r.arg]
  /\ SetStep(s, Inc(session[s].step))
  /\ UNCHANGED <<process, wds, profile_list, timers, profiles, links, network, history>>

\* Mutant: a failed binding is taken for a success.
BindMuxDataPortFailed_Goes(s, r) ==
  /\ r.op = "bind_mux_data_port"
  /\ "bind" \in Faults
  /\ Receive(s, r)
  /\ SetStep(s, Inc(session[s].step))
  /\ UNCHANGED <<process, wds, profile_list, timers, external, history>>

BindMuxDataPortFailed(s, r) ==
  /\ r.op = "bind_mux_data_port"
  /\ "bind" \in Faults
  /\ Receive(s, r)
  /\ UNCHANGED <<process, wds, session, profile_list, timers, external, history>>

\* wds_start_network_ready
StartNetworkReady(s, r) ==
  /\ r.op = "start_network"
  /\ Receive(s, r)
  /\ network[s] = NoNet
  /\ network' = [network EXCEPT ![s] = r.arg]
  /\ session' = [session EXCEPT ![s] =
       [@ EXCEPT !.has_handle = TRUE, !.step = Inc(session[s].step)]]
  /\ UNCHANGED <<process, wds, profile_list, timers, profiles, links, bound, history>>

\* Mutant: the step is not taken back.
StartNetworkNoReply_NoRetry(s, r) ==
  /\ r.op = "start_network"
  /\ "start_noreply" \in Faults
  /\ Receive(s, r)
  /\ UNCHANGED <<process, wds, session, profile_list, timers, external, history>>

\* The request timed out; the modem may have executed it all the same.
StartNetworkNoReply(s, r) ==
  /\ r.op = "start_network"
  /\ Receive(s, r)
  /\ \/ "start_noreply" \in Faults /\ UNCHANGED network
     \/ /\ "start_executed_noreply" \in Faults
        /\ network' = [network EXCEPT ![s] = IF @ = NoNet THEN r.arg ELSE @]
  /\ SetStep(s, Dec(session[s].step))
  /\ UNCHANGED <<process, wds, profile_list, timers, profiles, links, bound, history>>

\* QMI_PROTOCOL_ERROR_CALL_FAILED: the step is set to 5 and incremented.
StartNetworkCallFailed(s, r) ==
  /\ r.op = "start_network"
  /\ "start_call_failed" \in Faults
  /\ Receive(s, r)
  /\ network[s] = NoNet
  /\ SetStep(s, Inc(LINK_BRINGUP))
  /\ UNCHANGED <<process, wds, profile_list, timers, external, history>>

\* Any other error is treated like success, without a handle. A modem whose
\* call is already up answers NO_EFFECT.
StartNetworkError(s, r) ==
  /\ r.op = "start_network"
  /\ Receive(s, r)
  /\ network[s] # NoNet \/ "start_error" \in Faults
  /\ SetStep(s, Inc(session[s].step))
  /\ UNCHANGED <<process, wds, profile_list, timers, external, history>>

\* memcpy(ip_address, buf, strlen(buf)): no terminating NUL is written.
CopyAddress(buffer, addr) ==
  [k \in 1 .. IpLen |-> IF k \in DOMAIN addr THEN addr[k] ELSE buffer[k]]

\* wds_get_current_settings_ready
GetCurrentSettingsReady(s, r) ==
  /\ r.op = "get_current_settings"
  /\ Receive(s, r)
  /\ network[s] # NoNet
  /\ \E addr \in IpAddrs :
       /\ session' = [session EXCEPT ![s] =
            [@ EXCEPT !.ip_address = CopyAddress(session[s].ip_address, addr),
                      !.step = Inc(session[s].step)]]
       /\ granted' = [granted EXCEPT ![s] = addr]
  /\ UNCHANGED <<process, wds, profile_list, timers, external, activations, notified>>

\* An answer without netmask or address.
GetCurrentSettingsIncomplete(s, r) ==
  /\ r.op = "get_current_settings"
  /\ "settings_incomplete" \in Faults
  /\ Receive(s, r)
  /\ UNCHANGED <<process, wds, session, profile_list, timers, external, history>>

\* An error (OUT_OF_CALL when there is no call) is freed twice; without any
\* answer the callback goes on with output and error both NULL.
GetCurrentSettingsFailed(s, r) ==
  /\ r.op = "get_current_settings"
  /\ Receive(s, r)
  /\ \/ /\ network[s] = NoNet \/ "settings_error" \in Faults
        /\ process' \in {"running", "crashed"}
     \/ /\ "settings_noreply" \in Faults
        /\ process' = "crashed"
  /\ UNCHANGED <<wds, session, profile_list, timers, external, history>>

-----------------------------------------------------------------------------
\* Every tick but the one that calls into DCM.
QuietTick(s) ==
  \/ TickGetProfiles(s) \/ TickWithoutClient(s)
  \/ TickAddProfile(s) \/ TickModifyProfile(s) \/ TickProfileReady(s)
  \/ TickDummy(s) \/ TickSetupLink(s) \/ TickBindDataPort(s)
  \/ TickStartNetwork(s) \/ TickWait(s) \/ TickGetSettings(s) \/ TickStop(s)
  \/ TickGiveUp(s)

Tick(s) == QuietTick(s) \/ TickFinished(s)

Callback(s, r) ==
  \/ GetProfileListReady(s, r) \/ GetProfileListFailed(s, r)
  \/ GetProfileSettingsReady(s, r) \/ GetProfileSettingsFreed(s, r)
  \/ AddNewProfileReady(s, r) \/ AddNewProfileFailed(s, r)
  \/ ModifyProfileReady(s, r)
  \/ SetupLinkReady(s, r) \/ SetupLinkFailed(s, r)
  \/ BindMuxDataPortReady(s, r) \/ BindMuxDataPortFailed(s, r)
  \/ StartNetworkReady(s, r) \/ StartNetworkNoReply(s, r)
  \/ StartNetworkCallFailed(s, r) \/ StartNetworkError(s, r)
  \/ GetCurrentSettingsReady(s, r) \/ GetCurrentSettingsIncomplete(s, r)
  \/ GetCurrentSettingsFailed(s, r)

Next ==
  \E s \in Slots :
    \/ AllocateClientReady(s)
    \/ InitiateSession(s)
    \/ Tick(s)
    \/ \E r \in Requests : Callback(s, r)

Spec == Init /\ [][Next]_vars

-----------------------------------------------------------------------------
(* Safety that the code keeps whatever the order of ticks and callbacks    *)
(* and whatever fails.                                                     *)

\* An activation arms one timer and a timer announces an address at most once
\* before it is removed (`return FALSE' of get_wds_ready_to_connect), however
\* the step counter is pushed around by late callbacks.
OneIndicationPerActivation ==
  \A s \in Slots : timers[s] + notified[s] <= activations[s]

\* setup_link_done: however often the timer finds the session at SETUP_LINK,
\* an activation adds at most one network link.
OneLinkPerActivation ==
  \A s \in Slots : Cardinality(links[s]) <= activations[s]

\* A request of kind op is in flight for slot s.
Waiting(s, op) == \E r \in Requests : r.op = op /\ pending[s][r] > 0

NeedsProfile(s) ==
  \/ session[s].step >= PROFILE_READY
  \/ session[s].setup_link_done = 1

NeedsBinding(s) ==
  \/ session[s].step >= SELECT_IP_FAMILY_IPV4
  \/ Waiting(s, "start_network")
  \/ Waiting(s, "get_current_settings")
  \/ network[s] # NoNet

NeedsLink(s) ==
  \/ session[s].step >= LINK_BRINGUP
  \/ Waiting(s, "bind_mux_data_port")
  \/ NeedsBinding(s)

StageHasResources(s) ==
  /\ NeedsProfile(s) => session[s].profile_id # 0
  /\ NeedsLink(s) => session[s].mux_id \in links[s]
  /\ NeedsBinding(s) => bound[s] = session[s].mux_id

\* What the stages of a first activation rest on: past PROFILE_READY there is
\* a profile, past the link there is a link of this slot, past the binding the
\* client is bound to that link. Duplicated and late answers may push the
\* step counter too far, but never past a stage whose resource is missing.
StagesInOrder == \A s \in Slots : activations[s] <= 1 => StageHasResources(s)

\* The inductive strengthening of the invariants above.
ListCursorInside ==
  \A s \in Slots : profile_list[s].live => profile_list[s].i < profile_list[s].len

\* Links made, being made, and still to be made under setup_link_done = 0.
LinkBudget ==
  \A s \in Slots :
    Cardinality(links[s]) + pending[s][Request("add_link", 0)]
      + (IF activations[s] > 0 /\ session[s].setup_link_done = 0 THEN 1 ELSE 0)
    <= activations[s]

LinksOfOneSlot ==
  \A s, t \in Slots : s # t => links[s] \cap links[t] = {}

\* What requests in flight carry, and what has not happened yet.
RequestsFitSession(s) ==
  \A r \in Requests : pending[s][r] > 0 =>
    /\ r.op = "bind_mux_data_port" => r.arg = session[s].mux_id
    /\ r.op = "start_network" => r.arg # 0
    /\ r.op = "add_link" => session[s].setup_link_done = 1

NothingTakenYet(s) == Idle(s) /\ bound[s] = NoMux /\ session[s].profile_id = 0

FirstActivation ==
  \A s \in Slots : activations[s] <= 1 =>
    /\ RequestsFitSession(s)
    /\ links[s] = {session[s].mux_id} \ {NoMux}
    /\ links[s] # {} => session[s].setup_link_done = 1
    /\ network[s] # 0
    /\ activations[s] = 0 => NothingTakenYet(s)

IndInv ==
  /\ TypeOK
  /\ ListCursorInside
  /\ OneIndicationPerActivation
  /\ LinkBudget
  /\ LinksOfOneSlot
  /\ FirstActivation
  /\ StagesInOrder

\* The string DCM finds in a buffer: up to the first NUL.
CString(buffer) ==
  LET ends == {k \in DOMAIN buffer : buffer[k] = NUL}
      len  == IF ends = {} THEN IpLen
              ELSE (CHOOSE k \in ends : \A j \in ends : k <= j) - 1
  IN SubSeq(buffer, 1, len)

Announces(s) == notified'[s] # notified[s]

\* What notify_pdp_ipaddress_change hands to DCM is an address the modem has
\* reported for the slot, the one it reported last: not nothing, and not that
\* address with the tail of an earlier one.
AnnouncesGrantedAddress ==
  [][\A s \in Slots : Announces(s) =>
       granted[s] \in IpAddrs /\ CString(session[s].ip_address) = granted[s]]_vars

\* With one activation per slot the bring-up implements Bearer.
B == INSTANCE Bearer WITH
  ProfileIds <- 1 .. MaxProfiles, None <- NoMux, NoCall <- NoNet,
  profile <- [s \in Slots |-> session[s].profile_id],
  mux     <- [s \in Slots |-> session[s].mux_id],
  port    <- bound,
  call    <- network

\* Whatever is late, lost, repeated or refused, the bring-up takes profile,
\* link, port and call in this order and each from the slot's own link.
ImplementsBearer == B!Spec

-----------------------------------------------------------------------------
(* Safety that needs the answers to come before the next tick.             *)

\* An address is announced only while the call is up, over the slot's link.
AnnouncesLiveNetwork ==
  [][\A s \in Slots : Announces(s) =>
       network[s] # NoNet /\ bound[s] \in links[s]]_vars

\* The call is started on a profile whose APN type is IMS.
NetworkOnImsProfile ==
  \A s \in Slots : network[s] # NoNet =>
    network[s] \in DOMAIN profiles /\ profiles[network[s]]

-----------------------------------------------------------------------------
(* Fairness: GLib keeps dispatching the timer, every request is answered   *)
(* or times out, and a request that is repeated is not refused for ever.   *)
Fairness ==
  \A s \in Slots :
    /\ WF_vars(AllocateClientReady(s))
    /\ WF_vars(Tick(s))
    /\ \A op \in Ops : WF_vars(\E r \in Requests : r.op = op /\ Callback(s, r))
    /\ SF_vars(\E r \in Requests : GetProfileListReady(s, r))
    /\ SF_vars(\E r \in Requests : AddNewProfileReady(s, r))
    /\ SF_vars(\E r \in Requests : BindMuxDataPortReady(s, r))
    /\ SF_vars(\E r \in Requests : StartNetworkReady(s, r) \/ StartNetworkError(s, r))
    /\ SF_vars(\E r \in Requests : GetCurrentSettingsReady(s, r))

FairSpec == Spec /\ Fairness

\* An activation ends in an address being announced: the stages of
\* get_wds_ready_to_connect are passed one after the other until the session
\* is started.
ActivationIsAnnounced ==
  \A s \in Slots : activations[s] > 0 ~> notified[s] > 0
=============================================================================
